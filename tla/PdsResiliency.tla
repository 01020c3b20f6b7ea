--------------------------- MODULE PdsResiliency ---------------------------
(***************************************************************************)
(* The resiliency tests of the PDS library: two goroutines, one that waits   *)
(* for a condition of the data service and one that induces a failure when   *)
(* the condition is met, joined by the test case.  ResiliencyCondition is an *)
(* unbuffered channel (a send and a receive happen together),                *)
(* CapturedErrors a buffered one that collects what went wrong.              *)
(***************************************************************************)
EXTENDS PdsCluster

CONSTANTS
    Waiter, Striker,    \* the two goroutines
    MaxErrors           \* the capacity of CapturedErrors

Send(v) == [do |-> "send", val |-> v]
\* Sent only when this is a resiliency test.
IfFlagged(step) == IF glob.flag THEN <<step>> ELSE <<>>
Pick(rule) == [do |-> "pick", rule |-> rule]
GetSet == Kube("get", "deployment", Dep)
GetSetPods == Kube("list", "pod", Dep)

----------------------------------------------------------------------------
\* The conditions

\* A poll that ends in an error tells the other goroutine and captures the error.
UnmetCondition == IfFlagged(Send(FALSE)) \o IfFlagged(Capture) \o <<Fail>>
CheckPodIsTerminating(k) ==
    Guard(Try(<<GetSet, Final(GetSetPods), Ask("terminating", Dep)>> \o IfFlagged(Send(TRUE))), UnmetCondition)
GetPdsSs(k) == Guard(Try(<<GetSet, Ask("replicas", Dep)>> \o IfFlagged(Send(TRUE))), UnmetCondition)

CaptIf(step) == IF glob.flag THEN Capt(step) ELSE step
UpdateDeploymentResourceConfig(k) ==
    <<CaptIf(Kube("list", "rtmpl", "")), Ask("template", "rt"), CaptIf(Kube("update", "deployment", Dep)), CaptIf(GetSet)>>
    \o Guard(Try(<<CaptIf(Final(GetSetPods)), Ask("updated", Dep)>> \o IfFlagged(Send(TRUE))), IfFlagged(Capture) \o <<Fail>>)

\* The restore of a job is a call of the restore client (RestoreJob in PdsControl).
RestoreAndValidateConfiguration(k) ==
    <<[do |-> "restored", val |-> 0], Must(Net), Must(Kube("list", "job", Dep)), Every("jobsOf", Dep, "restoreJob")>>

\* Counts the replicas until all are there and ready; the revision they run is not looked at.
ValidateStatefulSet(n) == Try(<<Ask("setReady", n)>>)
ValidateDataServiceDeployment(n) ==
    Try(<<Ask("setThere", n)>>) \o ValidateStatefulSet(n) \o Try(<<Ask("available", n)>>)

----------------------------------------------------------------------------
\* The failures.  The error of a poll is captured inside it and otherwise ignored.

Listed(now) == [do |-> "listed", now |-> now]
PodsLook(rule) == Try(<<Capt(GetSet), Listed(FALSE), Capt(GetSetPods), Listed(TRUE), Pick(rule)>>)
OnNode(verb) == [do |-> "onNode", verb |-> verb]
RestartPXDuringDSScaleUp(k) == Guard(PodsLook("last"), <<>>) \o <<OnNode("net")>>
StopPXDuringStorageIncrease(k) == Guard(PodsLook("last"), <<>>) \o <<OnNode("net")>>
NodeRebootDurinAppVersionUpdate(k) == Guard(PodsLook("terminating"), <<>>) \o <<OnNode("reboot")>>
\* k.n reboots: the pods that were not ready when they were listed, one by one.
RebootActiveNodeDuringDeployment(k) == Guard(PodsLook("unready"), <<>>) \o <<[do |-> "nextUnready", n |-> k.n]>>
RebootOne(node) == Capt(Kube("reboot", "node", node))
TestConnection(node) == Capt(Ask("connected", node))
RebootAgain(node, n) ==
    IF n > 1 THEN FlattenSeq([i \in 1..n |-> <<TestConnection(node), RebootOne(node)>>]) ELSE <<>>

\* More than half of the workers for the quorum test.
QuorumNodes == (Len(Workers) \div 2) + 1
RebootWorkerNodesDuringDeployment(k) ==
    LET count == IF k.name = "quorum" THEN QuorumNodes ELSE Len(Workers)
    IN Guard(PodsLook("first"), <<Capture, Fail>>)
       \o FlattenSeq([i \in 1..count |-> <<RebootOne(Workers[i]), TestConnection(Workers[i])>>])
RebootWorkernodesDuringRestore(k) == RebootWorkerNodesDuringDeployment(k)

KillPodsInNamespace(k) == <<Capt(Kube("list", "pod", k.name)), Every("podsNamed", k.name, "killPod")>>
RestartApplicationDuringResourceUpdate(k) ==
    <<Capt(GetSet), Capt(GetSetPods), Ask("somePod", Dep), Capt(Kube("killPod", "pod", Dep))>>

Method(k) ==
    CASE k.method = "RestartPXDuringDSScaleUp" -> RestartPXDuringDSScaleUp(k)
      [] k.method = "StopPXDuringStorageIncrease" -> StopPXDuringStorageIncrease(k)
      [] k.method = "NodeRebootDurinAppVersionUpdate" -> NodeRebootDurinAppVersionUpdate(k)
      [] k.method = "RebootActiveNodeDuringDeployment" -> RebootActiveNodeDuringDeployment(k)
      [] k.method = "RebootWorkernodesDuringRestore" -> RebootWorkernodesDuringRestore(k)
      [] k.method = "KillPodsInNamespace" -> KillPodsInNamespace(k)
      [] k.method = "RestartApplicationDuringResourceUpdate" -> RestartApplicationDuringResourceUpdate(k)

----------------------------------------------------------------------------
\* The test case

\* The condition a type of failure waits for.
Condition(type) ==
    CASE type \in {"replicas"} -> "GetPdsSs"
      [] type = "versionUpdate" -> "CheckPodIsTerminating"
      [] type = "resourceUpdate" -> "UpdateDeploymentResourceConfig"
      [] type = "restore" -> "RestoreAndValidateConfiguration"
      [] type = "storageResize" -> "ResizeDataserviceStorage"
InduceFailureAfterWaitingForCondition(k) ==
    <<[do |-> "parallel"], [do |-> "join"], [do |-> "drain"]>> \o ValidateDataServiceDeployment(Dep)
InduceFailure(k) == <<[do |-> "recv"]>>

ResiliencyProgram(k) ==
    CASE k.op = "InduceFailureAfterWaitingForCondition" -> InduceFailureAfterWaitingForCondition(k)
      [] k.op = "InduceFailure" -> InduceFailure(k)
      [] k.op = "GetPdsSs" -> GetPdsSs(k)
      [] k.op = "CheckPodIsTerminating" -> CheckPodIsTerminating(k)
      [] k.op = "UpdateDeploymentResourceConfig" -> UpdateDeploymentResourceConfig(k)
      [] k.op = "RestoreAndValidateConfiguration" -> RestoreAndValidateConfiguration(k)
      [] k.op = "ValidateDataServiceDeployment" -> ValidateDataServiceDeployment(k.name)

----------------------------------------------------------------------------
\* Steps

\* The goroutines are handed to the scheduler; CheckTillReplica becomes a package variable.
ExecuteInParallel(c) ==
    /\ At(c, "parallel")
    /\ LET k == Call(c) IN
       /\ th' = [th EXCEPT ![c].todo = Tail(@),
                           ![Waiter] = [Idle EXCEPT !.script = <<[k EXCEPT !.op = Condition(k.type)]>>],
                           ![Striker] = [Idle EXCEPT !.script = <<[k EXCEPT !.op = "InduceFailure"]>>]]
       /\ glob' = [glob EXCEPT !.till = IF k.type = "replicas" THEN k.n ELSE @, !.caught = 0, !.struck = FALSE]
    /\ UNCHANGED <<objs, ss, up, errs, faults>>
Join(c) ==
    /\ At(c, "join") /\ th[Waiter].script = <<>> /\ th[Striker].script = <<>>
    /\ Proceed(c) /\ UNCHANGED <<pdsVars, faults>>

After(c, steps) == IF steps = <<>> THEN Ended(c, "nil") ELSE [th[c] EXCEPT !.todo = steps]
\* Mutant: the failure is induced whatever the condition says.
Strike_Always(val, k) == Method(k)
Strike(val, k) == IF val THEN Method(k) ELSE <<Capture>>
Rendezvous(s, r) ==
    /\ At(s, "send") /\ At(r, "recv")
    /\ th' = [th EXCEPT ![s] = After(s, Tail(th[s].todo)), ![r] = After(r, Strike(Step(s).val, Call(r)))]
    /\ glob' = [glob EXCEPT !.struck = Step(s).val] /\ UNCHANGED <<objs, ss, up, errs, faults>>

CaptureError(c) ==
    /\ At(c, "capture") /\ Len(errs) < MaxErrors
    /\ errs' = Append(errs, c) /\ glob' = [glob EXCEPT !.caught = @ + 1]
    /\ Proceed(c) /\ UNCHANGED <<objs, ss, up, faults>>

\* The bound of the loop is read again in every round, while the loop empties the channel:
\* of n errors it reads the first half, and the rest stays for the next call.
DrainErrors(c) ==
    /\ At(c, "drain")
    /\ errs' = SubSeq(errs, ((Len(errs) + 1) \div 2) + 1, Len(errs))
    /\ (IF errs = <<>> THEN Proceed(c) ELSE Error(c)) /\ UNCHANGED <<objs, ss, up, glob, faults>>

KeepList(c) ==
    /\ At(c, "listed") /\ UNCHANGED <<pdsVars, faults>>
    /\ ProceedWith(c, [th[c].lk EXCEPT !.pods = IF Step(c).now THEN ss.pods ELSE <<>>])
\* What the pods listed say: the node to act on, another look, or nothing found.
PickNode(c) ==
    /\ At(c, "pick") /\ UNCHANGED <<pdsVars, faults>>
    /\ LET rule == Step(c).rule
           ps == Local(c, "pods")
           again == \/ rule = "last" /\ \E i \in DOMAIN ps : ps[i].node = ""
                    \/ rule = "terminating" /\ ps # <<>> /\ ~ps[1].term
                    \/ rule \in {"first", "unready"} /\ ps # <<>> /\ ps[1].node = ""
           node == CASE rule = "last" /\ Len(ps) >= ss.want /\ ss.want > 0 -> ps[ss.want].node
                     [] rule = "terminating" /\ ps # <<>> -> ps[1].node
                     [] OTHER -> ""
       IN IF again THEN Retry(c) ELSE ProceedWith(c, [th[c].lk EXCEPT !.node = node])
\* GetNodeByName fails for a name the registry does not have.
OnPickedNode(c) ==
    /\ At(c, "onNode") /\ UNCHANGED <<pdsVars, faults>>
    /\ LET n == Local(c, "node")
       IN Become(c, th[c].lk, IF n \in Nodes THEN <<Capt(Kube(Step(c).verb, "node", n))>> ELSE <<Capture, Fail>>)
NextUnready(c) ==
    /\ At(c, "nextUnready") /\ UNCHANGED <<pdsVars, faults>>
    /\ LET left == SelectSeq(Local(c, "pods"), LAMBDA p : ~p.ready)
           n == Head(left).node
       IN IF left = <<>> THEN Proceed(c)
          ELSE Become(c, [th[c].lk EXCEPT !.pods = Tail(left)],
                  IF n \in Nodes THEN <<RebootOne(n)>> \o RebootAgain(n, Step(c).n) \o <<Step(c)>> ELSE <<Capture, Fail>>)
Restored(c) ==
    /\ At(c, "restored") /\ Proceed(c)
    /\ glob' = [glob EXCEPT !.restored = IF Step(c).val = 0 THEN 0 ELSE @ + 1]
    /\ UNCHANGED <<objs, ss, up, errs, faults>>
Panics(c) == At(c, "panic") /\ Panic(c) /\ UNCHANGED <<pdsVars, faults>>

ResiliencyStep(c) ==
    \/ ExecuteInParallel(c) \/ Join(c) \/ CaptureError(c) \/ DrainErrors(c) \/ KeepList(c) \/ PickNode(c)
    \/ OnPickedNode(c) \/ NextUnready(c) \/ Restored(c) \/ Panics(c)
=============================================================================
