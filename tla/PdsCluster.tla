----------------------------- MODULE PdsCluster -----------------------------
(***************************************************************************)
(* What the PDS drivers talk to: the control plane of Portworx Data         *)
(* Services and the Kubernetes cluster its data services run in.  Both hold  *)
(* named objects.  A request can be refused, can fail, and can be carried    *)
(* out without its answer arriving; an object takes its time to become what  *)
(* was asked for.  The stateful set of one deployment is modelled pod by     *)
(* pod, because the resiliency tests act on its pods and their nodes.        *)
(***************************************************************************)
EXTENDS Calls, TLC

CONSTANTS
    Main,       \* the goroutine of the test case; the others are the ones it starts
    Workers     \* the worker nodes in the order of the registry

VARIABLES
    objs,       \* the objects of the control plane and of Kubernetes
    ss,         \* the stateful set of the deployment under test
    up,         \* the nodes that are up
    errs,       \* CapturedErrors: the errors captured and not yet read
    glob        \* the package variables that outlive a call

pdsVars == <<objs, ss, up, errs, glob>>
Nodes == ToSet(Workers)
Dep == "d"      \* the deployment under test

\* An object: what it belongs to, its state, and the words its name contains.
Obj(kind, name, of, st) == [kind |-> kind, name |-> name, of |-> of, st |-> st, has |-> {}]
Named(kind, name) == {o \in objs : o.kind = kind /\ o.name = name}
There(kind, name) == Named(kind, name) # {}
In(kind, name, st) == \E o \in Named(kind, name) : o.st = st

\* A pod of the stateful set; "rev" is the revision of the deployment it runs.
NewPod == [node |-> "", ready |-> FALSE, term |-> FALSE, rev |-> ss.rev]
\* All replicas are there and ready, of whatever revision.
AllReady == Len(ss.pods) = ss.want /\ \A i \in DOMAIN ss.pods : ss.pods[i].ready
DepHealthy(n) == IF n = Dep THEN AllReady ELSE In("deployment", n, "Available")
SetThere(n) == IF n = Dep THEN ss.want > 0 ELSE There("deployment", n) /\ ~In("deployment", n, "pending")

----------------------------------------------------------------------------
\* Steps.  The error of a step ends the function, or the closure it is in asks for
\* another run.  Final: no other run.  Must: log.FailOnError, or a nil result that is used.
\* Drop: the error is ignored.  Tolerant: an object that is not there is no error.
\* Capt: the error goes to CapturedErrors before it is returned.

Final(s) == s @@ [final |-> TRUE]
Must(s) == s @@ [must |-> TRUE]
Drop(s) == s @@ [drop |-> TRUE]
Tolerant(s) == s @@ [tolerant |-> TRUE]
Capt(s) == s @@ [capt |-> TRUE]
Is(c, attribute) == attribute \in DOMAIN Step(c)

Kube(verb, kind, name) == [do |-> "req", verb |-> verb, kind |-> kind, name |-> name, of |-> ""]
Net == Kube("net", "", "")
Ask(q, name) == [do |-> "ask", q |-> q, name |-> name]
\* For every object of a list that was read once: the steps "each".
Every(sel, arg, each) == [do |-> "every", sel |-> sel, arg |-> arg, each |-> each, words |-> <<"">>]
EveryWith(sel, arg, each, words) == [Every(sel, arg, each) EXCEPT !.words = words]

\* A panic of the test case fails the test; one of a goroutine it started ends the process.
Panic(c) ==
    IF c = Main THEN Return(c, "panic") ELSE th' = [d \in Callers |-> [Idle EXCEPT !.res = "panic"]]
Capture == [do |-> "capture"]
Failed(c) ==
    CASE Is(c, "must") -> Panic(c)
      [] Is(c, "capt") -> th' = [th EXCEPT ![c].todo = <<Capture, Fail>>]
      [] Is(c, "drop") -> Proceed(c)
      [] Is(c, "final") -> Error(c)
      [] OTHER -> Retry(c)
\* A request that got no response at all: a method that looks at the response crashes.
NoAnswer(c) == Failed(c) \/ (Is(c, "api") /\ Panic(c))
Verdict(c, v) == IF v = "panic" THEN Panic(c) ELSE Outcome(c, v)

----------------------------------------------------------------------------
\* What a request does

Slow == {"target", "deployment", "ns", "tc"}
FirstState(kind) ==
    CASE kind \in {"deployment", "wl", "pod", "ns"} -> "pending"
      [] kind \in {"job", "restore"} -> "Running"
      [] OTHER -> "ready"

Refused(c) ==
    LET s == Step(c) IN
    CASE s.verb = "create" -> There(s.kind, s.name)
      [] s.verb \in {"get", "update", "delete", "uncordon", "expand"} -> s.name # Dep /\ ~There(s.kind, s.name)
      [] s.verb = "killPod" -> ss.pods = <<>>
      [] s.verb = "helm" -> (s.of = "install") # In("chart", "pds", "none")
      [] OTHER -> FALSE

Replace(o, new) == objs' = (objs \ {o}) \cup new /\ UNCHANGED <<ss, up, errs, glob>>
Served(c) ==
    LET s == Step(c) IN
    CASE s.verb = "create" ->
            objs' = objs \cup {Obj(s.kind, s.name, s.of, FirstState(s.kind))} /\ UNCHANGED <<ss, up, errs, glob>>
      [] s.verb = "fresh" -> \* a generated name: one that is still there is another object
            /\ objs' = {IF o \in Named(s.kind, s.name) THEN [o EXCEPT !.kind = "leftover"] ELSE o : o \in objs}
                           \cup {Obj(s.kind, s.name, s.of, FirstState(s.kind))}
            /\ UNCHANGED <<ss, up, errs, glob>>
      [] s.verb = "expand" -> \E o \in Named(s.kind, s.name) : Replace(o, {[o EXCEPT !.st = "resizing"]})
      [] s.verb = "delete" /\ There(s.kind, s.name) ->
            \E o \in Named(s.kind, s.name) : Replace(o, IF s.kind \in Slow THEN {[o EXCEPT !.st = "deleting"]} ELSE {})
      [] s.verb = "update" /\ s.name # Dep ->
            \E o \in Named(s.kind, s.name) : Replace(o, {[o EXCEPT !.st = FirstState(s.kind)]})
      [] s.verb = "update" /\ s.name = Dep -> ss' = [ss EXCEPT !.rev = @ + 1] /\ UNCHANGED <<objs, up, errs, glob>>
      [] s.verb = "uncordon" -> \E o \in Named(s.kind, s.name) : Replace(o, {[o EXCEPT !.st = "ready"]})
      [] s.verb = "deleteAll" -> objs' = {o \in objs : o.kind # "pod" \/ o.of # s.name} /\ UNCHANGED <<ss, up, errs, glob>>
      [] s.verb = "helm" -> \E o \in Named("chart", "pds") : Replace(o, {[o EXCEPT !.st = s.name]})
      [] s.verb = "reboot" -> /\ up' = up \ {s.name}
                              /\ ss' = [ss EXCEPT !.pods = [i \in DOMAIN @ |-> IF @[i].node = s.name THEN [@[i] EXCEPT !.ready = FALSE] ELSE @[i]]]
                              /\ UNCHANGED <<objs, errs, glob>>
      [] s.verb = "killPod" -> /\ \E i \in DOMAIN ss.pods : ss' = [ss EXCEPT !.pods[i].term = TRUE, !.pods[i].ready = FALSE]
                               /\ UNCHANGED <<objs, up, errs, glob>>
      [] OTHER -> UNCHANGED pdsVars

Request(c) ==
    /\ At(c, "req")
    /\ \/ ~Refused(c) /\ Served(c) /\ Proceed(c) /\ UNCHANGED faults
       \/ ~Refused(c) /\ Served(c) /\ Fault /\ NoAnswer(c)
       \/ Fault /\ NoAnswer(c) /\ UNCHANGED pdsVars
       \/ Refused(c) /\ UNCHANGED <<pdsVars, faults>> /\ IF Is(c, "tolerant") THEN Proceed(c) ELSE Failed(c)
Question(c, verdict) ==
    /\ \/ Verdict(c, verdict) /\ UNCHANGED faults
       \/ Fault /\ NoAnswer(c)
    /\ UNCHANGED pdsVars

----------------------------------------------------------------------------
\* The cluster by itself

Settled(o) ==
    CASE o.st = "deleting" -> {"gone"}
      [] o.kind = "deployment" /\ o.st = "pending" -> {"Degraded", "Available"}
      [] o.kind = "deployment" /\ o.st = "Degraded" -> {"Available"}
      [] o.kind = "ns" /\ o.st = "pending" -> {"available"}
      [] o.kind = "job" /\ o.st = "Running" -> {"Succeeded", "Failed"}
      [] o.kind = "restore" /\ o.st = "Running" -> {"Successful", "Failed"}
      [] o.kind \in {"wl", "pod"} /\ o.st = "pending" -> {"ready"}
      [] o.kind \in {"wl", "pod"} /\ o.st = "ready" /\ o.name # "agent" -> {"done", "crashed"}
      [] o.kind = "pool" /\ o.st = "resizing" -> {"resized", "failed"}
      [] OTHER -> {}
ObjectSettles(o) ==
    /\ \E st \in Settled(o) : Replace(o, IF st = "gone" THEN {} ELSE {[o EXCEPT !.st = st]})

OnPods(pods) == ss' = [ss EXCEPT !.pods = pods] /\ UNCHANGED <<objs, up, errs, glob>>
Newer(i) == [ss.pods EXCEPT ![i] = NewPod]
PodAppears == Len(ss.pods) < ss.want /\ OnPods(Append(ss.pods, NewPod))
PodPlaced(i) == ss.pods[i].node = "" /\ \E n \in up : OnPods([ss.pods EXCEPT ![i].node = n])
PodReady(i) ==
    LET p == ss.pods[i] IN p.node \in up /\ ~p.ready /\ ~p.term /\ OnPods([ss.pods EXCEPT ![i].ready = TRUE])
\* An update replaces one pod at a time.
PodUpdated(i) ==
    /\ ss.pods[i].rev < ss.rev /\ \A j \in DOMAIN ss.pods : ~ss.pods[j].term
    /\ OnPods([ss.pods EXCEPT ![i].term = TRUE, ![i].ready = FALSE])
PodReplaced(i) == ss.pods[i].term /\ OnPods(Newer(i))
NodeComesBack(n) == n \notin up /\ up' = up \cup {n} /\ UNCHANGED <<objs, ss, errs, glob>>

\* The pods of the chart follow it.
ChartFollows ==
    \E o \in objs :
        /\ o.kind = "chart"
        /\ \/ o.st = "none" /\ There("pod", "agent") /\ objs' = objs \ Named("pod", "agent")
           \/ o.st # "none" /\ ~There("pod", "agent") /\ objs' = objs \cup {Obj("pod", "agent", "pds-system", "ready")}
        /\ UNCHANGED <<ss, up, errs, glob>>

Proceeding ==
    /\ \/ \E o \in objs : ObjectSettles(o)
       \/ PodAppears \/ ChartFollows
       \/ \E i \in DOMAIN ss.pods : PodPlaced(i) \/ PodReady(i) \/ PodUpdated(i) \/ PodReplaced(i)
       \/ \E n \in Nodes : NodeComesBack(n)
    /\ UNCHANGED <<scene, th, faults>>
\* Someone else removes an object the scene offers.
Disturbing ==
    /\ Fault /\ UNCHANGED <<scene, th>>
    /\ \E o \in objs : o.kind \in Scene.fleeting /\ Replace(o, {})
=============================================================================
