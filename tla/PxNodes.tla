------------------------------- MODULE PxNodes -------------------------------
(***************************************************************************)
(* The calls of the Portworx volume driver about nodes, pools and drives,   *)
(* drivers/volume/portworx/portworx.go and its Kubernetes half              *)
(* drivers/volume/portworx/schedops/k8s-schedops.go: maintenance, stop,      *)
(* start and recovery, decommission and rejoin, pool expansion, pxctl.       *)
(***************************************************************************)
EXTENDS PxVolumes

AskOf(q, n, via) == [do |-> "ask", q |-> q, n |-> n, via |-> via]
\* A node is inspected by the identifier the call has for it.
Inspect(q, n, via) == [do |-> "inspect", q |-> q, n |-> n, via |-> via]
OnAll(ns, program(_)) == FlattenSeq([i \in DOMAIN ns |-> program(ns[i])])
\* nodeDriver.RunCommand tries a command again, RunCommandWithNoRetry does not.
RunCommand(verb, n) == Try(<<Cmd(verb, n)>>)

----------------------------------------------------------------------------
\* Maintenance

\* Mutant: the node is not waited for.
EnterMaintenanceNoWait(n) == Try(<<Cmd("enter", n)>>)

\* The request to the node, then GetDriverNode until the status is the one wanted.
EnterMaintenance(n) == Try(<<Cmd("enter", n)>>) \o Try(<<Inspect("isMaint", n, "fresh")>>)
ExitMaintenance(n) == Try(<<Cmd("exit", n)>>) \o Try(<<Inspect("isOK", n, "fresh")>>)
RecoverDriver(n) == EnterMaintenance(n) \o ExitMaintenance(n)

\* With a token every pxctl command stands between the creation and the deletion of a
\* context; an error of the command leaves the context behind.
PxctlStatus(n) ==
    IF Scene.secured THEN <<Cmd("contextCreate", n), AskOf("pxctl", n, "node"), Cmd("contextDelete", n)>>
    ELSE <<AskOf("pxctl", n, "node")>>
GetPxctlStatus(n) == OnAll(PxctlStatus(n), LAMBDA step : Try(<<step>>))
GetPxctlCmdOutputConnectionOpts(verb, n) ==
    IF Scene.secured
    THEN RunCommand("contextCreate", n) \o RunCommand(verb, n) \o RunCommand("contextDelete", n)
    ELSE RunCommand(verb, n)

\* The three minutes the driver sleeps are taken to be enough for a node to settle.
Sleep(n) == <<[do |-> "sleep", n |-> n]>>
EnterPoolMaintenance(n) == RunCommand("poolEnter", n) \o Sleep(n)
\* A node whose status is OK is left alone.
ExitPoolMaintenance(n) ==
    Guard(PxctlStatus(n) \o <<AskOf("okDone", n, "node")>>, <<>>)
        \o RunCommand("poolExit", n) \o Sleep(n)
RecoverPool(n) == EnterPoolMaintenance(n) \o ExitPoolMaintenance(n)

----------------------------------------------------------------------------
\* Stopping and starting

\* PerformTask waits for the trigger first, if there is one; an error of the trigger is final.
PerformTask(k, program) ==
    IF k.trigger THEN Try(<<[final |-> TRUE] @@ Ask("triggered", "node")>>) \o program ELSE program

StopNode(n, force) ==
    IF force THEN RunCommand("kill", n) ELSE <<Cmd("labelStop", n)>> \o RunCommand("stop", n)
StopDriver(k) == PerformTask(k, OnAll(k.ns, LAMBDA n : StopNode(n, k.force)))
KillPXDaemon(k) ==
    PerformTask(k, OnAll(k.ns, LAMBDA n : Try(<<AskOf("daemon", n, "node")>>) \o RunCommand("kill", n)))
StartDriver(n) == <<Cmd("labelStart", n)>> \o RunCommand("start", n)
RestartDriver(n) == <<Cmd("labelRestart", n)>>

\* A node that is being decommissioned counts as up, and its pxctl is not asked.  One without
\* pools that is offline may have come back as another one: its identifier is looked up.
WaitDriverUpOnNode(n) ==
    Try(<<Inspect("up", n, "get"), [do |-> "status", n |-> n]>>) \o Try(<<AskOf("ready", n, "node")>>)
WaitDriverDownOnNode(n) == Try(<<[do |-> "down", n |-> n]>>)
GetNodeStatus(n) == Try(<<Inspect("status", n, "get")>>)
getPxVersionOnNode(n) == Try(<<[final |-> TRUE] @@ Inspect("okVersion", n, "fresh")>>)

getStorageNodesOnStart == Try(<<Ask("clusterOK", "cluster")>>) \o <<[do |-> "getPxNodes", via |-> "once"]>>
updateNodes == <<[do |-> "updateNodes", left |-> Nodes]>>
RefreshDriverEndpoints ==
    <<Ask("token", "node"), Ask("namespace", "node"), Refresh(TRUE)>> \o getStorageNodesOnStart \o updateNodes
InitDriver ==
    <<Ask("namespace", "node"), [do |-> "setDriver"]>> \o getStorageNodesOnStart \o updateNodes
        \o <<[do |-> "driverNodes"]>> \o <<Ask("restarts", "node")>>

----------------------------------------------------------------------------
\* Leaving and joining the cluster

\* Up to 25 minutes until the node is not listed any more.
DecommissionWait(n) == Try(<<AskOf("gone", n, "once")>>)

\* A node without pools may be offline instead of in maintenance.  An inspection that
\* fails dereferences its missing answer; the wait for maintenance is not looked at.  The
\* node that runs the deletion is chosen once for all attempts.
DecommissionNode(k) ==
    <<Cmd("labelRemove", k.n)>>
        \o (IF k.storageless
            THEN Guard(EnterMaintenance(k.n), <<Inspect("isOffline", k.n, "fresh")>>)
            ELSE EnterMaintenance(k.n))
        \o <<[panic |-> TRUE] @@ Inspect("inspected", k.n, "get")>>
        \o Guard(Try(<<Inspect("maintOrOffline", k.n, "fresh")>>), <<>>)
        \o <<[do |-> "cmdNode"]>> \o Try(<<Cmd("clusterDelete", k.n)>>)
        \o <<[do |-> "registry", n |-> k.n], Refresh(TRUE)>>
        \o DecommissionWait(k.n)
RejoinNode(n) ==
    RunCommand("wipe", n) \o <<Cmd("serviceClear", n), Cmd("labelClear", n)>> \o RestartDriver(n)
        \o <<Cmd("uncordon", n)>>
\* The status is looked at once, a minute later, whether the node has settled or not; an
\* error of that is only logged, one of the exit is not.
RecoverNode(n) ==
    <<Cmd("serviceClear", n), Cmd("labelClear", n)>> \o RestartDriver(n)
        \o Guard(<<Inspect("known", n, "fresh")>>, <<>>) \o <<[do |-> "exit", n |-> n], Cmd("uncordon", n)>>

----------------------------------------------------------------------------
\* Pools and drives

\* The size itself is sent, so that sending it again changes nothing.  The pool grows later.
ExpandPool == Try(<<Sdk("poolSize", "raw")>>)
ExpandPoolUsingPxctlCmd(k) == <<Cmd("poolSize", k.n)>>
\* Relative, and sent again whenever its answer is missing.
ResizeStoragePoolByPercentage == Try(<<Sdk("poolGrow", "raw")>>)
DeletePool(k) == IF k.retry THEN RunCommand("poolDelete", k.n) ELSE <<Cmd("poolDelete", k.n)>>
ListStoragePools == <<Ask("pxNodes", "raw"), Ask("pxNodes", "raw")>>
ValidateRebalanceJobs == Try(<<Ask("rebalanced", "raw")>>)
\* A refresh that fails is not noticed when the sizes are estimated.
ValidateStoragePools ==
    <<Ask("rules", "node")>> \o Guard(RefreshDriverEndpoints, <<>>)
        \o Try(<<Ask("token", "node"), Ask("namespace", "node"), Refresh(TRUE), Ask("clusterOK", "cluster"),
                 [do |-> "getPxNodes", via |-> "once"]>> \o updateNodes \o <<Ask("poolSizes", "node")>>)
addDrive(n) == <<Cmd("addDrive", n)>>
\* "Not yet" comes without an error, which ends the retries: one look is all.
waitForAddDriveToComplete(n) == <<AskOf("pxctl", n, "node")>>
AddCloudDrive(n) == addDrive(n)
AddBlockDrives(k) ==
    <<AskOf("drives", k.n, "node")>>
        \o FlattenSeq([i \in 1..k.drives |-> addDrive(k.n) \o waitForAddDriveToComplete(k.n)])

NodeProgram(k) ==
    CASE k.op = "EnterMaintenance" -> EnterMaintenance(k.n)
      [] k.op = "ExitMaintenance" -> ExitMaintenance(k.n)
      [] k.op = "RecoverDriver" -> RecoverDriver(k.n)
      [] k.op = "RecoverPool" -> RecoverPool(k.n)
      [] k.op = "GetPxctlStatus" -> GetPxctlStatus(k.n)
      [] k.op = "StopDriver" -> StopDriver(k)
      [] k.op = "KillPXDaemon" -> KillPXDaemon(k)
      [] k.op = "StartDriver" -> StartDriver(k.n)
      [] k.op = "RestartDriver" -> RestartDriver(k.n)
      [] k.op = "WaitDriverUpOnNode" -> WaitDriverUpOnNode(k.n)
      [] k.op = "WaitDriverDownOnNode" -> WaitDriverDownOnNode(k.n)
      [] k.op = "GetNodeStatus" -> GetNodeStatus(k.n)
      [] k.op = "GetDriverVersionOnNode" -> getPxVersionOnNode(k.n)
      [] k.op = "RefreshDriverEndpoints" -> RefreshDriverEndpoints
      [] k.op = "Init" -> InitDriver
      [] k.op = "DecommissionNode" -> DecommissionNode(k)
      [] k.op = "RejoinNode" -> RejoinNode(k.n)
      [] k.op = "RecoverNode" -> RecoverNode(k.n)
      [] k.op = "ExpandPool" -> ExpandPool
      [] k.op = "ExpandPoolUsingPxctlCmd" -> ExpandPoolUsingPxctlCmd(k)
      [] k.op = "ResizeStoragePoolByPercentage" -> ResizeStoragePoolByPercentage
      [] k.op = "DeletePool" -> DeletePool(k)
      [] k.op = "ListStoragePools" -> ListStoragePools
      [] k.op = "ValidateRebalanceJobs" -> ValidateRebalanceJobs
      [] k.op = "ValidateStoragePools" -> ValidateStoragePools
      [] k.op = "AddCloudDrive" -> AddCloudDrive(k.n)
      [] k.op = "AddBlockDrives" -> AddBlockDrives(k)
      [] OTHER -> VolumeProgram(k)

----------------------------------------------------------------------------
\* What a command does to its node

NodeVerbs == {"enter", "exit", "poolEnter", "poolExit", "contextCreate", "contextDelete", "kill", "stop",
              "start", "labelStop", "labelStart", "labelRestart", "labelRemove", "labelClear",
              "serviceClear", "clusterDelete", "wipe", "uncordon", "poolSize", "poolGrow", "poolDelete", "addDrive",
              "diags", "diagsJob"}
\* The node a request is about: the one of the step, or of the call.
About(c) == IF "n" \in DOMAIN Step(c) THEN Step(c).n ELSE Call(c).n

NodeRefused(c) ==
    LET n == About(c)
    IN CASE Step(c).verb \in {"enter", "exit", "poolEnter", "addDrive", "poolGrow"} -> ~Up(n)
         \* A pool that has the size is not resized.
         [] Step(c).verb = "poolSize" -> ~Up(n) \/ (px[n].grow = 0 /\ px[n].pool >= Call(c).v)
         [] Step(c).verb = "poolDelete" -> px[n].pool = 0
         [] Step(c).verb = "clusterDelete" -> Local(c, "cmdNode") \notin Nodes \/ ~Up(Local(c, "cmdNode"))
         [] OTHER -> FALSE

Becomes(c, r) ==
    LET verb == Step(c).verb
    IN CASE verb = "enter" -> [r EXCEPT !.maint = TRUE]
         [] verb = "exit" -> [r EXCEPT !.maint = FALSE]
         [] verb = "poolEnter" -> [r EXCEPT !.poolMaint = TRUE]
         [] verb = "poolExit" -> [r EXCEPT !.poolMaint = FALSE]
         [] verb = "contextCreate" -> [r EXCEPT !.context = TRUE]
         [] verb = "contextDelete" -> [r EXCEPT !.context = FALSE]
         [] verb = "kill" -> [r EXCEPT !.st = "OFFLINE"]
         [] verb \in {"stop", "labelStop"} -> [r EXCEPT !.run = FALSE]
         [] verb \in {"start", "labelStart"} -> [r EXCEPT !.run = TRUE]
         [] verb = "labelRestart" -> [r EXCEPT !.run = TRUE, !.st = "OFFLINE"]
         \* A node without pools goes offline as soon as it is labelled.
         [] verb = "labelRemove" -> [r EXCEPT !.label = "remove", !.run = @ /\ ~r.storageless]
         [] verb = "labelClear" -> [r EXCEPT !.label = "none"]
         [] verb = "serviceClear" -> r
         [] verb = "clusterDelete" -> [r EXCEPT !.leaving = r.member]
         [] verb = "wipe" -> [r EXCEPT !.wiped = ~r.member, !.maint = FALSE]
         [] verb = "uncordon" -> [r EXCEPT !.cordoned = FALSE]
         [] verb = "poolSize" -> [r EXCEPT !.grow = Call(c).v]
         [] verb = "poolGrow" -> [r EXCEPT !.grow = Max({@, r.pool}) + (Max({@, r.pool}) * Call(c).v) \div 100]
         [] verb = "poolDelete" -> [r EXCEPT !.pool = 0, !.grow = 0]
         [] verb = "addDrive" -> [r EXCEPT !.drives = @ + 1]
         [] verb = "diags" -> [r EXCEPT !.diags = "done"]
         [] verb = "diagsJob" -> [r EXCEPT !.diags = "running"]
NodeServed(c) ==
    /\ px' = [px EXCEPT ![About(c)] = Becomes(c, px[About(c)])]
    /\ UNCHANGED <<vols, lastId, k8s>>

----------------------------------------------------------------------------
\* The questions about a node and what a closure makes of the answer

\* The job is asked for until it ended in whatever way.
DiagsState(n) == ok(px[n].diags # "running")

NodeQuestions == {"gone", "ready", "pxctl", "pxctlOK", "okDone", "daemon", "drives", "diagFile", "diagsState"}
NodeAnswer(c) ==
    LET q == Step(c).q
        n == Step(c).n
        r == px[n]
    IN CASE q = "gone" -> ok(~r.member)
         [] q \in {"ready", "pxctl"} -> ok(Up(n))
         [] q = "pxctlOK" -> ok(r.st = "OK")
         [] q = "okDone" -> IF r.st = "OK" THEN "done" ELSE "ok"
         [] q = "daemon" -> IF Up(n) THEN "ok" ELSE "error"
         [] q = "drives" -> IF Call(c).drives = 0 THEN "error" ELSE "ok"
         [] q = "diagFile" -> ok(r.diags = "done")
         [] q = "diagsState" -> DiagsState(n)

----------------------------------------------------------------------------
\* Inspections of a node

\* What the cluster says of an identifier.
StatusOf(n, id) ==
    CASE id \in px[n].old -> "OFFLINE"
      [] id \notin px[n].old /\ (id # px[n].id \/ ~px[n].member) -> "missing"
      [] OTHER -> IF px[n].leaving THEN "DECOMMISSION" ELSE px[n].st
Verdict(c, st) ==
    LET q == Step(c).q
        n == Step(c).n
    IN CASE q = "isMaint" -> ok(st = "MAINT")
         [] q \in {"isOK", "okVersion"} -> ok(st = "OK")
         [] q = "up" -> ok(st \in {"OK", "DECOMMISSION"})
         [] q = "maintOrOffline" -> ok(st \in {"MAINT", "OFFLINE"})
         [] q = "isOffline" -> IF st = "OFFLINE" THEN "ok" ELSE "error"
         [] q = "inspected" -> IF st = "missing" THEN "panic" ELSE "ok"
         [] q = "status" -> IF st = "missing" THEN "done" ELSE "ok"
         [] q = "known" -> "ok"
         [] q = "version" -> ok(st = "OK" /\ px[n].version = Call(c).v)

\* GetDriverNode updates the identifier of a node the cluster does not find, and inspects
\* again with the same client; the wait for the driver does so for a node without pools that
\* is offline, and is tried again.
updateNodeID(step, via) ==
    <<[step EXCEPT !.do = "getPxNodes", !.via = via], [step EXCEPT !.do = "updateNode"]>>
InspectNode(c) ==
    LET n == Step(c).n
        st == StatusOf(n, Local(c, "nodeIds")[n])
        saw == [th[c].lk EXCEPT !.st = st, !.client = Endpoint(c, Step(c).via)]
    IN /\ At(c, "inspect")
       /\ Through(c, Step(c).via,
            CASE st = "missing" /\ Step(c).via \in {"fresh", "client"} ->
                   Become(c, saw, updateNodeID(Step(c), "client") \o <<[Step(c) EXCEPT !.via = "client"]>>)
              [] st = "OFFLINE" /\ Step(c).q = "up" /\ px[n].storageless ->
                   Become(c, saw, updateNodeID(Step(c), "get") \o <<[do |-> "again"]>>)
              [] OTHER -> IF Verdict(c, st) = "ok" THEN ProceedWith(c, saw) ELSE Outcome(c, Verdict(c, st)),
            Failed(c))
       /\ UNCHANGED <<px, vols, lastId, k8s>>
TryAgain(c) == At(c, "again") /\ Retry(c) /\ UNCHANGED <<pxVars, faults>>

\* The list of the nodes with their identifiers and pools; a node that came back as another
\* one is there under both identifiers, and either may be met first.
GetPxNodes(c) ==
    LET there == {n \in Nodes : px[n].member}
        ids == {f \in [there -> 1..(MaxNodeId + 1)] : \A n \in there : f[n] \in {px[n].id} \cup px[n].old}
    IN /\ At(c, "getPxNodes")
       /\ Through(c, Step(c).via,
                  \E f \in ids : ProceedWith(c, [th[c].lk EXCEPT !.pxNodes = [n \in there |-> [id |-> f[n], pool |-> px[n].pool]]]),
                  Failed(c))
       /\ UNCHANGED <<px, vols, lastId, k8s>>

\* One node of the registry is brought up to date with that list.  A node where the driver
\* is disabled is passed over, and so is one if the namespace cannot be read; a node that is
\* not in the list is an error.
updateNode(c, n, steps) ==
    LET list == Local(c, "pxNodes")
        found == [th[c].lk EXCEPT !.nodeIds[n] = list[n].id]
    IN /\ \/ /\ px[n].label = "false" /\ Become(c, th[c].lk, steps) /\ UNCHANGED <<drv, faults>>
          \/ /\ px[n].label # "false" /\ n \in DOMAIN list /\ Become(c, found, steps) /\ UNCHANGED faults
             /\ drv' = [drv EXCEPT !.nodes = @ \cup {n}, !.ids[n] = list[n].id,
                                   !.pools[n] = IF px[n].storageless THEN @ ELSE list[n].pool]
          \/ px[n].label # "false" /\ n \notin DOMAIN list /\ Failed(c) /\ UNCHANGED <<drv, faults>>
          \/ Fault /\ (Failed(c) \/ Become(c, th[c].lk, steps)) /\ UNCHANGED drv
       /\ UNCHANGED <<px, vols, lastId, k8s>>
UpdateNode(c) == At(c, "updateNode") /\ updateNode(c, Step(c).n, <<>>)

\* Questions whose answer depends on nothing that is modelled.
OpenQuestions ==
    [triggered |-> {"ok", "retry"}, rebalanced |-> {"ok", "retry"}, clusterOK |-> {"ok", "retry"},
     journal |-> {"ok", "retry"}, defragged |-> {"ok", "error"}, restored |-> {"ok", "error"}]
\* The sizes are those of the registry.  Pools that are larger than expected end the validation
\* without an error.
PoolSizes ==
    IF \E n \in Nodes : drv.pools[n] > Scene.expected[n] THEN "ok"
    ELSE ok(\A n \in Nodes : drv.pools[n] = Scene.expected[n])
ClusterAnswer(c) == IF Step(c).q = "poolSizes" THEN PoolSizes ELSE "ok"

----------------------------------------------------------------------------
\* Steps of the driver itself

\* Every address of the node is tried as an endpoint until none answers: the driver
\* follows the node that is going down.
TryNodeDown(c) ==
    /\ At(c, "down")
    /\ \/ /\ drv' = testAndSetEndpoint(drv, Step(c).n, "none") /\ UNCHANGED faults
          /\ IF Answers(Step(c).n) THEN Retry(c) ELSE Proceed(c)
       \/ Fault /\ Retry(c) /\ \E how \in {"port", "legacy"} : drv' = testAndSetEndpoint(drv, Step(c).n, how)
    /\ UNCHANGED <<px, vols, lastId, k8s>>
SetDriver(c) ==
    /\ At(c, "setDriver")
    /\ \/ drv' \in setDriver(drv, NoFault) /\ UNCHANGED faults
          /\ IF \E n \in Nodes : Works(n, NoFault) THEN Proceed(c) ELSE Error(c)
       \/ Fault /\ \E f \in EndpointFaults :
             drv' \in setDriver(drv, f) /\ IF \E n \in Nodes : Works(n, f) THEN Proceed(c) ELSE Error(c)
    /\ UNCHANGED <<px, vols, lastId, k8s>>
SetRefresh(c) ==
    /\ At(c, "refresh") /\ drv' = [drv EXCEPT !.refresh = Step(c).value] /\ Proceed(c)
    /\ UNCHANGED <<px, vols, lastId, k8s, faults>>
\* The nodes of the registry in any order, until one is an error.
UpdateNodes(c) ==
    /\ At(c, "updateNodes")
    /\ \E n \in Step(c).left :
          updateNode(c, n, LET left == Step(c).left \ {n}
                           IN IF left = {} THEN <<>> ELSE <<[Step(c) EXCEPT !.left = left]>>)
\* The driver nodes as the registry now has them.
DriverNodes(c) ==
    /\ At(c, "driverNodes")
    /\ Become(c, [th[c].lk EXCEPT !.nodeIds = drv.ids],
              OnAll(SelectSeq(Workers, LAMBDA n : n \in drv.nodes), WaitDriverUpOnNode))
    /\ UNCHANGED <<pxVars, faults>>
\* The first other node of the registry that has the driver, if there is one.
ChooseCmdNode(c) ==
    LET others == drv.nodes \ {Call(c).n}
    IN /\ At(c, "cmdNode")
       /\ \E m \in IF others = {} THEN {"none"} ELSE others : ProceedWith(c, [th[c].lk EXCEPT !.cmdNode = m])
       /\ UNCHANGED <<pxVars, faults>>
UpdateRegistry(c) ==
    /\ At(c, "registry") /\ drv' = [drv EXCEPT !.nodes = @ \ {Step(c).n}] /\ Proceed(c)
    /\ UNCHANGED <<px, vols, lastId, k8s, faults>>
Sleeping(c) ==
    /\ At(c, "sleep") /\ (px[Step(c).n].member => px[Step(c).n].st = Target(Step(c).n)) /\ Proceed(c)
    /\ UNCHANGED <<pxVars, faults>>
AskStatus(c) ==
    /\ At(c, "status")
    /\ Become(c, th[c].lk, IF Local(c, "st") = "DECOMMISSION" THEN <<>>
                           ELSE PxctlStatus(Step(c).n) \o <<AskOf("pxctlOK", Step(c).n, "node")>>)
    /\ UNCHANGED <<pxVars, faults>>
ExitFromMaintenance(c) ==
    /\ At(c, "exit")
    /\ Become(c, th[c].lk, IF Local(c, "st") = "MAINT" THEN ExitMaintenance(Step(c).n) ELSE <<>>)
    /\ UNCHANGED <<pxVars, faults>>

NodeStep(c) ==
    \/ TryNodeDown(c) \/ SetDriver(c) \/ SetRefresh(c) \/ InspectNode(c) \/ TryAgain(c) \/ GetPxNodes(c)
    \/ UpdateNode(c) \/ UpdateNodes(c) \/ DriverNodes(c) \/ ChooseCmdNode(c) \/ UpdateRegistry(c)
    \/ Sleeping(c) \/ AskStatus(c) \/ ExitFromMaintenance(c)
=============================================================================
