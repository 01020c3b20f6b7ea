------------------------------- MODULE Cloud -------------------------------
(***************************************************************************)
(* The platform drivers and the node drivers at work: a test case calls one  *)
(* function after the other, some of which start goroutines, on a cluster     *)
(* that carries out what it accepted in its own time.                         *)
(***************************************************************************)
EXTENDS NodeDrivers

vars == <<scene, th, faults, cloudVars>>

----------------------------------------------------------------------------
\* The function a call names

Scaling(k) ==
    CASE k.op = "SetASGClusterSize_eks" -> SetASGClusterSize_eks(k)
      [] k.op = "SetASGClusterSize_aks" -> SetASGClusterSize_aks(k)
      [] k.op = "SetASGClusterSize_gke" -> SetASGClusterSize_gke(k)
      [] k.op = "SetASGClusterSize_iks" -> SetASGClusterSize_iks(k)
      [] k.op = "SetASGClusterSize_oke" -> SetASGClusterSize_oke(k)
      [] k.op = "SetASGClusterSize_ocp" -> SetASGClusterSize_ocp(k)
      [] k.op = "SetASGClusterSize_oracle" -> SetASGClusterSize_oracle(k)
      [] k.op = "GetASGClusterSize_eks" -> GetASGClusterSize_eks(k)
      [] k.op = "GetASGClusterSize_aks" -> GetASGClusterSize_aks(k)
      [] k.op = "GetASGClusterSize_gke" -> GetASGClusterSize_gke(k)
      [] k.op = "GetASGClusterSize_iks" -> GetASGClusterSize_iks(k)
      [] k.op = "GetASGClusterSize_oke" -> GetASGClusterSize_oke(k)
      [] k.op = "GetASGClusterSize_ocp" -> GetASGClusterSize_ocp(k)
      [] k.op = "GetASGClusterSize_oracle" -> GetASGClusterSize_oracle(k)
      [] k.op = "GetZones_eks" -> GetZones_eks(k)
      [] k.op = "GetZones_aks" -> GetZones_aks(k)
      [] k.op = "GetZones_iks" -> GetZones_iks(k)
      [] k.op = "GetZones_oke" -> GetZones_oke(k)
      [] k.op = "Init_aks" -> Init_aks(k)
      [] k.op = "Init_gke" -> Init_gke(k)
      [] k.op = "Init_iks" -> Init_iks(k)
      [] k.op = "Init_oke" -> Init_oke(k)
      [] k.op = "Init_anthos" -> Init_anthos(k)
      [] k.op = "Init_vsphere" -> Init_vsphere(k)
      [] k.op = "Init_aws" -> Init_aws(k)
      [] k.op = "AddWorkerPool" -> AddWorkerPool(k)
Commands(k) ==
    CASE k.op = "StopKubelet" -> StopKubelet(k)
      [] k.op = "StartKubelet" -> StartKubelet(k)
      [] k.op = "updateDriver" -> updateDriver
      [] k.op = "TestConnection" -> TestConnection(k.m)
      [] k.op = "TestConnection_vsphere" -> TestConnection_vsphere(k)
      [] k.op = "TestConnection_aws" -> TestConnection_aws(k.m)
      [] k.op = "RebootNodeAndWait" -> RebootNodeAndWait(k.m)
      [] k.op = "RebootNode_vsphere" -> RebootNode_vsphere(k)
      [] k.op = "RebootNode_aws" -> RebootNode_aws(k)
      [] k.op = "CrashNode" -> CrashNode(k)
      [] k.op = "ShutdownNode" -> ShutdownNode(k)
      [] k.op = "ShutdownNode_vsphere" -> ShutdownNode_vsphere(k)
      [] k.op = "ShutdownNode_aws" -> ShutdownNode_aws(k)
      [] k.op = "InjectNetworkErrorWithRebootFallback" -> InjectNetworkErrorWithRebootFallback(k)
      [] k.op = "YankDrive" -> YankDrive(k)
      [] k.op = "RecoverDrive" -> RecoverDrive(k)
      [] k.op = "RunCommand" -> RunCommand(k.m, k.cmd)
      [] k.op = "RunCommandWithNoRetry" -> RunCommandWithNoRetry(k)
      [] k.op = "SystemCheck" -> SystemCheck(k)
      [] k.op = "GetBlockDrives" -> GetBlockDrives(k)
      [] k.op = "IsNodeRebootedInGivenTimeRange" -> IsNodeRebootedInGivenTimeRange(k)
      [] k.op = "GetDeviceMapperCount" -> GetDeviceMapperCount(k)
      [] k.op = "Schedule_ocp" -> Schedule_ocp(k)
      [] k.op = "StopSchedOnNode" -> StopSchedOnNode(k)
      [] k.op = "StartSchedOnNode" -> StartSchedOnNode(k)
      [] k.op = "SaveSchedulerLogsToFile" -> SaveSchedulerLogsToFile(k)
      [] k.op = "PowerOnVM" -> PowerOnVM(k)
      [] k.op = "PowerOffVM" -> PowerOffVM(k.m)
      [] k.op = "DetachDrivesFromVM" -> DetachDrivesFromVM(k)
      [] k.op = "MoveDisks" -> MoveDisks(k)
      [] k.op = "RemoveNonRootDisks" -> RemoveNonRootDisks(k)
      [] k.op = "FindVMByIP" -> FindVMByIP(k.m)
      [] k.op = "GetNodeState" -> GetNodeState(k)
      [] k.op = "GetCluster" -> GetCluster(k)
      [] k.op = "RebalanceWorkerPool" -> RebalanceWorkerPool(k)
      [] OTHER -> Scaling(k)
Program(k) ==
    CASE k.op = "UpgradeScheduler_eks" -> UpgradeScheduler_eks(k)
      [] k.op = "UpgradeScheduler_aks" -> UpgradeScheduler_aks(k)
      [] k.op = "UpgradeScheduler_gke" -> UpgradeScheduler_gke(k)
      [] k.op = "UpgradeScheduler_iks" -> UpgradeScheduler_iks(k)
      [] k.op = "UpgradeScheduler_oke" -> UpgradeScheduler_oke(k)
      [] k.op = "UpgradeScheduler_ocp" -> UpgradeScheduler_ocp(k)
      [] k.op = "UpgradeScheduler_anthos" -> UpgradeScheduler_anthos(k)
      [] k.op = "SetClusterVersion" -> SetClusterVersion(k)
      [] k.op = "SetClusterVersion_oracle" -> SetClusterVersion_oracle(k)
      [] k.op = "ReplaceWorkers" -> ReplaceWorkers(k)
      [] k.op = "deleteAMachine" -> deleteAMachine(k)
      [] k.op = "DestroyVM" -> DestroyVM(k)
      [] k.op = "DeleteNode_eks" -> DeleteNode_eks(k)
      [] k.op = "DeleteNode_aks" -> DeleteNode_aks(k)
      [] k.op = "DeleteNode_gke" -> DeleteNode_gke(k)
      [] k.op = "DeleteNode_iks" -> DeleteNode_iks(k)
      [] k.op = "DeleteNode_oke" -> DeleteNode_oke(k)
      [] k.op = "DeleteNode_ocp" -> DeleteNode_ocp(k)
      [] k.op = "DeleteNode_anthos" -> DeleteNode_anthos(k)
      [] k.op = "DeleteNode_ibm" -> DeleteNode_ibm(k)
      [] k.op = "DeleteNode_aws" -> DeleteNode_aws(k)
      [] k.op = "DeleteNode_oracle" -> DeleteNode_oracle(k)
      [] k.op = "RemoveWorkerNode" -> RemoveWorkerNode(k)
      [] k.op = "ReplaceWorkerNodeWithUpdate" -> ReplaceWorkerNodeWithUpdate(k)
      [] OTHER -> Commands(k)

----------------------------------------------------------------------------
\* What a look finds

Yes(p) == IF p THEN "ok" ELSE "retry"
Must(p) == IF p THEN "ok" ELSE "error"
\* A failed change ends the wait, a running one goes on with it.
Settled(r, p) == CASE res[r].st = "failed" -> "error" [] Busy(r) -> "retry" [] OTHER -> Yes(p)
\* At the version, with nothing going on.
AtVersion(r, v) == res[r].v = v /\ res[r].st = "ready"

ClusterAnswer(s) ==
    CASE s.q = "version" -> Yes(AtVersion(s.on, s.val))
      [] s.q = "active" -> Yes(res[s.on].st = "ready")
      [] s.q = "surge" -> Settled(Pool, res[Pool].surge = s.val)
      [] s.q = "scaled" -> Settled(Pool, Cardinality(Live) = s.val)
      [] s.q = "settled" -> Settled(s.on, TRUE)
      [] s.q = "capacity" -> Yes(res[Pool].size = s.val)
      [] s.q = "upgraded" -> Yes(\A m \in Live : ms[m].v = s.val /\ Ready(m))
      [] s.q = "count" -> Yes(Cardinality(Live) = s.val)
      [] s.q = "cluster" -> Must(misc.cluster)
      [] s.q = "listed" -> Must(Scene.listed)
      [] s.q = "endpoints" -> Yes(\A m \in reg : ms[m].st # "gone" /\ ms[m].drv # "none")
      [] s.q = "mcp" -> Yes(misc.mcp = s.val)
      [] s.q = "desired" -> Yes(res[Cp].v = s.val \/ (res[Cp].job.val = s.val /\ res[Cp].st = "busy"))
      [] s.q = "progressed" -> Yes(res[Cp].st = "ready")
      [] s.q = "sameVersion" -> Yes(\A m \in Live : ms[m].v = res[Cp].v /\ Ready(m))
      [] s.q = "wsUp" -> "ok"
      [] s.q = "clusterState" -> Yes(res[Cp].st # "busy")
      [] s.q = "rolled" -> IF res[Cp].st = "failed" THEN "no" ELSE Yes(AtVersion(Cp, s.val) /\ \A m \in Live : ms[m].v = s.val)
MachineAnswer(c) ==
    LET s == Step(c)
        m == On(c)
        old == Local(c, "nodes")
    IN CASE s.q = "exists" -> Must(ms[m].st # "gone" /\ ms[m].vm # "none")
         [] s.q = "serving" -> Must(ms[m].st = "running")
         [] s.q = "success" -> Yes(ms[m].cmd = "Success")
         [] s.q = "gone" -> Yes(ms[m].st = "gone")
         [] s.q = "podsUp" -> Yes(ms[m].drv # "none")
         [] s.q = "driverUp" -> Yes(ms[m].drv = "up")
         [] s.q = "ready" -> Yes(Up(m))
         [] s.q = "idMoved" -> Yes(\E x \in Live : ms[x].id = ms[m].id)
         [] s.q = "poweredOn" -> Yes(ms[m].vm = "on")
         [] s.q = "usableAddr" -> IF misc.sshInit THEN Yes(Up(m)) ELSE "crash"
         [] s.q = "debugPod" -> Yes(ms[m].st = "running")
         [] s.q = "observed" -> Yes(misc.seen # Local(c, "gen"))
         [] s.q = "grown" -> Yes(Cardinality(Live) > Cardinality(old))
         [] s.q = "workersReady" ->
               CASE \E x \in old : ms[x].st = "gone" -> "error" [] OTHER -> Yes(\A x \in old : ms[x].st = "running")
         [] OTHER -> ClusterAnswer(s)
\* In the memory of the test program.
Recall(c) ==
    LET s == Step(c)
        m == On(c)
    IN CASE s.q = "noErrors" -> Must(misc.errs = 0)
         [] s.q = "groupNil" -> Must(\A i \in DOMAIN Kids : th[Kids[i]].res # "error")
         [] s.q = "worker" -> Must(m \in reg)
         [] s.q = "mapped" -> Must(m \in misc.vmMap)
         [] s.q = "instance" -> Must(m \in misc.inst)
         [] s.q = "dialled" -> Must(misc.env)
         [] s.q = "output" -> Yes(Local(c, "out"))
         [] s.q = "firstField" -> IF Local(c, "out") THEN "ok" ELSE "panic"
         [] s.q = "hop" -> Must(s.val > misc.known /\ s.val - misc.known <= 1)
         [] s.q = "fastEnough" -> Must(~Scene.slow)

----------------------------------------------------------------------------
\* What a function does next, by what it sees when it gets there

Sorted(S) == SetToSortSeq(S, <)
ForEach(S, steps(_)) == LET q == Sorted(S) IN FlattenSeq([i \in DOMAIN q |-> steps(q[i])])
UpOn(m) == WaitForPxPodsToBeUp(m) \o WaitDriverUpOnNode(m)
Zone(z) == <<Req("addZone", z, 0)>>
AdmUpgrade(c, v) ==
    LET go == <<Update(Cp, "v", v)>>
        as(mode, steps) == Become(c, [th[c].lk EXCEPT !.mode = mode], steps)
    IN CASE Local(c, "mode") # "to" \/ Scene.avail = "recommended" -> as(Local(c, "mode"), go)
         [] Scene.avail = "notRecommended" -> as("notRecommended", go)
         [] Scene.avail = "explicit" -> as("force", getImageSha \o go)
         [] OTHER -> as("to", <<Again>>)
Newest(c) ==
    LET x == Max(Live)
        lk == th[c].lk
    IN CASE Live = {} -> Become(c, lk, <<Again>>)
         [] ms[x].st = "running" -> Become(c, [lk EXCEPT !.new = x], <<>>)
         [] ms[x].st = "provisioned" /\ Scene.vsphere /\ ~lk.tried ->
               Become(c, [lk EXCEPT !.tried = TRUE], AddMachine(x) \o PowerOnVMByName(x) \o <<Again>>)
         [] OTHER -> Become(c, lk, <<Again>>)
Following(c) ==
    LET s == Step(c) IN
    CASE s.what = "configured eks" -> IF misc.conf THEN <<>> ELSE configureEKSClientSteps
      [] s.what = "configured oke" -> IF misc.conf THEN <<>> ELSE configureUserSteps
      [] s.what = "knownGroup" -> IF misc.conf THEN <<>> ELSE GetAKSCluster
      [] s.what = "eachNode" ->
            LET replace(m) == ReplaceNode([Call(c) EXCEPT !.m = m]) IN ForEach(Local(c, "nodes"), replace)
      [] s.what = "allUp" -> ForEach(reg, UpOn)
      [] s.what = "zones" -> ForEach({ms[m].zone : m \in Live}, Zone)
      [] s.what = "transport" -> doCmdSteps(s.on, s.options)
      [] s.what = "debugDaemonSet" -> IF misc.ds THEN <<Net>> ELSE createDockerRegistrySecret \o <<Setting("ds", TRUE)>>
      [] s.what = "initTransport" -> IF misc.env THEN initSSH ELSE initExecPod
      [] s.what = "testAll" -> ForEach({m \in reg : ms[m].drv # "none"}, TestConnection)
      [] s.what = "testAllInstances" -> ForEach(reg, TestConnection_aws)
      [] s.what = "reconnect" -> IF s.on \in misc.vmMap THEN <<>> ELSE connect_vsphere \o Mapped(s.on)
      [] s.what = "addIfMissing" -> IF s.on \in misc.vmMap THEN <<>> ELSE AddMachine(s.on)
      [] s.what = "monitoring" -> IF misc.mon THEN <<>> ELSE <<Setting("mon", TRUE)>>
      [] s.what = "channel" -> IF misc.channel = s.val THEN <<>> ELSE setChannel(s.val)
      [] s.what = "constraints" -> IF misc.scc THEN <<>> ELSE createTorpedoSecurityContextConstraints
Chooses(c) ==
    /\ At(c, "branch")
    /\ CASE Step(c).what = "adm upgrade" -> AdmUpgrade(c, Step(c).val)
         [] Step(c).what = "newest" -> Newest(c)
         [] OTHER -> Become(c, th[c].lk, Following(c))
    /\ UNCHANGED <<cloudVars, faults>>

----------------------------------------------------------------------------
\* The steps

Looks(c) == At(c, "ask") /\ Question(c, MachineAnswer(c))
Recalls(c) == At(c, "check") /\ Verdict(c, Recall(c)) /\ UNCHANGED <<cloudVars, faults>>
Remembers(c) == At(c, "here") /\ Served(c) /\ Proceed(c) /\ UNCHANGED faults
Waits(c) ==
    /\ At(c, "until") /\ MachineAnswer(c) # "retry"
    /\ Verdict(c, MachineAnswer(c)) /\ UNCHANGED <<cloudVars, faults>>
Notes(c) ==
    LET lk == th[c].lk IN
    /\ \/ At(c, "list") /\ ProceedWith(c, [lk EXCEPT !.nodes = Live])
       \/ At(c, "generation") /\ ProceedWith(c, [lk EXCEPT !.gen = misc.seen])
       \/ At(c, "untried") /\ ProceedWith(c, [lk EXCEPT !.tried = FALSE])
       \/ At(c, "again") /\ Retry(c)
    /\ UNCHANGED <<cloudVars, faults>>
\* What err holds by now is what the goroutine takes for the result of its own call.
CountsError(c) ==
    /\ At(c, "err") /\ Proceed(c) /\ UNCHANGED faults
    /\ IF misc.err THEN OnMisc("errs", misc.errs + 1) ELSE UNCHANGED cloudVars
StopsCollector(c) ==
    /\ At(c, "stop") /\ misc.coll = "waiting"
    /\ OnMisc("coll", "stopped") /\ Proceed(c) /\ UNCHANGED faults

KidScript(c, i) ==
    LET k == Call(c)
        there == {m \in Live : ms[m].zone = i}
    IN CASE Step(c).what = "locations" ->
               IF there = {} THEN <<>> ELSE <<[k EXCEPT !.op = "ReplaceWorkers", !.ms = Sorted(there)]>>
         [] i = 1 -> <<[k EXCEPT !.op = "deleteAMachine"]>>
         [] k.storage /\ Scene.vsphere -> <<[k EXCEPT !.op = "DestroyVM"]>>
         [] OTHER -> <<>>
Spawns(c) ==
    /\ At(c, "spawn")
    /\ th' = [d \in Callers |->
                 IF d = c THEN [th[c] EXCEPT !.todo = Tail(@)]
                 ELSE [Idle EXCEPT !.script = KidScript(c, CHOOSE i \in DOMAIN Kids : Kids[i] = d)]]
    /\ misc' = [misc EXCEPT !.err = FALSE, !.errs = 0] /\ UNCHANGED <<res, ms, reg, faults>>
Joins(c) ==
    /\ At(c, "join") /\ \A i \in DOMAIN Kids : th[Kids[i]].script = <<>>
    /\ Proceed(c) /\ UNCHANGED <<cloudVars, faults>>

Locals == [nodes |-> reg, new |-> 0, tried |-> FALSE, gen |-> 0, mode |-> "to", out |-> TRUE, born |-> ms]
Start(c) == th[c].script # <<>> /\ Begin(c, Program(Call(c)), Locals) /\ UNCHANGED <<cloudVars, faults>>
Control(c) == (Enter(c) \/ Leave(c)) /\ UNCHANGED <<cloudVars, faults>>
CallerStep(c) ==
    /\ \/ Start(c) \/ Control(c) \/ Request(c) \/ Looks(c) \/ Recalls(c) \/ Remembers(c) \/ Waits(c) \/ Notes(c)
       \/ Chooses(c) \/ CountsError(c) \/ StopsCollector(c) \/ Spawns(c) \/ Joins(c)
    /\ UNCHANGED scene

Init ==
    /\ scene \in DOMAIN Scenes /\ faults = 0
    /\ th = [c \in Callers |-> [Idle EXCEPT !.script = IF c = Main THEN Scene.script ELSE <<>>]]
    /\ res = [r \in {Cp, Pool} |-> [v |-> 1, size |-> Len(Scene.ms), surge |-> 0, st |-> "ready", job |-> NoJob]]
    /\ ms = Scene.ms /\ reg = DOMAIN Scene.ms
    /\ misc = [channel |-> 1, gen |-> 1, seen |-> 1, ack |-> 0, mcp |-> 0, prom |-> FALSE, mon |-> Scene.mon, env |-> Scene.env,
               sshInit |-> Scene.env, ws |-> 1, coll |-> "none", ticks |-> 0, err |-> FALSE, errs |-> 0, dir |-> FALSE, conf |-> FALSE,
               cluster |-> FALSE, known |-> 1, scc |-> FALSE, vmMap |-> {}, inst |-> DOMAIN Scene.ms, perZone |-> 0,
               secret |-> Scene.mon, ds |-> FALSE]
Next == (\E c \in Callers : CallerStep(c)) \/ Proceeding \/ Disturbing
Fairness == WF_vars(Proceeding) /\ \A c \in Callers : WF_vars(CallerStep(c))
Spec == Init /\ [][Next]_vars /\ Fairness

----------------------------------------------------------------------------
\* Properties

TypeOK ==
    /\ CallsTyped
    /\ \A r \in {Cp, Pool} : res[r].st \in {"ready", "busy", "failed"} /\ (res[r].st = "busy" => Busy(r))
    /\ reg \subseteq DOMAIN ms /\ misc.vmMap \subseteq DOMAIN ms /\ misc.inst \subseteq DOMAIN ms
    /\ \A m \in DOMAIN ms : ms[m].st \in {"creating", "provisioned", "running", "leaving", "gone"}
    /\ misc.seen <= misc.gen /\ misc.coll \in {"none", "waiting", "dumping", "stopped"}

Arg(field) == Call(Main)[field]
Running(ops) == th[Main].todo # <<>> /\ Arg("op") \in ops
Nil(ops) == Running(ops) /\ Ends(Main, "nil")
Born == Local(Main, "born")

Upgrades == {"UpgradeScheduler_eks", "UpgradeScheduler_aks", "UpgradeScheduler_gke", "UpgradeScheduler_iks",
             "UpgradeScheduler_oke", "UpgradeScheduler_ocp", "UpgradeScheduler_anthos"}
\* An UpgradeScheduler that returns nil has upgraded: the control plane and every machine there
\* is run the version asked for, whatever failed, broke or was replaced on the way.
UpgradedMeansUpgraded ==
    Nil(Upgrades) => res[Cp].v = Arg("v") /\ \A m \in Live : ms[m].v = Arg("v")

\* No worker ever runs a later version than its control plane: every platform upgrades the
\* control plane, waits for it, and only then the workers.
WorkersNeverAhead == \A m \in Live : ms[m].v <= res[Cp].v

\* OpenShift accepts the upgrade only when everything startUpgrade needs is in place: the
\* channel patched and the patch observed, the removed APIs acknowledged, the surge set and
\* the monitoring configured.
PrerequisitesFirst ==
    Running({"UpgradeScheduler_ocp"}) /\ ~Busy(Cp) /\ res'[Cp].job.field = "v" =>
      /\ misc.channel = Arg("v") /\ misc.seen = misc.gen
      /\ Arg("ack") => misc.ack = Arg("v")
      /\ Arg("surge") # 0 => misc.mcp = Arg("surge")
      /\ Arg("prereq") => misc.mon /\ misc.prom

\* The OKE upgrade terminates an instance only while the driver is up on every other node of
\* the registry: one node is down at a time.
OthersServe ==
    \A m \in DOMAIN ms : Running({"UpgradeScheduler_oke"}) /\ ms[m].st = "running" /\ ms'[m].st = "leaving"
      => \A x \in reg \ {m} : ms[x].drv = "up"

\* A node that OpenShift recycled without an error is gone and not registered any more, the
\* machine that was taken for its replacement is registered and its driver up, and the identity
\* of a storage node is held by a machine that is there.
Recycled ==
    Nil({"DeleteNode_ocp"}) =>
      LET old == Arg("m")
          new == Local(Main, "new")
      IN /\ ms[old].st = "gone" /\ old \notin reg
         /\ new \in reg /\ ms[new].drv = "up"
         /\ Arg("storage") => \E x \in Live : ms[x].id = Born[old].id

\* An Anthos function that returns nil has taken the SSH key out of the environment again, so
\* that later commands go through the debug pod, and its log collector has ended.
EnvironmentRestored ==
    Nil({"UpgradeScheduler_anthos", "DeleteNode_anthos", "Init_anthos"})
      => ~misc'.env /\ misc'.coll \in {"none", "stopped"}

\* MoveDisks without an error: the source has no data disk left and the target has them all.
DisksMoved ==
    Nil({"MoveDisks"}) =>
      /\ ms'[Arg("m")].disks = {}
      /\ ms'[Arg("to")].disks = Born[Arg("m")].disks \cup Born[Arg("to")].disks

\* A disk is never attached to two machines, also not while MoveDisks moves it.
NoSharedDisk == \A m, n \in DOMAIN ms : m # n => ms[m].disks \cap ms[n].disks = {}

\* RebootNodeAndWait without an error, when no command was lost (the error of the reboot command
\* is ignored): the node did restart since, and it is up.
RebootedMeansRebooted ==
    Nil({"RebootNodeAndWait"}) /\ faults' = 0 => ms[Arg("m")].boots > Born[Arg("m")].boots /\ Ready(Arg("m"))

\* Removing the network error, with the reboot as the fallback, leaves no node of the list with
\* it if it returns nil and no command was lost.
NetworkRestored ==
    Nil({"InjectNetworkErrorWithRebootFallback"}) /\ Arg("cmd") = "tc del" /\ faults' = 0
      => \A i \in DOMAIN Arg("ms") : ~ms'[Arg("ms")[i]].net

\* A pool that was scaled without an error has exactly the machines asked for, all of them running.
ScaledMeansSized ==
    Nil({"SetASGClusterSize_aks", "SetASGClusterSize_gke", "SetASGClusterSize_oke", "SetASGClusterSize_oracle"})
      => Cardinality(Live) = Arg("size") /\ Live = Serving

\* StopKubelet and StartKubelet return nil only after the command has taken effect.
KubeletAsAsked ==
    /\ Nil({"StopKubelet"}) => ~ms[Arg("m")].kubelet
    /\ Nil({"StartKubelet"}) => ms[Arg("m")].kubelet

\* RunCommandWithNoRetry leaves no admin context on the node, also when the command failed, unless
\* so many requests are lost that the deletion itself runs out of tries.
NoContextLeft ==
    Running({"RunCommandWithNoRetry"}) /\ faults' < MaxTries /\ (Ends(Main, "nil") \/ Ends(Main, "error"))
      => ~ms'[Arg("m")].ctx


\* What the node drivers promise about machines: their disks, reboots, network, kubelet and
\* pxctl contexts are as success reports them, and a disk has one machine at any moment.
MachinesSound ==
    [][/\ NoSharedDisk' /\ DisksMoved /\ RebootedMeansRebooted /\ NetworkRestored
       /\ KubeletAsAsked /\ NoContextLeft]_vars

\* Every call returns: no wait is without a deadline except for what the platform does by itself.
CallsReturn == th[Main].todo # <<>> ~> th[Main].todo = <<>>
=============================================================================
