------------------------------ MODULE PxDriver ------------------------------
(***************************************************************************)
(* The Portworx volume driver: threads of the test program call it while the *)
(* cluster and Kubernetes go their own way, nodes crash, and requests fail   *)
(* or lose their answers.                                                    *)
(***************************************************************************)
EXTENDS PxServices

vars == <<scene, th, faults, pxVars>>

\* What a call saw when it began (history).
Snapshot(k) ==
    [ids |-> {v.id : v \in Named(k.name)}, entered |-> px[k.n].entered, pool |-> Max({px[k.n].pool, px[k.n].grow}),
     maint |-> px[k.n].maint \/ px[k.n].st = "MAINT", context |-> \E n \in Nodes : px[n].context,
     configmap |-> k8s.configmap, faults |-> faults, run |-> {n \in Nodes : px[n].run}]
Locals(k) ==
    [id |-> 0, ids |-> <<>>, seen |-> FreshVolume, devs |-> {}, found |-> FALSE, count |-> 0, listed |-> 0,
     nodeIds |-> drv.ids, st |-> "none", client |-> Service, pxNodes |-> <<>>, cmdNode |-> "none",
     born |-> Snapshot(k)]

Init ==
    /\ scene \in DOMAIN Scenes /\ faults = 0
    /\ th = [c \in Callers |-> [Idle EXCEPT !.script = Scene.script[c]]]
    /\ px = Scene.px /\ vols = Scene.vols
    /\ lastId = Cardinality(vols)
    /\ drv = Scene.drv /\ k8s = Scene.k8s

Refused(c) ==
    CASE Step(c).verb \in VolumeVerbs -> VolumeRefused(c)
      [] Step(c).verb \in NodeVerbs -> NodeRefused(c)
      [] OTHER -> ServiceRefused(c)
Served(c) ==
    CASE Step(c).verb \in VolumeVerbs -> VolumeServed(c)
      [] Step(c).verb \in NodeVerbs -> NodeServed(c)
      [] OTHER -> ServiceServed(c)
Answer(c) ==
    CASE Step(c).q \in VolumeQuestions -> VolumeAnswer(c)
      [] Step(c).q \in NodeQuestions -> NodeAnswer(c)
      [] Step(c).q \in ServiceQuestions -> ServiceAnswer(c)
      [] OTHER -> ClusterAnswer(c)

Start(c) == Begin(c, ServiceProgram(Call(c)), Locals(Call(c))) /\ UNCHANGED <<pxVars, faults>>
Request(c) == At(c, "sdk") /\ SdkRequest(c, Refused(c), Served(c))
Execute(c) == At(c, "cmd") /\ Command(c, Refused(c), Served(c) /\ UNCHANGED drv)
Inquire(c) ==
    /\ At(c, "ask")
    /\ \E answer \in IF Step(c).q \in DOMAIN OpenQuestions THEN OpenQuestions[Step(c).q] ELSE {Answer(c)} :
          IF Step(c).via = "node" THEN Question(c, answer) ELSE SdkQuestion(c, answer)
Control(c) == (Enter(c) \/ Leave(c)) /\ UNCHANGED <<pxVars, faults>>

CallerStep(c) ==
    /\ \/ Start(c) \/ Request(c) \/ Execute(c) \/ Inquire(c) \/ Control(c)
       \/ VolumeStep(c) \/ NodeStep(c) \/ ServiceStep(c)
    /\ UNCHANGED scene
Proceeding == ClusterProceeds \/ \E p \in k8s.pods : PodProceeds(p)
Disturbing == Crash \/ (Scene.crashes /\ \E p \in k8s.pods : PodMoves(p))

Next == (\E c \in Callers : CallerStep(c)) \/ Proceeding \/ Disturbing

\* The Go scheduler runs every thread, and the cluster settles.
Fairness == WF_vars(Proceeding) /\ \A c \in Callers : WF_vars(CallerStep(c))
Spec == Init /\ [][Next]_vars /\ Fairness

----------------------------------------------------------------------------
\* Properties

\* The state of the driver is one the code can hold: identifiers of volumes are unique and
\* given out in order, a replica set is never empty, the endpoint is the service or a worker.
TypeOK ==
    /\ CallsTyped
    /\ drv.ep \in Nodes \cup {Service} /\ drv.cluster \in Nodes \cup {Service}
    /\ drv.refresh \in BOOLEAN /\ drv.nodes \subseteq Nodes /\ \A n \in Nodes : drv.ids[n] \in 1..px[n].id
    /\ \A v \in vols : v.id \in 1..lastId /\ v.reps >= 1 /\ \A w \in vols : v.id = w.id => v = w
    /\ \A n \in Nodes : px[n].st \in {"OK", "OFFLINE", "MAINT", "POOLMAINT"} /\ px[n].pool >= 0
    /\ k8s.talisman \subseteq Talisman

Acts(c) == th'[c] # th[c]
Alone(c) == \A d \in Callers \ {c} : Scene.script[d] = <<>>
Nil(c, op) == th[c].script # <<>> /\ Call(c).op = op /\ Ends(c, "nil")
Born(c) == Local(c, "born")

\* Whatever happens between the lookup of a volume and the request that carries its
\* identifier, a call changes or removes only the volume it was given (CleanupVolume goes
\* through all volumes; ResizeVolume, CloneVolume, DeleteVolume look an identifier up).
ActsOnNamedVolume ==
    \A c \in Callers : Acts(c) /\ th[c].todo # <<>> =>
       \A v \in vols : v.name # Call(c).name => v \in vols'

\* SetReplicationFactor that is told to wait returns without an error only when the
\* replicas of the volume are what was asked for, even if answers were lost on the way.
ReplicationAwaited ==
    \A c \in Callers : Nil(c, "SetReplicationFactor") /\ Call(c).wait /\ Alone(c) =>
       \E v \in Named(Call(c).name) : v.reps = Call(c).v

\* CleanupVolume that succeeds has removed the volume that had the name when it began, and
\* ValidateDeleteVolume returns only when the volume is gone (or shared).
VolumesGone ==
    \A c \in Callers :
       /\ Nil(c, "CleanupVolume") => \A v \in vols' : v.id \notin Born(c).ids
       /\ Nil(c, "ValidateDeleteVolume") /\ ~Call(c).shared => \A v \in vols' : v.id # Call(c).id

\* ValidatePureLocalVolumePaths accepts the nodes only when every attached FlashArray volume
\* has its device with its size on its node and no other device is left.
DevicesMatch ==
    \A c \in Callers : Nil(c, "ValidatePureLocalVolumePaths") /\ Alone(c) =>
       \A v \in vols : v.kind = "pureblock" =>
          IF v.node = "none" THEN v.devNode = "none" ELSE <<v.devNode, v.devSize>> = <<v.node, v.size>>

\* RecoverDriver and EnterMaintenance succeed only if the node really went into maintenance
\* since the call began (or was to be there): the exit must not overtake the entry.
MaintenanceEntered ==
    \A c \in Callers : (Nil(c, "RecoverDriver") \/ Nil(c, "EnterMaintenance")) /\ Alone(c) =>
       px[Call(c).n].entered > Born(c).entered \/ Born(c).maint

\* RecoverPool that succeeds leaves the pools out of maintenance (the exit is skipped for a
\* node whose status is OK, which it must not yet be then).
PoolsServeAgain ==
    \A c \in Callers : Nil(c, "RecoverPool") /\ Alone(c) => ~px'[Call(c).n].poolMaint

\* StopDriver that succeeds has stopped every node; one that fails has touched the nodes in
\* order and none after the first that could not be stopped.
StopsInOrder ==
    \A c \in Callers :
       LET ns == Call(c).ns
           stopped(i) == ~px'[ns[i]].run
       IN /\ Nil(c, "StopDriver") /\ ~Call(c).force /\ Alone(c) => \A i \in DOMAIN ns : stopped(i)
          /\ th[c].todo # <<>> /\ Call(c).op = "StopDriver" /\ Alone(c) /\ ToSet(ns) \subseteq Born(c).run =>
                \A i, j \in DOMAIN ns : i < j /\ stopped(j) => stopped(i)

\* DecommissionNode succeeds only when the cluster does not list the node any more, and the
\* registry does not count it as a driver node then, unless a refresh of the endpoints runs.
DecommissionedGone ==
    \A c \in Callers : Nil(c, "DecommissionNode") =>
       /\ ~px'[Call(c).n].member
       /\ Alone(c) => Call(c).n \notin drv'.nodes

\* An upgrade that succeeds brought every driver node to the version, left the px-versions
\* ConfigMap as it found it (there or not), and left nothing of the talisman job.
UpgradeComplete ==
    \A c \in Callers : Alone(c) =>
       /\ Nil(c, "UpgradeDriver") => /\ \A n \in drv.nodes : px'[n].version = Call(c).v
                                     /\ k8s'.configmap = Born(c).configmap
       /\ Nil(c, "UpgradePortworx") => /\ \A n \in drv.nodes : px'[n].version = Call(c).v
                                       /\ k8s'.talisman = {}

\* ExpandPool sends its size again when an answer is lost: the pool never gets larger than the
\* size it had or the one that was asked for, and a call that succeeds leaves it growing to
\* that size or grown to it, less the journal.  (The call does not wait for that.)
PoolResizedOnce ==
    \A c \in Callers : th[c].todo # <<>> /\ Call(c).op = "ExpandPool" /\ Alone(c) =>
       LET r == px'[Call(c).n]
       IN /\ Max({r.pool, r.grow}) <= Max({Born(c).pool, Call(c).v})
          /\ Ends(c, "nil") => r.grow = Call(c).v \/ (r.grow = 0 /\ r.pool >= Call(c).v - Journal)

\* A getter that is told to look for an endpoint finds one that answers if any worker does and
\* no request of the search fails; a driver that is not to look again talks to the service.
EndpointHeals ==
    \A c \in Callers :
       /\ Acts(c) /\ (At(c, "sdk") \/ At(c, "ask") \/ At(c, "find") \/ At(c, "list") \/ At(c, "inspect"))
       /\ Looks(Step(c).via) /\ faults' = faults
       /\ \E n \in Nodes : Up(n)
       => Answers(drv'.ep)

\* A query by pxctl that succeeds deleted the context it created, however often it was tried.
NoContextLeft ==
    \A c \in Callers :
       /\ \E op \in {"GetPxctlStatus", "WaitDriverUpOnNode", "SetClusterOpts", "GetNodeStats"} : Nil(c, op)
       /\ Alone(c) /\ ~Born(c).context
       => \A n \in Nodes : ~px'[n].context

\* CollectDiags by the SDK returns only when the job ended, and with validation only when
\* the file exists.
DiagsCollected ==
    \A c \in Callers : Nil(c, "CollectDiags") /\ Alone(c) =>
       /\ px'[Call(c).n].diags # "running"
       /\ Call(c).validate => px'[Call(c).n].diags = "done"

\* ValidateVolumeSetup, which looks at the pods one after the other, accepts them only when
\* as many as expected are ready and have the volume mounted, if no pod moved meanwhile.
SetupValidated ==
    \A c \in Callers :
       /\ Nil(c, "ValidateVolumeSetup") /\ faults = Born(c).faults /\ k8s.pods # {}
       => Cardinality({p \in k8s.pods : p.st = "ready" /\ p.mounted})
             >= (IF Call(c).shared THEN Scene.replicas ELSE 1)

\* What the calls on volumes promise, step by step: whatever two tests and the cluster do in
\* between, a call acts on its own volume only and reports success only when it is true.
VolumeCallsSound ==
    [][/\ ActsOnNamedVolume /\ ReplicationAwaited /\ VolumesGone
       /\ DevicesMatch /\ SetupValidated]_vars

\* What the calls on nodes, pools, drives and upgrades promise, step by step; the endpoint
\* they talk to recovers, and the driver's own state stays one the code can hold.
NodeCallsSound ==
    [][/\ TypeOK' /\ EndpointHeals
       /\ MaintenanceEntered /\ PoolsServeAgain /\ StopsInOrder /\ DecommissionedGone
       /\ UpgradeComplete /\ PoolResizedOnce /\ NoContextLeft /\ DiagsCollected]_vars

\* Every call returns: a retried closure ends at its deadline, whatever the cluster does.
CallsReturn == \A c \in Callers : th[c].todo # <<>> ~> th[c].todo = <<>>
=============================================================================
