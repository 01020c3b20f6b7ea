--------------------------- MODULE VolumeTriggers ---------------------------
(***************************************************************************)
(* The triggers of testTriggers.go that change volumes or their settings,   *)
(* deploy and delete applications, expand storage pools, take a node out of *)
(* the cluster and bring it back.                                           *)
(***************************************************************************)
EXTENDS NodeTriggers

\* The profiles of IOProfileChange.
IOProfileChange == <<"none", "auto", "db_remote">>
VolumesToCreate == 2     \* bound: volCreateCount, which is 10

\* Without its volumes an application is noted twice, and its loop does nothing.
EachVolume(k, Steps(_)) ==
    <<[Ask("GetVolumes") EXCEPT !.bad = Note \o Note, !.ok = For(Volumes(k), Steps)]>>
GetReplicationFactor(v) == Vol("GetReplicationFactor", v, 0, "none")
SetReplicationFactor(v, d, n) == Vol("SetReplicationFactor", v, d, n)
ValidateReplFactorUpdate(v, d) == Vol("WaitForReplicationToComplete", v, d, "none")
SetAndWait(v, d, handler) ==
    <<[SetReplicationFactor(v, d, "none") EXCEPT !.bad = handler, !.ok = OrElse(ValidateReplFactorUpdate(v, d), handler)]>>
Keep(x, v) == <<[do |-> "keep", x |-> x, v |-> v]>>
\* A volume that is not replicated at the moment is passed over in silence.
WhenUp(v) ==
    OrElse(Vol("GetVolumeReplicationStatus", v, 0, "none"), Note \o Exit("volume")) \o If("up", v, <<>>, Exit("volume"))

----------------------------------------------------------------------------
\* The replication factor

\* Without the aggregation level the trigger divides by zero; without the list of
\* nodes it takes the factor for the largest possible.
Raise(v) ==
    Fn("volume", NoteAndExit(Ask("IsPureVolume"), "volume") \o WhenUp(v) \o Noted(GetReplicationFactor(v))
        \o <<[Ask("GetAggregationLevel") EXCEPT !.bad = Note \o Noted(Ask("GetStorageNodes")) \o Panic, !.ok =
                Unless(Ask("GetStorageNodes"), If("raise", v, SetAndWait(v, 1, Note), <<>>))]>>
        \o Noted(GetReplicationFactor(v)))
TriggerHAIncrease == For(Apps, LAMBDA k : EachVolume(k, Raise) \o ValidateSkipping(k))

Lower(v) ==
    Noted(Ask("IsPureVolume")) \o Noted(GetReplicationFactor(v)) \o If("lower", v, SetAndWait(v, -1, Note), <<>>)
    \o Noted(GetReplicationFactor(v))
TriggerHADecrease == For(Apps, LAMBDA k : EachVolume(k, Lower) \o ValidateSkipping(k))

volumeResize(v) ==
    Fn("size", NoteAndExit(Ask("InspectVolume"), "size") \o NoteAndExit(Ask("ResizeVolume"), "size")
               \o NoteAndExit(Ask("InspectVolume"), "size"))
\* The factor is lowered and raised again, without a wait, while the volume is
\* resized.  A volume with one replica is expected to have none.
Resize(v) ==
    Fn("volume", NoteAndExit(Ask("IsPureVolume"), "volume") \o WhenUp(v) \o Keep("nothing", v)
        \o Fn("step", NoteAndExit(GetReplicationFactor(v), "step") \o If("lower", v, <<>>, Exit("step"))
             \o SetAndWait(v, -1, Note) \o Keep("exp", v) \o OrElse(Ask("GetReplicaSets"), Panic)
             \o Noted(SetReplicationFactor(v, 0, "none")) \o volumeResize(v))
        \o Noted(Vol("ValidateReplFactorUpdate", v, 0, "none")))
TriggerHAIncreasWithPVCResize == For(Apps, LAMBDA k : EachVolume(k, Resize) \o Collected(ValidateContext(k)))

----------------------------------------------------------------------------
\* haIncreaseWithErrorInjection: the node that gets the new replica, then the nodes
\* that have one, are disturbed while the replica is built.

CrashAndDrop(n) == Make \o CrashVolDriverAndWait(n) \o Close \o Discard
PickTarget(v) == ExpandFor("target", v)

\* The errors of the disturbance, and of the wait for the new replica, are overwritten
\* by the result of ValidateDataIntegrity.
OnTarget(v, n, inj) ==
    GetContextsOnNode(Note \o Exit("target")) \o NoteAndExit(SetReplicationFactor(v, 1, n), "target")
    \o Fn("step",
          (CASE inj = "PX_RESTART" -> OrElse(On("StopDriver", n), Exit("step")) \o OrElse(On("StartDriver", n), Exit("step"))
             [] inj = "REBOOT" -> Logged(On("RebootNode", n))
             [] inj = "CRASH" -> CrashAndDrop(n))
          \o Logged(ValidateReplFactorUpdate(v, 1)))
    \o ValidateDataIntegrity("target")
HaIncreaseErrorInjectionTargetNode(v) ==
    Fn("target", NoteAndExit(GetReplicationFactor(v), "target") \o If("max", v, Note \o Exit("target"), <<>>)
        \o NoteAndExit(Ask("GetReplicaSets"), "target") \o PickTarget(v))
\* The pools of a node that has no replica yet.
Pools == NoteAndExit(Ask("GetPoolsUsedSize"), "target") \o NoteAndExit(Ask("ListStoragePools"), "target")
         \o NoteAndExit(Ask("InspectVolume"), "target")

\* A node that was not healthy when the trigger began is not known to it.
OnSources(v, nodes, known, inj) ==
    NoteAndExit(SetReplicationFactor(v, 1, "none"), "source")
    \o For(nodes, LAMBDA n :
          CASE inj = "PX_RESTART" /\ n \notin known -> Note \o Exit("source")
            [] inj = "PX_RESTART" /\ n \in known ->
                 NoteAndExit(On("StopDriver", n), "source") \o NoteAndExit(On("StartDriver", n), "source")
            [] inj = "REBOOT" -> IF n \in known THEN Logged(On("RebootNode", n)) ELSE <<>>
            [] inj = "CRASH" -> IF n \in known THEN CrashAndDrop(n) ELSE <<>>)
    \o NoteAndExit(ValidateReplFactorUpdate(v, 1), "source")
    \o For(nodes, LAMBDA n : GetContextsOnNode(Note \o Exit("source")) \o ValidateDataIntegrity("source"))
HaIncreaseErrorInjectSourceNode(v) ==
    Fn("source", NoteAndExit(GetReplicationFactor(v), "source") \o If("max", v, Note \o Exit("source"), <<>>)
        \o NoteAndExit(Ask("GetReplicaSets"), "source") \o ExpandFor("sources", v))

\* The volume is brought to one replica; an error there ends the trigger.
Inject(v) ==
    Fn("volume", Noted(GetReplicationFactor(v)) \o WhenUp(v) \o Keep("init", v)
        \o While("lower", v, SetAndWait(v, -1, Note \o Exit("all")) \o NoteAndExit(GetReplicationFactor(v), "all"))
        \o HaIncreaseErrorInjectionTargetNode(v) \o HaIncreaseErrorInjectSourceNode(v))
Revert(v) ==
    Fn("revert", Noted(GetReplicationFactor(v))
        \o While("above", v, SetAndWait(v, -1, Note \o Exit("revert")) \o Noted(GetReplicationFactor(v))))

\* The last application with a large volume is taken.
haIncreaseWithErrorInjection ==
    Fn("all",
       Unless(Ask("GetStorageNodes"), For(StorageNodes, LAMBDA n : Unless(isNodeHealthy(n), <<[do |-> "select", n |-> n]>>)))
       \o For(Apps, LAMBDA k : Fn("app", EachVolume(k, LAMBDA v : Fn("volume",
             Noted(Ask("IsPureVolume")) \o NoteAndExit(Ask("GetVolumeConsumedSize"), "volume")
             \o <<[do |-> "choose", k |-> k]>> \o Exit("app")))))
       \o Expand("inject"))

----------------------------------------------------------------------------
\* Applications and volumes that come and go

\* Every application of the test is validated, the ones that were there before too.
TriggerDeployNewApps ==
    Noted(Ask("updatePxRuntimeOpts")) \o Collected(ScheduleApplications) \o Expand("deployed")
Deployed ==
    For(Apps, LAMBDA k : Skip(k, FALSE) \o Collected(ValidateContext(k)))
    \o (IF Len(ctxs) <= 2 THEN <<>>
        ELSE For(Apps, LAMBDA k : Unless(Ask("GetVolumes"), For(Volumes(k), LAMBDA v : Logged(Ask("UpdateVolumeSpec"))))))

checkLunsAfterVolumeDeletion ==
    Fn("luns", NoteAndExit(Ask("GetVolumeDriverNamespace"), "luns")
        \o <<[Ask("GetPXPureSecret") EXCEPT !.ok = NoteAndExit(Ask("InspectCurrentCluster"), "luns") \o Noted(Ask("ListVolumes"))]>>)

\* The list of applications is emptied whatever the deletions returned.
TriggerVolumeDelete ==
    For(Apps, LAMBDA k : <<[do |-> "delete", k |-> k, op |-> "DeleteVolumes", ok |-> <<>>, bad |-> Note]>>
        \o Noted(Ask("Destroy")) \o Noted(Ask("ValidateVolumesDeleted")) \o checkLunsAfterVolumeDeletion)
    \o Assign("contexts", FALSE) \o <<[do |-> "nest", op |-> "DeployApps"]>>

Extra(op) == [do |-> "extra", op |-> op, ok |-> <<>>, bad |-> <<>>]
TriggerVolumeClone ==
    For(Apps, LAMBDA k : EachVolume(k, LAMBDA v : Noted(Ask("IsPureFileVolume"))
        \o <<[Extra("CloneVolume") EXCEPT !.bad = Note \o Note \o Note, !.ok =
                Noted(Check("ValidateCreateVolume")) \o Noted(Extra("DeleteVolume"))]>>))

TriggerVolumeResize ==
    For(Apps, LAMBDA k : OrElse(Ask("GetVolumes"), Note \o Note)
        \o Unless(Ask("GetContextPVCs"), For(Volumes(k), LAMBDA v : Unless(Ask("ResizePVC"), <<[do |-> "select", n |-> v]>>)))
        \o Expand("resized"))

\* CreateMultiVolumesAndAttach calls wg.Done before it returns what it made: the
\* goroutine stores the volumes and the error, in variables of the trigger, after that.
CreateMultiVolumesAndAttach ==
    Fn("create", For([j \in 1..VolumesToCreate |-> j], LAMBDA j :
           <<[Extra("CreateVolume") EXCEPT !.bad = Assign("failed", TRUE) \o Exit("create"), !.ok =
                OrElse(Extra("AttachVolume"), Assign("failed", TRUE) \o Exit("create"))]>>) \o Done)
TriggerVolumeCreatePXRestart ==
    Add \o Go(CreateMultiVolumesAndAttach \o <<[do |-> "store"]>> \o If("failed", "none", Note, <<>>))
    \o Add \o Go(<<[On("RestartDriver", Head(StorageNodes)) EXCEPT !.ok = Assign("err", FALSE), !.bad = Assign("err", TRUE)]>>
                 \o If("failed", "none", Note, <<>>) \o Done)
    \o Join \o Expand("created")

----------------------------------------------------------------------------
\* Settings of the volumes and of the cluster

\* Without the inspected volume the trigger panics, unless it has noted the error
\* before; an error of GetVolumes leaves no volumes to change.
getIOProfileOnVolumes ==
    Fn("profiles", For(Apps, LAMBDA k : OrElse(Ask("GetVolumes"), Keep("noMap", "none") \o Note \o Exit("profiles"))
        \o For(Volumes(k), LAMBDA v : OrElse(Ask("InspectVolume"), Panic) \o Keep("map", v))))
setProfile(v) ==
    Noted(Vol("UpdateIOProfile", v, 0, "none")) \o OrElse(Ask("InspectVolume"), Note \o Panic) \o If("unlike", v, Note, <<>>)
updateIOProfile(v) == OrElse(Ask("InspectVolume"), Panic) \o Keep("new", v) \o If("reprofile", v, setProfile(v), <<>>)
revertIOProfile(v) == OrElse(Ask("InspectVolume"), Note \o Panic) \o Keep("old", v) \o If("unlike", v, setProfile(v), <<>>)
ValidateWith(flag) == For(Apps, LAMBDA k : Skip(k, flag) \o Collected(ValidateContext(k)))
TriggerVolumeIOProfileUpdate ==
    getIOProfileOnVolumes \o Expand("profiles") \o ValidateWith(TRUE) \o Integrity
    \o Expand("oldProfiles") \o ValidateWith(FALSE) \o Integrity \o Assign("counter", TRUE)

\* The wanted priority is the one of the label, or the other one every second time.
UpdatePriority(v) ==
    OrElse(Ask("InspectVolume"), Panic)
    \o If("reprioritize", v, Noted(Vol("UpdateIOPriority", v, 0, "none")) \o NoteAndExit(Ask("InspectVolume"), "all")
                        \o If("reprioritize", v, Note, <<>>), <<>>)
updateIOPriorityOnVolumes == For(Apps, LAMBDA k : EachVolume(k, UpdatePriority) \o Assign("setIoPriority", TRUE))
TriggerVolumeUpdate == Fn("all", updateIOPriorityOnVolumes)

\* The flag is set when the cluster has taken the option.
SetOnce(flag) == Unless([do |-> "option", x |-> flag, op |-> "SetClusterOpts", ok |-> <<>>, bad |-> <<>>], Assign(flag, TRUE))

\* The list of GetTrashCanVolumeIds begins with fifty empty names: it is never empty,
\* and the name of its last element may be too short to be cut.
TriggerTrashcan ==
    If("flag", "isTrashcanEnabled",
       Unless(Ask("GetTrashCanVolumeIds"), If("trash", "none", Noted(Extra("RestoreFromTrashcan")), Panic)),
       SetOnce("isTrashcanEnabled"))
TriggerRelaxedReclaim ==
    If("flag", "isRelaxedReclaimEnabled",
       For(StorageNodes, LAMBDA n : Logged(Ask("GetNodeStats"))) \o Noted(Ask("totals")),
       SetOnce("isRelaxedReclaimEnabled"))

Trimmed == SelectSeq(Apps, LAMBDA k : ctxs[k].fstrim)
validateAutoFsTrim ==
    Fn("trim", For(Trimmed, LAMBDA k : Unless(Ask("GetVolumes"), For(Volumes(k), LAMBDA v : Fn("volume",
        Noted(Ask("IsPureVolume")) \o NoteAndExit(Ask("InspectVolume"), "volume")
        \o Noted(Ask("waitForFsTrimStatus")) \o NoteAndExit(Check("GetAutoFsTrimStatus"), "trim"))))))
\* The errors of the stop, the reboot, the start and the last step are dropped.
RebootAttached(v, n) ==
    LET where == Vol("GetNodeForVolume", v, 0, "none") IN
    Noted(On("Cordon", n)) \o Logged(On("StopDriver", n)) \o Logged(On("RebootNode", n))
    \o OrElse(where, OrElse(where, Note \o Panic))
    \o Make \o StartVolDriverAndWait(n) \o Close \o Logged(On("Uncordon", n))
TriggerAutoFsTrim ==
    If("flag", "isAutoFsTrimEnabled", <<>>, SetOnce("isAutoFsTrimEnabled"))
    \o validateAutoFsTrim
    \o For(Trimmed, LAMBDA k : <<[Ask("GetVolumes") EXCEPT !.ok = For(Volumes(k), LAMBDA v :
            OrElse(Vol("GetNodeForVolume", v, 0, "none"), Note \o Panic) \o ExpandFor("attached", v))]>>)
    \o validateAutoFsTrim

----------------------------------------------------------------------------
\* Expansion of a pool; every node of the model has one

\* The closure that looks at the last operation returns without an error while it goes
\* on, which ends the retry: only a failed one stops the expansion (a failure for unclean
\* volumes, which is let pass, is left out).
isPoolResizePossible(n, out) ==
    If("operated", n, NoteAndExit(Ask("ListStoragePools"), out) \o If("growFailed", n, Note \o Exit(out), <<>>), <<>>)
    \o NoteAndExit(Ask("GetNodeWithGivenPoolID"), out) \o NoteAndExit(Ask("GetNodePoolsStatus"), out)
WaitForExpansionToStart(n) == Until("Expanding", n)
waitForPoolToBeResized(n) == Until("Resized", n)

EnterPoolMaintenance(n, out) ==
    NoteAndExit(On("EnterPoolMaintenance", n), out) \o NoteAndExit(Ask("GetNodeStatus"), out)
    \o NoteAndExit(Until("PoolMaintenance", n), out)
ExitPoolMaintenance(n, out) ==
    NoteAndExit(On("ExitPoolMaintenance", n), out) \o NoteAndExit(Until("DriverUp", n), out)
    \o NoteAndExit(Ask("RunCommand"), out) \o NoteAndExit(Until("PoolOnline", n), out)

RebootNodeAndWaitForPxDown(n, handler) ==
    Fn("reboot", OrElse(On("RebootNode", n), handler \o Exit("reboot")) \o OrElse(Until("Connection", n), handler \o Exit("reboot"))
        \o OrElse(Until("DriverDown", n), handler \o Exit("reboot")) \o OrElse(Until("Ready", n), handler \o Exit("reboot")))
\* The first error is overwritten by the wait for the driver.
RebootNodeAndWaitForPxUp(n) == RebootNodeAndWaitForPxDown(n, <<>>) \o Noted(Until("DriverUp", n))

\* With DM-thin storage a disk is added in pool maintenance, which the node is still in
\* after the reboot.
Restarting(n, maintenance) ==
    Unless(WaitForExpansionToStart(n),
        OrElse(Ask("GetNodeWithGivenPoolID"), Note \o Panic)
        \o (IF maintenance THEN RebootNodeAndWaitForPxDown(n, Note) ELSE RebootNodeAndWaitForPxUp(n)))

initiatePoolExpansion(n, type, reboot) ==
    LET maintenance == Scene.dmthin /\ type = "add-disk" IN
    Fn("expansion", isPoolResizePossible(n, "expansion") \o NoteAndExit(Ask("GetNodeFromPoolUUID"), "expansion")
        \o (IF maintenance THEN EnterPoolMaintenance(n, "expansion") ELSE <<>>)
        \o Unless(On("ResizePool", n),
               (IF reboot THEN Restarting(n, maintenance) ELSE <<>>) \o Noted(waitForPoolToBeResized(n)))
        \o (IF maintenance THEN ExitPoolMaintenance(n, "expansion") ELSE <<>>))

\* Without the list no pool is expanded.
getStoragePoolsToExpand(steps) ==
    <<[Ask("GetPoolExpansionEligibility") EXCEPT !.bad = Note, !.ok = steps]>>
getStorageMetadataPoolsToExpand(steps) ==
    getStoragePoolsToExpand(<<[Ask("GetPoolUUIDWithMetadataDisk") EXCEPT !.bad = Note, !.ok = steps]>>)
\* The goroutine of a pool is started before it is added to the wait group.
Expansions(type) == For(StorageNodes, LAMBDA n : Go(initiatePoolExpansion(n, type, FALSE) \o Done) \o Add)

TriggerMetadataPoolResizeDisk ==
    getStorageMetadataPoolsToExpand(Expansions("resize-disk")) \o Join \o validateContexts
TriggerPoolAddDisk == getStoragePoolsToExpand(Expansions("add-disk")) \o Join \o validateContexts
\* One pool, at random; without its node the trigger panics after the expansion.
ResizeAndReboot(n) ==
    <<[Ask("GetNodeWithGivenPoolID") EXCEPT
         !.ok = GetContextsOnNode(Note) \o initiatePoolExpansion(n, "resize-disk", TRUE),
         !.bad = Note \o initiatePoolExpansion(n, "resize-disk", TRUE) \o Panic]>>
TriggerPoolResizeDiskAndReboot == getStoragePoolsToExpand(Expand("resizePool")) \o Integrity \o validateContexts
AddAndReboot(n) ==
    Noted(Ask("GetNodeWithGivenPoolID")) \o GetContextsOnNode(Note) \o initiatePoolExpansion(n, "add-disk", TRUE)
    \o Integrity
TriggerPoolAddDiskAndReboot == getStoragePoolsToExpand(Expand("addDisk")) \o validateContexts

----------------------------------------------------------------------------
\* A node leaves the cluster and comes back

\* A replica goes from a node to another one; with the only replica the new one is made
\* first.  Without another node the name of the target is empty, and without the
\* inspected volume the function panics before it looks at the error.
Moved(v, d, n) ==
    NoteAndExit(SetReplicationFactor(v, d, n), "decommission") \o NoteAndExit(ValidateReplFactorUpdate(v, d), "decommission")
MoveReplica(v, from, to) ==
    OrElse(Ask("InspectVolume"), Panic) \o Keep("count", v)
    \o If("single", v, Moved(v, 1, to) \o Moved(v, 0, from), Moved(v, -1, from) \o Moved(v, 0, to))

\* A schedule with an active backup is suspended.  The caller's slice does not get it,
\* and its deferred function resumes nothing.
SuspendSchedule(v) ==
    NoteAndExit(Ask("GetCloudsnaps"), "decommission") \o NoteAndExit(Ask("GetVolumeSnapShotScheduleOfVol"), "decommission")
    \o (IF v \in pkg.suspended THEN <<>>
        ELSE NoteAndExit([do |-> "suspend", v |-> v, op |-> "UpdateSnapshotSchedule", ok |-> <<>>, bad |-> <<>>], "decommission"))
PrereqForNodeDecomm(n) ==
    NoteAndExit(Ask("GetVolumesOnNode"), "decommission")
    \o <<[Ask("GetPxctlCmdOutput") EXCEPT !.ok = ExpandFor("suspended", n)]>> \o ExpandFor("moved", n)
GetVolumesOnNode(n) == SetToSeq({v \in DOMAIN vol : n \in vol[v].on})
Suspensions(n) == IF Scene.backups THEN For(GetVolumesOnNode(n), SuspendSchedule) ELSE <<>>
GetNodeIdToMoveReplica(v, n) ==
    NoteAndExit(Ask("GetNodeIdToMoveReplica"), "decommission") \o <<[do |-> "move", v |-> v, n |-> n]>>
Moves(n) == For(GetVolumesOnNode(n), LAMBDA v : GetNodeIdToMoveReplica(v, n))

Decommission(n) ==
    Fn("decommission", GetContextsOnNode(<<>>) \o PrereqForNodeDecomm(n)
        \o NoteAndExit(Ask("PrepareNodeToDecommission"), "decommission")
        \o Noted(On("DecommissionNode", n))
        \o <<[Until("Decommissioned", n) EXCEPT !.bad = Note \o Noted(On("RecoverNode", n)),
                 !.ok = <<[do |-> "decommissioned", n |-> n]>>]>>
        \o Noted(Ask("RefreshNodeRegistry")) \o Noted(Ask("RefreshDriverEndpoints")) \o ValidateDataIntegrity("decommission"))
\* The node is chosen at random.
TriggerNodeDecommission == Expand("decommission") \o For(Apps, ValidateSkipping)

\* A node that is not found in the registry is not noted, and the node is forgotten
\* whatever happened.
Rejoin(n) ==
    Noted(On("RebootNode", n))
    \o Unless(On("RejoinNode", n),
          Unless(Until("Joined", n),
             Noted(Ask("RefreshNodeRegistry")) \o Noted(Ask("RefreshDriverEndpoints"))
             \o <<[Ask("GetStorageDriverNodes") EXCEPT !.ok = Noted(Until("DriverUp", n))]>>))
    \o <<[do |-> "decommissioned", n |-> "none"]>>
    \o For(Apps, ValidateSkipping)
TriggerNodeRejoin == If("decommissioned", "none", Expand("rejoin"), <<>>)
============================================================================
