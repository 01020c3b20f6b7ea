----------------------------- MODULE MCPxDriver -----------------------------
(* The scenes PxDriver is model-checked on: three nodes, a volume or two, one or two callers. *)
EXTENDS PxDriver

MCWorkers == <<"n1", "n2", "n3">>

\* A call and its arguments; of("op", "vol", "node", 3) and the rest by EXCEPT.
of(op, name, n, v) ==
    [op |-> op, name |-> name, n |-> n, v |-> v, wait |-> TRUE, id |-> 1, shared |-> FALSE, zone |-> {},
     profile |-> "auto", ns |-> <<n>>, force |-> FALSE, trigger |-> FALSE, storageless |-> FALSE,
     retry |-> TRUE, drives |-> 1, stopped |-> FALSE, validate |-> TRUE, async |-> FALSE, file |-> "f",
     skipOperator |-> FALSE, auto |-> TRUE, refresh |-> <<>>]
on(op, n) == of(op, "a", n, 2)
vol(op, name) == of(op, name, "n1", 2)
ops(names) == [i \in DOMAIN names |-> on(names[i], "n2")]

Fresh == [n \in Nodes |-> FreshNode]
volume(id, name) == [FreshVolume EXCEPT !.id = id, !.name = name]
Plain == [script |-> [c \in Callers |-> <<>>], px |-> Fresh, vols |-> {volume(1, "a"), volume(2, "b")},
          drv |-> [ep |-> Service, cluster |-> Service, refresh |-> FALSE, nodes |-> Nodes,
                  ids |-> [n \in Nodes |-> 1], pools |-> [n \in Nodes |-> 10]],
          k8s |-> FreshK8s, faults |-> 0, crashes |-> FALSE, skipService |-> FALSE, secured |-> FALSE,
          storkMin |-> 1, expected |-> [n \in Nodes |-> 10], replicas |-> 2]
Two(s1, s2) == [c \in Callers |-> IF c = "c1" THEN s1 ELSE s2]
One(s, f) == [Plain EXCEPT !.script = Two(s, <<>>), !.faults = f]

\* Every call once, without faults.
VolumeTour == One(
    <<vol("CreateVolume", "c"), vol("ValidateCreateVolume", "c"), vol("ListAllVolumes", ""),
      vol("ResizeVolume", "c"), vol("ValidateUpdateVolume", "c"), vol("CloneVolume", "c"),
      vol("AttachVolume", "c"), vol("GetNodeForVolume", "c"), vol("DeleteVolume", "c"),
      vol("DetachVolume", "c"), vol("CreateSnapshot", "c"), vol("ValidateCreateVolume", "c_snapshot"),
      vol("InspectVolume", "c"), vol("SetIoBandwidth", "c"), vol("UpdateVolumeSpec", "c"),
      vol("ValidateCreateCloudsnap", "c"), vol("GetReplicationFactor", "c"), vol("GetAggregationLevel", "c"),
      vol("GetProxySpecForAVolume", "c"), vol("GetReplicaSets", "c"), vol("SetReplicationFactor", "c"),
      vol("DeleteVolume", "c"), of("ValidateDeleteVolume", "c", "n1", 0)>>, 0)
SnapshotTour == One(
    <<vol("CreateVolumeUsingRequest", "d"), vol("CreateVolumeUsingPxctlCmd", "e"), vol("ValidateCreateSnapshot", "d"),
      vol("ValidateCreateSnapshotUsingPxctl", "e"), vol("UpdateIOPriority", "e"), vol("UpdateStickyFlag", "e"),
      vol("UpdateSharedv4FailoverStrategyUsingPxctl", "e"), vol("ValidateCreateCloudsnapUsingPxctl", "e"),
      vol("GetNodePureVolumeAttachedCountMap", ""), vol("ValidateVolumeInPxctlList", "z"),
      vol("ValidateVolumeSnapshotRestore", "e"), vol("CleanupVolume", "e"), vol("CleanupVolume", "f")>>, 0)
NodeTour == One(
    ops(<<"Init", "EnterMaintenance", "IsNodeInMaintenance", "ExitMaintenance", "RecoverDriver", "RecoverPool",
          "StopDriver", "WaitDriverDownOnNode", "GetNodeStatus", "GetDriverVersionOnNode", "StartDriver",
          "WaitDriverUpOnNode", "KillPXDaemon", "RestartDriver", "WaitDriverUpOnNode", "ListStoragePools", "ValidateRebalanceJobs",
          "ValidateStoragePools", "DeletePool", "AddCloudDrive", "AddBlockDrives", "RefreshDriverEndpoints",
          "DecommissionNode", "RejoinNode", "RecoverNode", "RefreshDriverEndpoints">>), 0)
PoolTour == One(<<of("ExpandPool", "a", "n2", 20), of("ExpandPoolUsingPxctlCmd", "a", "n2", 30),
                  of("ResizeStoragePoolByPercentage", "a", "n2", 50)>>, 0)
ServiceTour == [One(
    ops(<<"CollectDiags", "ValidateDiagsOnS3", "CreateDefragSchedule", "ValidatesDefragSchedulesTrigger",
          "ValidateLastDefragScheduleStatus", "DeleteDefragSchedule", "ValidateDefragScheduleIdDeleted",
          "CleanUpDefragSchedules", "SetClusterOpts", "SetClusterRunTimeOpts", "SetClusterOptsWithConfirmation",
          "GetClusterOpts", "ToggleCallHome", "RunSecretsLogin", "GetNodeStats", "GetTrashCanVolumeIds",
          "GetPoolDrives", "GetNodePools", "GetNodePoolsStatus", "GetPoolsUsedSize", "UpdatePoolLabels",
          "GetPoolLabelValue", "IsIOsInProgressForTheVolume", "ValidatePureFaFbMountOptions",
          "ValidatePureFaCreateOptions", "EnableSkinnySnap", "UpdateSkinnySnapReplNum", "GetCloudsnaps",
          "GetCloudsnapsOfGivenVolume", "DeleteAllCloudsnaps", "GetAlerts", "GetLicenseSummary",
          "GetAutoFsTrimStatus", "GetAutoFsTrimUsage", "IsStorageExpansionEnabled", "GetJournalDevicePath", "GetClusterPairingInfo", "UpgradeDriver",
          "ValidateDriver", "UpgradePortworx">>), 1) EXCEPT !.secured = TRUE]

\* Volumes that two callers work on.
Cleanups(s2) ==
    [Plain EXCEPT !.script = Two(<<vol("CleanupVolume", "b")>>, s2), !.faults = 1,
                  !.vols = {volume(1, "a"), [volume(2, "b") EXCEPT !.node = "n1", !.mounted = TRUE]}]
CleanupFails == [One(<<vol("CleanupVolume", "b")>>, 1) EXCEPT !.crashes = TRUE, !.drv.ep = "n1", !.drv.cluster = "n1"]
Replications == One(<<[vol("SetReplicationFactor", "a") EXCEPT !.v = 3],
                      [vol("SetReplicationFactor", "a") EXCEPT !.v = 1]>>, 2)
Deletions == [Plain EXCEPT !.script = Two(<<vol("ValidateDeleteVolume", "a")>>, <<vol("DeleteVolume", "a")>>),
                           !.faults = 1]
pure(id, name, n, dev) ==
    [volume(id, name) EXCEPT !.kind = "pureblock", !.node = n, !.devNode = dev, !.devSize = 1]
Pure(s) ==
    [One(s, 1) EXCEPT !.vols = {pure(1, "a", "n1", "none"), pure(2, "b", "none", "n2")}]
PureMoves ==
    Pure(<<vol("ResizeVolume", "a"), on("ValidatePureLocalVolumePaths", "n1"), vol("ValidateCreateVolume", "a"),
           [vol("ValidateCreateVolume", "a") EXCEPT !.zone = {"n2"}, !.refresh = <<TRUE>>]>>)

\* Nodes: maintenance, stops, decommission, with crashes and without the service.
Crashes(s) == [One(s, 1) EXCEPT !.crashes = TRUE, !.skipService = TRUE]
Recoveries == Crashes(<<on("RecoverDriver", "n1")>>)
PoolRecoveries == [One(<<on("RecoverPool", "n1")>>, 1) EXCEPT !.secured = TRUE]
Stops == Crashes(<<[on("StopDriver", "n1") EXCEPT !.ns = MCWorkers], on("GetReplicaSets", "n1")>>)
Kills == Crashes(<<[on("KillPXDaemon", "n1") EXCEPT !.ns = <<"n1", "n2">>, !.trigger = TRUE],
                   [on("StopDriver", "n1") EXCEPT !.force = TRUE]>>)
Decommissions(s2) ==
    [Plain EXCEPT !.script = Two(<<on("DecommissionNode", "n1")>>, s2), !.faults = 1]
Storageless ==
    [One(<<[on("DecommissionNode", "n1") EXCEPT !.storageless = TRUE], on("RejoinNode", "n1"),
           on("RecoverNode", "n1")>>, 1)
       EXCEPT !.px = [Fresh EXCEPT !["n1"].storageless = TRUE]]
Followed ==
    [Plain EXCEPT !.script = Two(<<on("StopDriver", "n1"), on("WaitDriverDownOnNode", "n1"), on("StartDriver", "n1")>>,
                                 <<vol("GetReplicationFactor", "a"), vol("GetNodeForVolume", "b")>>),
                  !.faults = 1, !.skipService = TRUE]
Waits == [Crashes(<<on("WaitDriverUpOnNode", "n1"), on("GetPxctlStatus", "n2")>>) EXCEPT !.secured = TRUE]
Pools == [One(<<of("ExpandPool", "a", "n1", 20), on("ValidateStoragePools", "n1")>>, 2)
            EXCEPT !.expected["n1"] = 20]
\* A node where the driver is disabled, and one without pools that comes back as another one.
Disabled ==
    [One(<<on("RefreshDriverEndpoints", "n1"), on("Init", "n1")>>, 1)
       EXCEPT !.px["n3"].label = "false", !.px["n3"].member = FALSE, !.drv.nodes = {"n1", "n2"}]
ComesBack ==
    [One(<<on("WaitDriverUpOnNode", "n1"), on("RecoverDriver", "n1")>>, 1)
       EXCEPT !.px["n1"].storageless = TRUE, !.px["n1"].st = "OFFLINE"]

\* Upgrades, diagnostics and pods.
Upgrades(operator, configmap, registry) ==
    [One(<<on("UpgradeDriver", "n1"), [on("UpgradeDriver", "n1") EXCEPT !.v = 3, !.skipOperator = TRUE]>>, 1)
       EXCEPT !.k8s.operator = operator, !.k8s.configmap = configmap, !.k8s.registry = registry, !.storkMin = 3]
Talismans == One(<<on("UpgradePortworx", "n1"), on("UpgradePortworx", "n1"), [on("UpgradeDriver", "n1") EXCEPT !.v = 0]>>, 1)
Diags == One(<<[on("CollectDiags", "n1") EXCEPT !.async = TRUE, !.validate = FALSE],
               [on("CollectDiags", "n1") EXCEPT !.async = TRUE],
               [on("CollectDiags", "n1") EXCEPT !.stopped = TRUE],
               on("StopDriver", "n1"), on("CollectDiags", "n1"),
               [on("ValidateDiagsOnS3", "n1") EXCEPT !.file = ""]>>, 1)
Pods(shared, f) ==
    [One(<<[vol("ValidateVolumeSetup", "a") EXCEPT !.shared = shared]>>, f)
       EXCEPT !.k8s.pods = {[id |-> i, st |-> "starting", mounted |-> FALSE] : i \in 1..2},
              !.crashes = TRUE]

AllScenes ==
    <<VolumeTour, SnapshotTour, NodeTour, PoolTour, ServiceTour,
      Cleanups(<<vol("DeleteVolume", "b"), vol("CreateVolume", "b")>>), Cleanups(<<vol("DetachVolume", "b")>>),
      CleanupFails, Replications, Deletions, Pure(<<on("ValidatePureLocalVolumePaths", "n1")>>), PureMoves,
      Recoveries, PoolRecoveries, Stops, Kills,
      Decommissions(<<>>), Decommissions(<<on("RefreshDriverEndpoints", "n2")>>), Storageless, Followed, Waits, Pools,
      Disabled, ComesBack,
      Upgrades(TRUE, TRUE, FALSE), Upgrades(TRUE, FALSE, TRUE), Upgrades(FALSE, FALSE, FALSE), Talismans,
      One(<<[on("ValidateDriver", "n1") EXCEPT !.auto = FALSE]>>, 0), Diags, Pods(TRUE, 1), Pods(FALSE, 0)>>
=============================================================================
