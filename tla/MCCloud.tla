------------------------------ MODULE MCCloud ------------------------------
(***************************************************************************)
(* The instance TLC checks: clusters of one, two or three machines, version   *)
(* 1, that are upgraded, sized, recycled and disturbed on every platform,     *)
(* with and without a fault.                                                  *)
(***************************************************************************)
EXTENDS Cloud

GoRoutines == <<"g1", "g2">>
k0 == [op |-> "", v |-> 2, surge |-> 0, size |-> 2, m |-> 1, to |-> 2, ms |-> <<1, 2>>, cmd |-> "date", ack |-> FALSE,
       prereq |-> FALSE, admin |-> FALSE, storage |-> FALSE]
Of(op) == [k0 EXCEPT !.op = op]
Ops(ops) == [i \in DOMAIN ops |-> Of(ops[i])]
Sized(op, n) == [Of(op) EXCEPT !.size = n]
Does(op, m, cmd) == [Of(op) EXCEPT !.m = m, !.cmd = cmd]

M(z) == Machine(1, z)
One == <<M(1)>>
Two == <<M(1), M(2)>>
Three == <<M(1), M(1), M(2)>>
Plain == [script |-> <<>>, ms |-> One, faults |-> 0, lag |-> FALSE, rolls |-> "none", fresh |-> "cp", vsphere |-> FALSE,
          ticks |-> 0, named |-> TRUE, listed |-> TRUE, token |-> FALSE, registry |-> FALSE, slow |-> FALSE,
          avail |-> "recommended", px |-> FALSE, mon |-> FALSE, env |-> FALSE]
In(plat, script, machines, f) == [plat EXCEPT !.script = script, !.ms = machines, !.faults = f]

Eks == [Plain EXCEPT !.lag = TRUE, !.rolls = "pool", !.fresh = "pool"]
Aks == [Plain EXCEPT !.rolls = "pool", !.fresh = "pool"]
Iks == [Plain EXCEPT !.lag = TRUE]
Oke == [Plain EXCEPT !.fresh = "pool", !.px = TRUE]
Ocp == [Plain EXCEPT !.lag = TRUE, !.rolls = "cp"]
Px(p) == [p EXCEPT !.px = TRUE]
Anthos == [Plain EXCEPT !.rolls = "cp", !.ticks = 1]
Pod == [Plain EXCEPT !.token = TRUE, !.registry = TRUE]
Vs == [Plain EXCEPT !.vsphere = TRUE]
Storage == <<[M(1) EXCEPT !.id = 1], [M(1) EXCEPT !.id = 2]>>
Unnamed(p) == [p EXCEPT !.named = FALSE]
Surge(op) == [Of(op) EXCEPT !.surge = 1]

ManagedScenes == <<
    In(Eks, <<Surge("UpgradeScheduler_eks")>>, Two, 1),
    In(Unnamed(Eks), <<Of("UpgradeScheduler_eks"), Of("GetZones_eks"), Of("GetASGClusterSize_eks"),
        Sized("SetASGClusterSize_eks", 2)>>, One, 1),
    In(Eks, <<Of("StopKubelet"), Of("StartKubelet"), Of("DeleteNode_eks")>>, One, 1),
    In(Aks, <<Of("Init_aks"), Of("GetASGClusterSize_aks"), Surge("UpgradeScheduler_aks")>>, Two, 1),
    In(Aks, <<Of("UpgradeScheduler_aks"), [Of("UpgradeScheduler_aks") EXCEPT !.v = 3]>>, One, 1),
    In(Aks, <<Sized("SetASGClusterSize_aks", 3), Of("GetZones_aks")>>, Two, 1),
    In(Aks, <<Sized("SetASGClusterSize_aks", 1), Of("GetASGClusterSize_aks")>>, Three, 1),
    In(Aks, <<Of("DeleteNode_aks")>>, Two, 1),
    In(Aks, <<Of("Init_gke"), Surge("UpgradeScheduler_gke")>>, Two, 1),
    In(Aks, <<Sized("SetASGClusterSize_gke", 3), Of("GetASGClusterSize_gke"), Of("DeleteNode_gke")>>, Two, 1),
    In(Iks, <<Of("UpgradeScheduler_iks")>>, Two, 0),
    In(Iks, <<Of("Init_iks"), Of("UpgradeScheduler_iks")>>, One, 1),
    In(Unnamed(Iks), <<Of("GetZones_iks"), Of("DeleteNode_iks"), Of("GetASGClusterSize_iks"),
        Sized("SetASGClusterSize_iks", 2)>>, One, 1),
    In(Oke, <<Of("Init_oke"), Of("UpgradeScheduler_oke")>>, Three, 1),
    In([Oke EXCEPT !.listed = FALSE], <<Of("UpgradeScheduler_oke"), Of("UpgradeScheduler_oke"), Of("GetZones_oke")>>, One, 1),
    In(Oke, <<Of("DeleteNode_oke"), Of("GetASGClusterSize_oke"), Sized("SetASGClusterSize_oke", 2)>>, One, 1) >>

OpenShiftScenes == <<
    In(Ocp, <<[Of("UpgradeScheduler_ocp") EXCEPT !.ack = TRUE, !.surge = 1, !.prereq = TRUE]>>, Two, 2),
    In([Ocp EXCEPT !.avail = "notRecommended", !.mon = TRUE], <<[Of("UpgradeScheduler_ocp") EXCEPT !.prereq = TRUE]>>, One, 2),
    In([Ocp EXCEPT !.avail = "explicit"], <<Of("UpgradeScheduler_ocp")>>, One, 2),
    In([Ocp EXCEPT !.avail = "none"], <<Of("UpgradeScheduler_ocp"), Of("UpgradeScheduler_ocp")>>, One, 2),
    In(Px(Ocp), <<[Of("DeleteNode_ocp") EXCEPT !.storage = TRUE]>>, Storage, 0),
    In(Px(Ocp), <<Of("DeleteNode_ocp")>>, One, 2),
    In([Px(Ocp) EXCEPT !.vsphere = TRUE], <<[Of("DeleteNode_ocp") EXCEPT !.storage = TRUE]>>, <<Storage[1]>>, 0),
    In(Ocp, <<Sized("SetASGClusterSize_ocp", 2), Of("GetASGClusterSize_ocp")>>, One, 2),
    In([Ocp EXCEPT !.vsphere = TRUE], <<Sized("SetASGClusterSize_ocp", 2)>>, One, 2),
    In(Ocp, <<Of("Schedule_ocp"), Of("Schedule_ocp"), Of("StopSchedOnNode"), Of("StartSchedOnNode"),
        Of("SaveSchedulerLogsToFile")>>, One, 2) >>

Anthos1 == <<Of("Init_anthos"), [Of("UpgradeScheduler_anthos") EXCEPT !.admin = TRUE]>>
AnthosScenes == <<
    In(Anthos, Anthos1, Two, 0),
    In(Anthos, <<Of("UpgradeScheduler_anthos")>>, One, 2),
    In([Anthos EXCEPT !.slow = TRUE], Anthos1, One, 0),
    In(Anthos, <<Of("Init_anthos"), Of("DeleteNode_anthos")>>, One, 2),
    In(Anthos, <<Of("UpgradeScheduler_anthos"), [Of("UpgradeScheduler_anthos") EXCEPT !.v = 3]>>, One, 0) >>

----------------------------------------------------------------------------
\* The node drivers

Ssh(p) == [p EXCEPT !.env = TRUE]
Both == <<Pod, Ssh(Pod)>>
NodeScenes == FlattenSeq([i \in 1..2 |-> <<
    In(Both[i], <<Of("updateDriver"), Of("RebootNodeAndWait"), Of("TestConnection")>>, Two, 2),
    In(Both[i], <<[Does("InjectNetworkErrorWithRebootFallback", 1, "tc add") EXCEPT !.ms = <<2>>],
                  Does("InjectNetworkErrorWithRebootFallback", 1, "tc del")>>, Two, 2),
    In(Both[i], <<Of("CrashNode"), Does("InjectNetworkErrorWithRebootFallback", 1, "tc add")>>, Two, 2),
    In(Both[i], <<Of("CrashNode"), Of("IsNodeRebootedInGivenTimeRange"), Of("GetDeviceMapperCount")>>, One, 2),
    In(Both[i], <<Does("RunCommandWithNoRetry", 1, "pxctl"), Does("RunCommand", 1, "pxctl")>>, One, 2),
    In(Both[i], <<Of("YankDrive"), Of("RecoverDrive"), Of("SystemCheck"), Of("GetBlockDrives"), Of("ShutdownNode"),
                  Of("SystemCheck")>>, One, 2) >>])
Disks(m, S) == [m EXCEPT !.disks = S]
VSphereScenes == <<
    In(Vs, <<Of("Init_vsphere"), Of("MoveDisks")>>, <<Disks(M(1), {11, 12}), Disks(M(2), {13})>>, 2),
    In(Vs, <<Of("DetachDrivesFromVM"), [Of("RemoveNonRootDisks") EXCEPT !.m = 2]>>, <<Disks(M(1), {11}), Disks(M(2), {12, 13})>>, 2),
    In(Vs, <<Of("PowerOffVM"), Of("PowerOffVM"), Of("PowerOnVM"), Of("TestConnection_vsphere")>>, One, 2),
    In(Vs, <<Of("RebootNode_vsphere"), Of("TestConnection_vsphere"), Of("ShutdownNode_vsphere"), Of("FindVMByIP")>>, One, 2),
    In(Vs, <<Of("DestroyVM"), Of("TestConnection_vsphere"), Of("FindVMByIP")>>, One, 2) >>
CloudNodeScenes == <<
    In(Iks, <<Of("GetNodeState"), Of("SetClusterVersion"), Of("RebalanceWorkerPool"), Of("GetCluster")>>, One, 2),
    In(Iks, <<Of("ReplaceWorkerNodeWithUpdate"), Of("GetNodeState")>>, One, 2),
    In(Iks, <<Of("RemoveWorkerNode")>>, Two, 2),
    In(Iks, <<Of("DeleteNode_ibm")>>, Two, 2),
    In(Iks, <<Sized("AddWorkerPool", 1)>>, Two, 2),
    In(Plain, <<Of("Init_aws"), Of("RebootNode_aws"), Of("TestConnection_aws"), Of("ShutdownNode_aws")>>, One, 2),
    In(Plain, <<Of("DeleteNode_aws"), Of("TestConnection_aws"), [Of("TestConnection_aws") EXCEPT !.m = 2]>>, One, 2),
    In(Oke, <<Of("SetClusterVersion_oracle"), Sized("SetASGClusterSize_oracle", 2), Of("GetASGClusterSize_oracle")>>, One, 2),
    In(Oke, <<Of("DeleteNode_oracle")>>, Two, 2) >>

AllScenes == ManagedScenes \o OpenShiftScenes \o AnthosScenes \o NodeScenes \o VSphereScenes \o CloudNodeScenes
=============================================================================
