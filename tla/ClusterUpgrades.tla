-------------------------- MODULE ClusterUpgrades --------------------------
(***************************************************************************)
(* The scheduler drivers of the platforms: how a cluster is upgraded, sized  *)
(* and how one of its nodes is deleted on EKS, AKS, GKE, IKS and OKE.  Every   *)
(* function is the sequence of its requests and looks; the suffix of a name   *)
(* is the package it is from.                                                *)
(***************************************************************************)
EXTENDS CloudCluster

\* A wait whose closure gives up when the look itself fails.
Poll(q, on, val) == Try(<<Final(Ask(q, on, val))>>)
\* A choice the function makes by what it sees when it gets there.
Branch(what, on, val) == [do |-> "branch", what |-> what, on |-> on, val |-> val]
\* Start one goroutine per call of the list, or join them.
Spawn(what, on) == [do |-> "spawn", what |-> what, on |-> on]
Join == [do |-> "join"]
\* Wait for something with no deadline.
Until(q, on, val) == [do |-> "until", q |-> q, on |-> on, val |-> val]
Again == [do |-> "again"]

----------------------------------------------------------------------------
\* EKS

\* Where the environment names the cluster nothing is remembered and every call configures the
\* client again; otherwise the name is looked up, once.
configureEKSClient == <<Branch("configured eks", 0, 0)>>
configureEKSClientSteps == IF Scene.named THEN <<Drop(Net), Drop(Net), Net>> ELSE Nets(4) \o <<Put("conf", TRUE)>>
GetCurrentVersion_eks == <<Net>>
UpgradeControlPlane_eks(k) == <<Update(Cp, "v", k.v)>>
WaitForControlPlaneToUpgrade_eks(k) == Poll("version", Cp, k.v)
UpgradeNodeGroup(k) == <<Update(Pool, "v", k.v)>>
\* The group is looked at once more while it may not have begun to update.
WaitForNodeGroupUpdate(k) == Poll("active", Pool, 0)
SetMaxUnavailableForUpgradeInNodeGroup(k) ==
    IF k.surge = 0 THEN <<>> ELSE <<Update(Pool, "surge", k.surge)>> \o WaitForNodeGroupUpdate(k)
WaitForNodeGroupToUpgrade(k) == Poll("version", Pool, k.v)
UpgradeScheduler_eks(k) ==
    configureEKSClient \o GetCurrentVersion_eks \o UpgradeControlPlane_eks(k) \o WaitForControlPlaneToUpgrade_eks(k)
    \o SetMaxUnavailableForUpgradeInNodeGroup(k) \o UpgradeNodeGroup(k) \o WaitForNodeGroupToUpgrade(k)
getAllInstances_eks == configureEKSClient \o <<Net>>
GetZones_eks(k) == configureEKSClient \o getAllInstances_eks
getInstanceIDByPrivateIpAddress(k) == configureEKSClient \o getAllInstances_eks \o <<Ask("exists", k.m, 0)>>
DeleteNode_eks(k) == configureEKSClient \o getInstanceIDByPrivateIpAddress(k) \o <<Req("terminate", k.m, 0)>>
GetASGName == configureEKSClient \o <<Net>>
GetASGClusterSize_eks(k) == configureEKSClient \o GetASGName \o <<Net>>
\* The wait compares the capacity that was asked for with itself.
SetASGClusterSize_eks(k) ==
    configureEKSClient \o GetASGName \o <<Req("resize", 0, k.size)>> \o Poll("capacity", Pool, k.size)
connect_eks(k) == Wait("success", k.m, 0)
StopKubelet(k) == getInstanceIDByPrivateIpAddress(k) \o <<Send(k.m, "stop")>> \o connect_eks(k)
StartKubelet(k) == getInstanceIDByPrivateIpAddress(k) \o <<Send(k.m, "start")>> \o connect_eks(k)

----------------------------------------------------------------------------
\* AKS

AzureLogin == <<Net>>
Init_aks(k) == <<Net>> \o AzureLogin \o <<Net>>
GetAKSCluster == <<Put("conf", TRUE)>> \o Try(<<Net>>)
UpgradeControlPlane_aks(k) == <<Update(Cp, "v", k.v)>>
\* The waits look at the provisioning state and not at the version.
WaitForControlPlaneToUpgrade_aks(k) == Poll("active", Cp, 0)
waitForNodePoolToSetMaxSurge(k) == Poll("surge", Pool, k.surge)
SetMaxSurgeForNodePool(k) == GetAKSCluster \o <<Update(Pool, "surge", k.surge)>> \o waitForNodePoolToSetMaxSurge(k)
UpgradeNodePool(k) == (IF k.surge = 0 THEN <<>> ELSE SetMaxSurgeForNodePool(k)) \o <<Update(Pool, "v", k.v)>>
WaitForAKSNodePoolToUpgrade(k) == Poll("active", Pool, 0)
UpgradeScheduler_aks(k) ==
    GetAKSCluster \o UpgradeControlPlane_aks(k) \o WaitForControlPlaneToUpgrade_aks(k) \o UpgradeNodePool(k)
    \o WaitForAKSNodePoolToUpgrade(k)
waitForNodePoolToScale(k) == Poll("scaled", Pool, k.size)
SetASGClusterSize_aks(k) == GetAKSCluster \o <<Update(Pool, "size", k.size)>> \o waitForNodePoolToScale(k)
\* GetAKSCluster sets the name of the group before it looks the cluster up.
GetASGClusterSize_aks(k) == <<Branch("knownGroup", 0, 0), Net>>
GetZones_aks(k) == GetAKSCluster
DeleteNode_aks(k) == GetAKSCluster \o <<Req("terminate", k.m, 0)>>

----------------------------------------------------------------------------
\* GKE: the client of the cloud waits until the change is done.

Init_gke(k) == Nets(2)
upgradeGkeControlPlaneVersion(k) == <<Update(Cp, "v", k.v)>> \o Wait("version", Cp, k.v)
updateGkeNodeGroupUpgradeStrategy(k) == <<Update(Pool, "surge", k.surge)>> \o Wait("settled", Pool, 0)
upgradeGkeNodeGroupVersion(k) == <<Update(Pool, "v", k.v)>> \o Wait("version", Pool, k.v)
UpgradeScheduler_gke(k) ==
    upgradeGkeControlPlaneVersion(k) \o updateGkeNodeGroupUpgradeStrategy(k) \o upgradeGkeNodeGroupVersion(k)
SetASGClusterSize_gke(k) == <<Update(Pool, "size", k.size)>> \o Wait("scaled", Pool, k.size)
GetASGClusterSize_gke(k) == <<Net>>
DeleteNode_gke(k) == <<Req("terminate", k.m, 0)>> \o Wait("gone", k.m, 0)

----------------------------------------------------------------------------
\* IKS

Init_iks(k) == Nets(2)
GetResourceGroupID == <<Net>>
\* The condition that should skip this once it is done is never false.
configureIKSClient == (IF Scene.named THEN <<Drop(Net), Drop(Net)>> ELSE Nets(3)) \o GetResourceGroupID
GetCurrentVersion_iks == <<Net>>
UpgradeControlPlane_iks(k) == <<Update(Cp, "v", k.v)>>
WaitForControlPlaneToUpgrade_iks(k) == Poll("version", Cp, k.v)
ReplaceWorker(m) == <<Req("replace", m, 0)>> \o Poll("gone", m, 0)
\* One goroutine of UpgradeWorkerPool: the result of ReplaceWorker goes into the variable err
\* that all of them share, and is read back from it.
ReplaceWorkers(k) ==
    FlattenSeq([i \in DOMAIN k.ms |->
        Guard(ReplaceWorker(k.ms[i]) \o <<Put("err", FALSE)>>, <<Put("err", TRUE)>>) \o <<[do |-> "err"]>>])
UpgradeWorkerPool(k) == <<Net, Spawn("locations", 0), Join, Check("noErrors", 0, 0)>>
WaitForWorkerPoolToUpgrade(k) == Poll("upgraded", 0, k.v)
UpgradeScheduler_iks(k) ==
    configureIKSClient \o GetCurrentVersion_iks \o UpgradeControlPlane_iks(k) \o WaitForControlPlaneToUpgrade_iks(k)
    \o UpgradeWorkerPool(k) \o WaitForWorkerPoolToUpgrade(k)
GetZones_iks(k) == configureIKSClient \o <<Net>>
DeleteNode_iks(k) == configureIKSClient \o ReplaceWorker(k.m)
GetASGClusterSize_iks(k) == configureIKSClient \o <<Net>>
waitForInstanceGroupResize(k) == <<Net>> \o Wait("count", 0, k.size)
SetASGClusterSize_iks(k) == configureIKSClient \o <<Req("resize", 0, k.size)>> \o waitForInstanceGroupResize(k)

----------------------------------------------------------------------------
\* OKE

Init_oke(k) == Nets(2)
\* A cluster that is not in the list leaves the id empty, without an error.
setCluster == <<Req("findCluster", 0, 0)>>
\* The first time only; the flag is set before the cluster is looked up.
configureUser == <<Branch("configured oke", 0, 0)>>
configureUserSteps == <<Req("mkdir", 0, 0), Net, Net, Put("conf", TRUE)>> \o setCluster
getNodePool == <<Ask("cluster", 0, 0)>>
SetASGClusterSize_oke(k) == <<Update(Pool, "size", k.size)>> \o Wait("scaled", Pool, k.size)
GetASGClusterSize_oke(k) == configureUser \o getNodePool
GetZones_oke(k) == <<Net>>
waitForWorkRequest(r) == Poll("settled", r, 0)
setControlPlaneVersion(k) == <<Ask("cluster", 0, 0), Update(Cp, "v", k.v)>> \o waitForWorkRequest(Cp)
getNodeImageIdToUpgrade(k) == getNodePool \o <<Net>>
setNodePoolVersion(k) == getNodeImageIdToUpgrade(k) \o <<Update(Pool, "v", k.v)>> \o waitForWorkRequest(Pool)
getInstanceId(m) == <<Ask("serving", m, 0)>>
DeleteNode_oke(k) == configureUser \o getInstanceId(k.m) \o <<Req("terminate", k.m, 0)>> \o Wait("gone", k.m, 0)
\* One turn of the loop over the nodes: drain and delete it, read the registry and the
\* endpoints again, and wait until the driver is up on every node of the registry.
ReplaceNode(k) ==
    <<Net>> \o DeleteNode_oke(k) \o Try(<<Req("refresh", 0, 0), Ask("endpoints", 0, 0)>>) \o <<Branch("allUp", 0, 0)>>
UpgradeScheduler_oke(k) ==
    configureUser \o setControlPlaneVersion(k) \o getNodePool \o setNodePoolVersion(k) \o <<Net, Branch("eachNode", 0, 0)>>
\* The driver of one node.
WaitForPxPodsToBeUp(m) == Wait("podsUp", m, 0)
WaitDriverUpOnNode(m) == Wait("driverUp", m, 0)
=============================================================================
