---------------------------- MODULE NodeDrivers -----------------------------
(***************************************************************************)
(* The node drivers: commands on a node over SSH or through a debug pod, the *)
(* virtual machines of vSphere, and the workers of IBM cloud, AWS and OCI.  *)
(* The transport of a command is chosen from the environment every time one *)
(* is run.  Then the scheduler drivers of OpenShift and Anthos, whose       *)
(* clusters the test program upgrades through commands on their own nodes,  *)
(* and whose nodes it recycles together with the node driver and the volume *)
(* driver.                                                                  *)
(***************************************************************************)
EXTENDS ClusterUpgrades

----------------------------------------------------------------------------
\* ssh.go

\* The command itself; ignoreErr drops its error.
Shell(m, cmd, ignoreErr) == LET s == Run(m, cmd) IN IF ignoreErr THEN Drop(s) ELSE s
Context(m, create, ignoreErr) == LET s == Req(IF create THEN "create context" ELSE "delete context", m, 0) IN IF ignoreErr THEN Drop(s) ELSE s
\* The debug pod is looked up, and the command run in it.
doCmdUsingPod(m, steps) == <<Ask("debugPod", m, 0)>> \o steps
doCmdUsingPodWithoutRetry(m, cmd) == <<Final(Ask("debugPod", m, 0)), Final(Shell(m, cmd, FALSE))>>
getConnectionOnUsableAddr(m) == <<Ask("usableAddr", m, 0)>>
doCmdSSH(m, cmd, ignoreErr) == getConnectionOnUsableAddr(m) \o <<Net, Shell(m, cmd, ignoreErr)>>
Transport(m, o) == [do |-> "branch", what |-> "transport", on |-> m, options |-> o]
\* Inside the closure of its caller.
doCmd(m, cmd, ignoreErr) == <<Transport(m, [cmd |-> cmd, ignore |-> ignoreErr, alone |-> FALSE])>>
\* Not inside a closure: the polls of doCmdUsingPod and of the dial are the only ones.
doCmdAlone(m, cmd, ignoreErr) == <<Transport(m, [cmd |-> cmd, ignore |-> ignoreErr, alone |-> TRUE])>>
Secured(cmd) == Scene.token /\ cmd = "pxctl"
doCmdSteps(m, o) ==
    LET closure(steps) == IF o.alone THEN Try(steps) ELSE steps
        inPod(s) == closure(doCmdUsingPod(m, <<s>>))
    IN IF misc.env
       THEN closure(getConnectionOnUsableAddr(m)) \o <<Net, Shell(m, o.cmd, o.ignore)>>
       ELSE (IF Secured(o.cmd) THEN inPod(Context(m, TRUE, o.ignore)) ELSE <<>>)
            \o inPod(Shell(m, o.cmd, o.ignore))
            \o (IF Secured(o.cmd) THEN inPod(Context(m, FALSE, o.ignore)) ELSE <<>>)

TestConnection(m) == doCmdAlone(m, "date", FALSE)
RebootNode(m) == Try(doCmd(m, "reboot -f", TRUE))
RebootNodeAndWait(m) == RebootNode(m) \o TestConnection(m) \o <<Ask("ready", m, 0)>>
CrashNode(k) == Try(doCmd(k.m, "crash", TRUE))
ShutdownNode(k) == Try(doCmd(k.m, "halt", TRUE))
InjectNetworkError(m, op) == Try(doCmd(m, op, TRUE))
\* Only an address that does not answer is worth a reboot.
Fallback(m, op) == <<Check("dialled", m, 0)>> \o RebootNodeAndWait(m) \o InjectNetworkError(m, op)
InjectOn(m, op) == Guard(InjectNetworkError(m, op), Fallback(m, op))
InjectNetworkErrorWithRebootFallback(k) == FlattenSeq([i \in DOMAIN k.ms |-> InjectOn(k.ms[i], k.cmd)])
YankDrive(k) == doCmdAlone(k.m, "lsscsi", FALSE) \o doCmdAlone(k.m, "yank", FALSE)
RecoverDrive(k) == doCmdAlone(k.m, "rescan", FALSE)
RunCommand(m, cmd) == Try(doCmd(m, cmd, FALSE))
\* The context is deleted before the error of the command is returned.
RunCommandWithNoRetry(k) ==
    LET context(create) == IF Secured(k.cmd) THEN Try(doCmdUsingPod(k.m, <<Context(k.m, create, FALSE)>>)) ELSE <<>>
    IN IF misc.env THEN doCmdSSH(k.m, k.cmd, FALSE)
       ELSE context(TRUE) \o Guard(doCmdUsingPodWithoutRetry(k.m, k.cmd), context(FALSE) \o <<Fail>>) \o context(FALSE)
FindFiles(m) == Try(doCmd(m, "find", TRUE))
SystemCheck(k) == FindFiles(k.m)
Systemctl(m, action) == Try(doCmd(m, action, FALSE))
SystemctlUnitExist(m) == Try(doCmd(m, "list-units", FALSE))
GetBlockDrives(k) == Try(doCmd(k.m, "lsblk", FALSE))
\* An empty answer is asked for again; the answer of multipath is indexed, empty or not.
IsNodeRebootedInGivenTimeRange(k) == Try(doCmd(k.m, "uptime", TRUE) \o <<Check("output", k.m, 0)>>)
GetDeviceMapperCount(k) == Try(doCmd(k.m, "multipath", TRUE)) \o <<Check("firstField", k.m, 0)>>
GetExecPodNamespace == <<Net>>
initSSH == <<Put("sshInit", TRUE)>>
\* A secret that is already there is used.
createDockerRegistrySecret == IF ~Scene.registry THEN <<>> ELSE IF misc.secret THEN Nets(2) ELSE <<Setting("secret", TRUE)>>
initExecPod == <<Branch("debugDaemonSet", 0, 0), Net>>
updateDriver == GetExecPodNamespace \o <<Branch("initTransport", 0, 0), Branch("testAll", 0, 0)>>

----------------------------------------------------------------------------
\* vsphere.go: the virtual machines by the name of their node, read again by every function.

getVMFinder == Nets(2)
connect_vsphere == getVMFinder \o <<Here("forget", 0, 0), Net, Here("fill", 0, 0)>>
Mapped(m) == <<Check("mapped", m, 0)>>
Init_vsphere(k) == connect_vsphere \o updateDriver
\* A virtual machine that is not found is looked for once more, two minutes later.
TestConnection_vsphere(k) ==
    connect_vsphere \o <<Branch("reconnect", k.m, 0)>> \o Wait("poweredOn", k.m, 0) \o RunCommand(k.m, "hostname")
AddMachine(m) == getVMFinder \o <<Req("addMachine", m, 0)>>
RebootNode_vsphere(k) == connect_vsphere \o Mapped(k.m) \o <<Guest(k.m, "reboot")>>
powerOnVM(m) == <<Ask("exists", m, 0), Req("powerOn", m, 0)>>
PowerOnVM(k) == connect_vsphere \o Mapped(k.m) \o powerOnVM(k.m)
PowerOnVMByName(m) == connect_vsphere \o <<Branch("addIfMissing", m, 0)>> \o Mapped(m) \o powerOnVM(m)
PowerOffVM(m) == connect_vsphere \o Mapped(m) \o <<Req("powerOff", m, 0)>>
DestroyVM(k) == connect_vsphere \o Mapped(k.m) \o <<Req("destroy", k.m, 0)>>
ShutdownNode_vsphere(k) == connect_vsphere \o Mapped(k.m) \o <<Guest(k.m, "halt")>>
GetDiskPaths(m) == SetToSeq(ms[m].disks)
\* The map is emptied, and nothing fills it.
DetachDisk(m, disk) == getVMFinder \o <<Here("forget", 0, 0), Net, Ask("exists", m, 0), Net, Req("detach", m, disk)>>
DetachDrivesFromVM(k) == LET paths == GetDiskPaths(k.m) IN FlattenSeq([i \in DOMAIN paths |-> DetachDisk(k.m, paths[i])])
\* Mutant: a disk is on both machines for a while.
MoveDisksOneByOne(k) ==
    LET disks == GetDiskPaths(k.m) IN
    FlattenSeq([i \in DOMAIN disks |-> <<Req("attach", k.to, disks[i]), Req("detach", k.m, disks[i])>>])
\* All the disks of the source but the root disk, first detached one by one, then attached.
MoveDisksSteps(k) ==
    LET disks == GetDiskPaths(k.m) IN
    [i \in DOMAIN disks |-> Req("detach", k.m, disks[i])] \o [i \in DOMAIN disks |-> Req("attach", k.to, disks[i])]
MoveDisks(k) == connect_vsphere \o Mapped(k.m) \o Mapped(k.to) \o <<Net>> \o MoveDisksSteps(k)
RemoveNonRootDisks(k) ==
    LET disks == GetDiskPaths(k.m) IN
    connect_vsphere \o Mapped(k.m) \o <<Net>> \o [i \in DOMAIN disks |-> Req("detach", k.m, disks[i])]
FindVMByIP(m) == getVMFinder \o <<Net, Ask("exists", m, 0)>>

----------------------------------------------------------------------------
\* ibm.go, aws.go and oracle.go

loginToIBMCloud == Nets(2)
ClusterInfo == <<Net>>
GetWorkers == loginToIBMCloud \o ClusterInfo \o <<Net>>
DeleteNode_ibm(k) == loginToIBMCloud \o <<Req("terminate", k.m, 0)>>
RemoveWorkerNode(k) == loginToIBMCloud \o ClusterInfo \o <<Req("terminate", k.m, 0)>>
ReplaceWorkerNodeWithUpdate(k) == loginToIBMCloud \o ClusterInfo \o <<Req("replace", k.m, 0)>>
SetClusterVersion(k) == loginToIBMCloud \o <<Update(Cp, "v", k.v)>>
RebalanceWorkerPool(k) == loginToIBMCloud \o <<Net>>
GetNodeState(k) == loginToIBMCloud \o <<Ask("exists", k.m, 0)>>
GetCluster(k) == loginToIBMCloud \o ClusterInfo \o <<Net, Ask("listed", 0, 0)>>
addZones == GetWorkers \o <<Branch("zones", 0, 0)>>
waitForClusterReady == Poll("clusterState", Cp, 0)
Listed == [do |-> "list"]
\* The workers are listed once, before the wait; an error of one look ends it.
waitForWorkersToBeReady == GetWorkers \o <<Listed>> \o Poll("workersReady", 0, 0)
AddWorkerPool(k) ==
    loginToIBMCloud \o ClusterInfo \o <<Req("newPool", 0, k.size)>> \o addZones \o waitForClusterReady \o waitForWorkersToBeReady

\* The instances are listed when the driver is initialised, and not again.
getAllInstances_aws == <<Req("instances", 0, 0)>>
getNodeIDByPrivAddr(m) == <<Check("instance", m, 0)>>
connect_aws(m) == Try(<<Ask("success", m, 0)>>)
TestConnection_aws(m) == getNodeIDByPrivAddr(m) \o <<Send(m, "uptime")>> \o connect_aws(m)
Init_aws(k) == <<Drop(Net)>> \o getAllInstances_aws \o <<Branch("testAllInstances", 0, 0)>>
RebootNode_aws(k) == getNodeIDByPrivAddr(k.m) \o <<Guest(k.m, "reboot")>>
ShutdownNode_aws(k) == getNodeIDByPrivAddr(k.m) \o <<Guest(k.m, "halt")>>
DeleteNode_aws(k) == getNodeIDByPrivAddr(k.m) \o <<Req("terminate", k.m, 0)>>

\* The client of the cloud waits until the change is done.
SetClusterVersion_oracle(k) ==
    <<Update(Cp, "v", k.v)>> \o Wait("settled", Cp, 0) \o <<Update(Pool, "v", k.v)>> \o Wait("settled", Pool, 0)
SetASGClusterSize_oracle(k) == <<Update(Pool, "size", k.size)>> \o Wait("scaled", Pool, k.size)
GetASGClusterSize_oracle(k) == <<Net>>
DeleteNode_oracle(k) == <<Ask("exists", k.m, 0), Req("terminate", k.m, 0)>> \o Wait("gone", k.m, 0)

----------------------------------------------------------------------------
\* OpenShift: the upgrade

downloadOCP4Client == Nets(4)
getClientVersion == Try(<<Net>>)
getParsedVersion == <<Net>>
needOcpPrereq == getParsedVersion \o <<Net>>
configureClusterMonitoringConfig == <<Net, Branch("monitoring", 0, 0)>>
updatePrometheusAndAutopilot == <<Net>> \o configureClusterMonitoringConfig \o <<Net, Setting("prom", TRUE)>>
setOcpPrometheusPrereq(k) == needOcpPrereq \o (IF k.prereq THEN updatePrometheusAndAutopilot ELSE <<>>)
\* One look: a generation that has not changed ends this wait, and the closure around it runs
\* again, patch included.
waitForNewGenertionNumber == <<Ask("observed", 0, 0)>>
getCurrentChannel == <<Net>>
selectChannel(k) == getCurrentChannel \o <<Branch("channel", 0, k.v)>>
getGenerationNumber == <<Net, [do |-> "generation"]>>
setChannel(v) == getGenerationNumber \o Try(<<Req("channel", 0, v)>> \o waitForNewGenertionNumber)
ackAPIRemoval(k) == getParsedVersion \o (IF k.ack THEN Try(<<Req("ack", 0, k.v)>>) ELSE <<>>)
updateMaxUnavailableWorkerMCP(k) ==
    IF k.surge = 0 THEN <<>> ELSE Try(<<Req("mcp", 0, k.surge), Ask("mcp", 0, k.surge)>>)
getImageSha == <<Final(Net)>>
\* The arguments of the command outlive the closure: a run after the first uses those the
\* refusal led to.
startUpgrade(k) == Try(<<Branch("adm upgrade", 0, k.v)>>) \o Wait("desired", Cp, k.v)
\* The history may not list the version.
waitUpgradeCompletion == Wait("progressed", Cp, 0)
waitNodesToBeReady == Wait("sameVersion", 0, 0)
UpgradeScheduler_ocp(k) ==
    downloadOCP4Client \o <<Net>> \o getClientVersion \o setOcpPrometheusPrereq(k) \o selectChannel(k) \o ackAPIRemoval(k)
    \o updateMaxUnavailableWorkerMCP(k) \o startUpgrade(k) \o waitUpgradeCompletion \o waitNodesToBeReady

----------------------------------------------------------------------------
\* OpenShift: machines

\* kubectl returns once the machine is gone.
deleteAMachine(k) == Try(<<Req("deleteMachine", k.m, 0), Until("gone", k.m, 0)>>)
getMachinesCount == <<Net>>
getMachineSetName == <<Net>>
\* The machine created last, whichever it is; a virtual machine that is off is powered on once.
getAndWaitMachineToBeReady == <<[do |-> "untried"]>> \o Try(<<Net, Branch("newest", 0, 0)>>)
waitForJoinK8sNode == Wait("ready", New, 0)
\* The name is empty whenever there is an error, so nothing is deleted before the second wait.
checkAndGetNewNode == Guard(getAndWaitMachineToBeReady, getAndWaitMachineToBeReady) \o waitForJoinK8sNode
validateDrivesAfterNewNodePickUptheID(k) == IF k.storage THEN Wait("idMoved", k.m, 0) \o <<Net>> ELSE <<>>
DeleteNode_ocp(k) ==
    <<Check("worker", k.m, 0)>> \o Nets(2) \o (IF Scene.vsphere THEN PowerOffVM(k.m) ELSE <<>>)
    \o <<Spawn("recycle", k.m), Join, Check("groupNil", 0, 0), Here("deregister", k.m, 0)>>
    \o checkAndGetNewNode \o <<Net, Here("register", New, 0)>> \o WaitForPxPodsToBeUp(New)
    \o validateDrivesAfterNewNodePickUptheID(k) \o <<Net>> \o WaitDriverUpOnNode(New)
\* Only growth ends the wait.
SetASGClusterSize_ocp(k) ==
    getMachinesCount \o <<Listed>> \o getMachineSetName \o <<Req("resize", 0, k.size)>> \o Wait("grown", 0, 0) \o checkAndGetNewNode
GetASGClusterSize_ocp(k) == getMachinesCount

createTorpedoSecurityContextConstraints == <<Net, Setting("scc", TRUE)>>
updateSecurityContextConstraints == <<Net, Branch("constraints", 0, 0), Net>>
Schedule_ocp(k) == updateSecurityContextConstraints \o Nets(2)
StopSchedOnNode(k) == Systemctl(k.m, "kubelet stop")
StartSchedOnNode(k) == Systemctl(k.m, "kubelet start")
getServiceName(k) == SystemctlUnitExist(k.m)
SaveSchedulerLogsToFile(k) == getServiceName(k) \o RunCommand(k.m, "journalctl")

----------------------------------------------------------------------------
\* Anthos: every command on the admin workstation is run over SSH, which the environment turns
\* on for the whole process.

setUserNameAndKey == <<Put("env", TRUE)>>
unsetUserNameAndKey == <<Put("env", FALSE)>>
\* An error returns before the environment is restored.
execOnAdminWSNode(body) == setUserNameAndKey \o Try(body) \o unsetUserNameAndKey
Exec == execOnAdminWSNode(<<Net>>)
getVersion == Exec \o <<Here("known", 0, 0)>>
getUserClusterName == Exec
Init_anthos(k) ==
    <<Net>> \o setUserNameAndKey \o initSSH \o <<Net>> \o unsetUserNameAndKey \o getVersion \o getUserClusterName
\* Against the version read by Init.
VerifyUpgradeVersion(k) == <<Check("hop", 0, k.v)>>
loadInstances == <<Net>>
downloadAndInstallGsutils == Nets(5)
updateGkeadmUtil == Nets(2)
updateAdminWorkstationNode == Nets(2)
getExecPath == Nets(2)
upgradeAdminWorkstation(k) ==
    updateGkeadmUtil \o updateAdminWorkstationNode \o getExecPath \o <<Req("ws", 0, k.v)>>
    \o setUserNameAndKey \o Guard(Wait("wsUp", 0, 0), unsetUserNameAndKey \o <<Fail>>) \o unsetUserNameAndKey
startLogCollector == <<Here("collect", 0, 0)>>
\* The channel has no buffer: the collector is met at its select.
stopLogCollector == <<[do |-> "stop"]>>
updateFileOwnership == Exec
upgradeUserCluster(k) ==
    Exec \o startLogCollector \o Exec \o execOnAdminWSNode(<<Update(Cp, "v", k.v), Until("rolled", Cp, k.v)>>)
    \o updateFileOwnership \o stopLogCollector
getStartTimeForNodePoolUpgrade == Exec
checkUserClusterNodesUpgradeTime == getStartTimeForNodePoolUpgrade \o Nets(3) \o <<Check("fastEnough", 0, 0)>>
upgradeAdminCluster == Exec \o Exec \o updateFileOwnership
updateNodeInstance == Nets(2)
\* The error of the write is not the one that is looked at.
saveInstance == <<Drop(Net)>>
invokeUpgradeAdminCluster == upgradeAdminCluster \o updateNodeInstance \o saveInstance
UpgradeScheduler_anthos(k) ==
    VerifyUpgradeVersion(k) \o loadInstances \o downloadAndInstallGsutils \o upgradeAdminWorkstation(k) \o upgradeUserCluster(k)
    \o <<Req("refresh", 0, 0)>> \o checkUserClusterNodesUpgradeTime \o (IF k.admin THEN invokeUpgradeAdminCluster ELSE <<>>)
DeleteNode_anthos(k) == getUserClusterName \o Try(<<Req("deleteMachine", k.m, 0)>>)
============================================================================
