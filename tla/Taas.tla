-------------------------------- MODULE Taas --------------------------------
(***************************************************************************)
(* The API server (apiServer/taas): every request runs in a goroutine of its  *)
(* own on the drivers, the node registry and the cluster of the process.  The *)
(* client gets the status of the first answer the handler writes; a panic of  *)
(* the handler is recovered by the router, with the status 500.               *)
(***************************************************************************)
EXTENDS VolumeTriggers

Reply(code) == <<[do |-> "reply", code |-> code]>>
Answered(code) == Reply(code) \o Exit("request")
\* A call whose error is answered, and the end of the request with it.
Or(s, code) == OrElse(s, Answered(code))
Request(steps) == Fn("request", steps) \o <<[do |-> "served", deferred |-> TRUE]>>
\* The body of the request, and the checks of what it must contain.
BindJSON == Or(Ask("BindJSON"), 400)
EachNode(what) == Expand(what)

----------------------------------------------------------------------------
\* The drivers are initialised by the first request that needs them

\* A flag can be defined once in a process.
ParseFlags == If("flagged", "parsed", Panic, Assign("parsed", TRUE))
InitInstance ==
    OrElse(Ask("GetNodes"), Panic)
    \o For(Scene.nodes, LAMBDA n : OrElse(Look("Ready", n), Panic) \o <<[do |-> "register", n |-> n]>>)
    \o OrElse(Ask("NodeDriverInit"), Panic) \o OrElse(Ask("VolumeDriverInit"), Panic)
    \o OrElse(Ask("MonitorInit"), Panic) \o OrElse(Ask("GetDriverVersion"), Panic)
    \o Logged(Ask("RunCommand")) \o OrElse(Ask("GetVolumeDriverNamespace"), Panic)
    \o Logged(Ask("updatePxClusterOpts")) \o Assign("drivers", TRUE)

\* Mutant: the drivers count as initialised before they are.
InitializeDriversLate == ParseFlags \o Assign("IsTorpedoInitDone", TRUE) \o InitInstance
InitializeDrivers == ParseFlags \o InitInstance \o Assign("IsTorpedoInitDone", TRUE)
checkTorpedoInit ==
    If("flagged", "IsTorpedoInitDone", <<>>,
       InitializeDrivers \o If("flagged", "IsTorpedoInitDone", <<>>, Reply(500) \o Answered(500)))

----------------------------------------------------------------------------
\* The handlers of the nodes

GetNodes == checkTorpedoInit \o Reply(200)
GetStorageLessNodes == checkTorpedoInit \o Reply(200)
RebootOne(n) == <<[On("RebootNode", n) EXCEPT !.bad = Answered(400), !.ok = <<[do |-> "did", n |-> n]>>]>>
\* The node of the request is looked for in the registry, which has it or not.
RebootNode(which) ==
    checkTorpedoInit
    \o (CASE which = "all" -> EachNode("rebootAll") \o Answered(200)
          [] which = "random" -> EachNode("rebootRandom") \o Answered(200)
          [] OTHER -> If("registered", which, RebootOne(which) \o Answered(200), Answered(404)))
GetStorageNodes == checkTorpedoInit \o EachNode("devices") \o Reply(200)
\* The errors of the commands that collect are not looked at.
CollectSupport == checkTorpedoInit \o EachNode("diags") \o Reply(200)
\* A node without the driver is answered, and the loop goes on to the last answer.
Installed(n) ==
    Or(Ask("IsDriverInstalled"), 500) \o If("installed", n, <<>>, Reply(400))
IsPxInstalled == checkTorpedoInit \o EachNode("installed") \o Reply(200)
GetPxVersion == checkTorpedoInit \o Or(Ask("GetDriverVersion"), 500) \o Reply(200)
GetPxctlStatusOutput == checkTorpedoInit \o Or(Ask("GetPxctlCmdOutput"), 500) \o Reply(200)
GetNodeStatus == Or(Ask("GetNodes"), 500) \o Reply(200)

----------------------------------------------------------------------------
\* The handlers of applications, namespaces and pods

\* Every application is validated with the same channel, which ValidateContext closes.
ScheduleAppsAndValidate ==
    Make \o checkTorpedoInit \o BindJSON
    \o <<[Ask("Schedule") EXCEPT !.bad = Answered(500), !.ok = FlattenSeq([j \in 1..Scene.list |-> <<[do |-> "deploy"]>>])]>>
    \o Expand("validate") \o <<[do |-> "gather"]>>
    \o If("errors", "none", Answered(500), <<>>) \o Reply(200)

DeleteNS == Or(Ask("DeleteK8sNamespace"), 400) \o Reply(200)
CreateNS == Or(Ask("CreateTempNS"), 500) \o Reply(200)
ExecuteHelmCmd == Or(Ask("BindJSON"), 400) \o Or(Ask("HelmCommand"), 500) \o Reply(200)
GetNamespaceID == Or(Ask("GetNamespace"), 500) \o Reply(200)
\* The names or labels must not be empty.
NotEmpty == Or(Ask("NotEmpty"), 400)
GetVMsInNamespaces ==
    checkTorpedoInit \o BindJSON \o NotEmpty \o Or(Ask("ListVirtualMachines"), 500) \o Or(Ask("ListVirtualMachines"), 500)
    \o Reply(200)
GetVMsWithNamespaceLabels ==
    checkTorpedoInit \o BindJSON \o NotEmpty \o Or(Ask("ListNamespaces"), 500) \o Or(Ask("ListVirtualMachines"), 500)
    \o Reply(200)
\* A namespace that cannot be read is listed in the answer; the error of its update is
\* shadowed in AddNamespaceLabel.
AddNSLabel == checkTorpedoInit \o BindJSON \o NotEmpty \o Logged(Ask("AddNamespaceLabel")) \o Reply(200)
DeletePod ==
    checkTorpedoInit \o BindJSON \o NotEmpty \o NotEmpty \o Or(Ask("DeletePod"), 500) \o Or(Ask("DeletePod"), 500) \o Reply(200)
UpgradeStork == BindJSON \o checkTorpedoInit \o Or(Ask("UpgradeStorkVersion"), 500) \o Reply(200)
GetPxBackupNamespace == checkTorpedoInit \o Or(Ask("GetPxBackupNamespace"), 500) \o Reply(200)
CreateVolumeSnapshotClass ==
    checkTorpedoInit \o BindJSON \o NotEmpty \o Or(Ask("CreateVolumeSnapshotClasses"), 500) \o Reply(200)

\* The routes of main.
Handler(op) ==
    Request(CASE op = "inittorpedo" -> InitializeDrivers
              [] op = "getnodes" -> GetNodes
              [] op = "rebootall" -> RebootNode("all")
              [] op = "rebootrandom" -> RebootNode("random")
              [] op = "rebootn1" -> RebootNode("n1")
              [] op = "rebootother" -> RebootNode("other")
              [] op = "storagenodes" -> GetStorageNodes
              [] op = "storagelessnodes" -> GetStorageLessNodes
              [] op = "collectsupport" -> CollectSupport
              [] op = "scheduleapps" -> ScheduleAppsAndValidate
              [] op \in {"deploypxagent", "runhelmcmd"} -> ExecuteHelmCmd
              [] op = "createns" -> CreateNS
              [] op = "deletens" -> DeleteNS
              [] op = "getclusterid" -> GetNamespaceID
              [] op = "getclusternodestatus" -> GetNodeStatus
              [] op = "pxversion" -> GetPxVersion
              [] op = "ispxinstalled" -> IsPxInstalled
              [] op = "getpxctloutput" -> GetPxctlStatusOutput
              [] op = "getkubevirtvmsbyns" -> GetVMsInNamespaces
              [] op = "getkubevirtvmsbynslabels" -> GetVMsWithNamespaceLabels
              [] op = "addLabel" -> AddNSLabel
              [] op = "stork/upgrade" -> UpgradeStork
              [] op = "deletepod" -> DeletePod
              [] op = "getpxbackupnamespace" -> GetPxBackupNamespace
              [] op = "createvolumesnapshotclass" -> CreateVolumeSnapshotClass)
=============================================================================
