----------------------------- MODULE PxServices -----------------------------
(***************************************************************************)
(* The remaining calls of the Portworx volume driver,                       *)
(* drivers/volume/portworx/portworx.go and schedops/k8s-schedops.go: the     *)
(* upgrade of the cluster, diagnostics, the validation of the pods that use  *)
(* a volume, defragmentation schedules, options, statistics and alerts.      *)
(***************************************************************************)
EXTENDS PxNodes

\* A request to Kubernetes, to another machine or to the shell of the test program.
Kube(verb) == [do |-> "cmd", verb |-> verb, by |-> "name"]
Net == [do |-> "cmd", verb |-> "net", by |-> "name"]

----------------------------------------------------------------------------
\* Upgrades

getStorageCluster == <<Net, Net>>
updateAndValidateStorageCluster ==
    <<Net, Kube("image"), Net, Net>> \o Try(<<Ask("allVersion", "node")>>)
upgradePortworxStorageCluster == <<Net, Net>> \o getStorageCluster \o updateAndValidateStorageCluster
upgradePortworxOperator == <<Net, Net, Kube("operator")>> \o Try(<<Ask("operatorReady", "node")>>)
pullAndPushImagesToPrivateRegistry == <<Net, Net, Net, Net, Net, Net>>
createPxVersionsConfigmap == <<Net, Net, Kube("configmapCreate")>>
WaitForUpgrade(n) == Try(<<Inspect("version", n, "fresh")>>)
upgradePortworxDaemonset ==
    <<Net, Net>> \o getPxVersionOnNode(Head(Workers)) \o <<Kube("image")>> \o OnAll(Workers, WaitForUpgrade)
UpgradeStork == getPxVersionOnNode(Head(Workers)) \o <<[do |-> "storkMin"], Net, Net, Net, Kube("stork")>>

RecreateConfigmap(c) == IF Local(c, "found") THEN createPxVersionsConfigmap ELSE <<>>

OperatorUpgrade(k) ==
    <<[do |-> "configmap"], [do |-> "registry?"], [do |-> "recreate"]>>
        \o (IF k.skipOperator THEN <<>> ELSE upgradePortworxOperator) \o upgradePortworxStorageCluster
DaemonsetUpgrade == upgradePortworxDaemonset \o UpgradeStork
UpgradeDriver(k) == IF k.v = 0 THEN <<Fail>> ELSE <<[do |-> "install"]>>

\* An error of the lookup counts as "no operator", and as "the ConfigMap exists".
IsOperatorBasedInstall(c) ==
    /\ At(c, "install")
    /\ \/ /\ Become(c, th[c].lk, IF k8s.operator THEN OperatorUpgrade(Call(c)) ELSE DaemonsetUpgrade)
          /\ UNCHANGED faults
       \/ Fault /\ Become(c, th[c].lk, DaemonsetUpgrade)
    /\ UNCHANGED pxVars
doesConfigMapExist(c, exists, steps) ==
    /\ \/ UNCHANGED faults /\ Become(c, [th[c].lk EXCEPT !.found = exists], IF exists THEN steps ELSE <<>>)
       \/ Fault /\ Become(c, [th[c].lk EXCEPT !.found = TRUE], steps)
    /\ UNCHANGED pxVars
DeletePxVersions(c) == At(c, "configmap") /\ doesConfigMapExist(c, k8s.configmap, <<Kube("configmapDelete")>>)
\* Whether the registry has a ConfigMap is asked without touching what was found before.
PushImages(c) ==
    /\ At(c, "registry?")
    /\ \/ UNCHANGED faults
          /\ Become(c, th[c].lk, IF k8s.registry THEN pullAndPushImagesToPrivateRegistry ELSE <<>>)
       \/ Fault /\ Become(c, th[c].lk, pullAndPushImagesToPrivateRegistry)
    /\ UNCHANGED pxVars
CreatePxVersions(c) ==
    At(c, "recreate") /\ Become(c, th[c].lk, RecreateConfigmap(c)) /\ UNCHANGED <<pxVars, faults>>
\* Stork is not upgraded with a driver that is too old.
StorkMinVersion(c) ==
    /\ At(c, "storkMin") /\ UNCHANGED <<pxVars, faults>>
    /\ IF px[Head(Workers)].version < Scene.storkMin THEN Return(c, "nil") ELSE Proceed(c)

\* The talisman job: what is created first is deleted last, and only if nothing failed.
UpgradePortworx ==
    <<Net, Kube("binding"), Kube("account"), Kube("job"), Net>> \o Try(<<Ask("allVersion", "node")>>)
        \o <<Kube("jobDelete"), Kube("bindingDelete"), Kube("accountDelete")>>

\* Without a CRD there is nothing to validate.
\* The cluster that is validated is the one an update returned: without an update it is nil.
ValidateDriver(k) ==
    CASE ~k8s.operator -> <<Net>>
      [] k8s.operator /\ k.auto -> <<Net, Net, Net, Net, Net>> \o Try(<<Ask("allVersion", "node")>>)
      [] OTHER -> <<Net, Net, Net, Net, [do |-> "panic"]>>

----------------------------------------------------------------------------
\* Diagnostics

collectDiags(k) ==
    (IF k.stopped THEN GetPxctlCmdOutputConnectionOpts("diags", k.n)
     ELSE <<Inspect("known", k.n, "fresh"), [do |-> "diagsBy", n |-> k.n]>>)
        \o (IF k.validate THEN Try(<<AskOf("diagFile", k.n, "node")>>) ELSE <<>>)
\* A node that is offline is asked by pxctl, another one by the diagnostics server.
DiagsBy(c) ==
    LET n == Step(c).n IN
    /\ At(c, "diagsBy")
    /\ Become(c, th[c].lk, IF Local(c, "st") = "OFFLINE" THEN GetPxctlCmdOutputConnectionOpts("diags", n)
                           ELSE Guard(RunCommand("net", n), <<>>) \o <<Cmd("diags", n)>>)
    /\ UNCHANGED <<pxVars, faults>>

\* An answer that is missing is like a job that runs.
collectDiagsSdk(k) ==
    <<Inspect("known", k.n, "fresh"), Sdk("diagsJob", "get")>> \o Try(<<AskOf("diagsState", k.n, "get")>>)
        \o (IF k.validate THEN Try(<<AskOf("diagFile", k.n, "node")>>) ELSE <<>>)
CollectDiags(k) == IF k.async THEN collectDiagsSdk(k) ELSE collectDiags(k)
ValidateDiagsOnS3(k) ==
    IF k.file = "" THEN <<Fail>>
    ELSE RunCommand("net", k.n) \o Try(<<[final |-> TRUE] @@ Ask("s3", "node")>>)

----------------------------------------------------------------------------
\* The pods that use a volume

\* The pods are listed, then looked at one by one while they come and go.
ValidateVolumeSetup == Try(<<[do |-> "pods"]>>)
PodValidated(p) == p.st = "ready" /\ p.mounted
ListPods(c) ==
    /\ At(c, "pods")
    /\ \/ /\ UNCHANGED faults
          /\ Become(c, [th[c].lk EXCEPT !.ids = SetToSortSeq(k8s.pods, LAMBDA p, q : p.id < q.id), !.count = 0,
                                         !.listed = Cardinality(k8s.pods)], <<[do |-> "pod"]>>)
       \/ Fault /\ Retry(c)
    /\ UNCHANGED pxVars
\* A pod that is gone, is going, is not ready or cannot be read is passed over; one without the mount is
\* an error.  At the end of the list the count is compared with the replicas.
ValidateNextPod(c) ==
    LET ids == Local(c, "ids")
        now == {p \in k8s.pods : p.id = Head(ids).id}
        expected == CASE Local(c, "listed") = 0 -> 0
                      [] Local(c, "listed") > 0 /\ Call(c).shared -> Scene.replicas
                      [] OTHER -> 1
        passed == [th[c].lk EXCEPT !.ids = Tail(ids)]
    IN /\ At(c, "pod")
       /\ \/ /\ ids = <<>> /\ UNCHANGED faults
             /\ IF Local(c, "count") = expected THEN Proceed(c) ELSE Retry(c)
          \/ /\ ids # <<>> /\ UNCHANGED faults
             /\ IF \E p \in now : p.st = "ready" /\ ~PodValidated(p) THEN Retry(c)
                ELSE Become(c, [th[c].lk EXCEPT !.ids = Tail(ids),
                                                !.count = @ + Cardinality({p \in now : PodValidated(p)})],
                            <<[do |-> "pod"]>>)
          \/ ids # <<>> /\ Fault /\ (Retry(c) \/ Become(c, passed, <<[do |-> "pod"]>>))
       /\ UNCHANGED pxVars
\* Kubernetes: pods get ready and mounted, and are moved.
PodProceeds(p) ==
    /\ \/ p.st = "starting" /\ k8s' = [k8s EXCEPT !.pods = (@ \ {p}) \cup {[p EXCEPT !.st = "ready"]}]
       \/ ~p.mounted /\ p.st = "ready" /\ k8s' = [k8s EXCEPT !.pods = (@ \ {p}) \cup {[p EXCEPT !.mounted = TRUE]}]
       \/ p.st = "leaving" /\ k8s' = [k8s EXCEPT !.pods = @ \ {p}]
    /\ UNCHANGED <<px, vols, lastId, drv, scene, th, faults>>
PodMoves(p) ==
    /\ p.st = "ready" /\ Fault
    /\ k8s' = [k8s EXCEPT !.pods = (@ \ {p}) \cup {[p EXCEPT !.st = "leaving"],
                                                   [id |-> p.id + 10, st |-> "starting", mounted |-> FALSE]}]
    /\ UNCHANGED <<px, vols, lastId, drv, scene, th>>

----------------------------------------------------------------------------
\* Defragmentation schedules, options, statistics, alerts

CreateDefragSchedule == <<Sdk("defragCreate", "get")>>
DeleteDefragSchedule == <<Sdk("defragDelete", "get")>>
CleanUpDefragSchedules == <<Sdk("defragClean", "get")>>
ValidateDefragScheduleIdDeleted == <<Ask("defragGone", "get")>>
\* "Not yet" comes without an error, which ends the retries.
ValidatesDefragSchedulesTrigger == Try(<<Ask("reply", "get")>>)
ValidateLastDefragScheduleStatus == Try(<<Ask("reply", "get")>>) \o <<Ask("defragged", "node")>>
SetClusterOpts(k) == GetPxctlCmdOutputConnectionOpts("net", k.n)
SetClusterRunTimeOpts(k) == RunCommand("net", k.n)
SetClusterOptsWithConfirmation(k) == RunCommand("net", k.n)
GetClusterOpts(k) == RunCommand("net", k.n)
ToggleCallHome(k) == RunCommand("net", k.n)
RunSecretsLogin(k) == RunCommand("net", k.n)
GetNodeStats(k) == GetPxctlCmdOutputConnectionOpts("net", k.n)
GetTrashCanVolumeIds(k) == GetPxctlCmdOutputConnectionOpts("net", k.n)
GetPoolDrives(k) == RunCommand("net", k.n)
GetNodePools(k) == RunCommand("net", k.n)
GetNodePoolsStatus(k) == RunCommand("net", k.n)
GetPoolsUsedSize(k) == Try(<<Cmd("net", k.n)>>)
UpdatePoolLabels(k) == <<Cmd("net", k.n)>>
GetPoolLabelValue == ListStoragePools
IsIOsInProgressForTheVolume(k) == <<Cmd("net", k.n)>>
ValidatePureFaFbMountOptions(k) == <<Cmd("net", k.n)>>
ValidatePureFaCreateOptions(k) == <<Cmd("net", k.n), Cmd("net", k.n), Cmd("net", k.n)>>
ValidateVolumeInPxctlList(k) == <<Ask("factor", "node")>>
EnableSkinnySnap(k) == <<Cmd("net", k.n)>>
UpdateSkinnySnapReplNum(k) == <<Cmd("net", k.n)>>
GetCloudsnaps == <<Ask("reply", "raw")>>
GetCloudsnapsOfGivenVolume == <<Ask("reply", "raw")>>
DeleteAllCloudsnaps == <<Sdk("net", "raw")>>
GetAlerts == <<Ask("reply", "raw")>>
GetLicenseSummary == <<Ask("reply", "get"), Ask("reply", "get")>>
IsNodeInMaintenance(k) == <<Inspect("known", k.n, "fresh")>>
\* The client moves to the node first.
GetJournalDevicePath(k) == <<[do |-> "connect", n |-> k.n]>> \o Try(<<Ask("journal", "raw")>>)
\* By a connection of its own.
GetAutoFsTrimStatus == <<Ask("reply", "node")>>
GetAutoFsTrimUsage == <<Ask("reply", "node")>>
IsStorageExpansionEnabled == Guard(RefreshDriverEndpoints, <<>>) \o <<Net>>
GetNodePureVolumeAttachedCountMap == <<List("count")>>
\* The answer of the pairing service is used whether there is one or not.
GetClusterPairingInfo == <<Net, Net, [panic |-> TRUE] @@ Ask("reply", "node"), Net>>
\* The alerts since the restore, the volume, and its snapshot, which may be gone.
ValidateVolumeSnapshotRestore == 
    <<Ask("reply", "raw"), Find("get")>> \o Guard(<<Ask("reply", "raw")>>, <<>>) \o <<Ask("restored", "raw")>>

ServiceProgram(k) ==
    CASE k.op = "UpgradeDriver" -> UpgradeDriver(k)
      [] k.op = "UpgradePortworx" -> UpgradePortworx
      [] k.op = "ValidateDriver" -> ValidateDriver(k)
      [] k.op = "CollectDiags" -> CollectDiags(k)
      [] k.op = "ValidateDiagsOnS3" -> ValidateDiagsOnS3(k)
      [] k.op = "ValidateVolumeSetup" -> ValidateVolumeSetup
      [] k.op = "CreateDefragSchedule" -> CreateDefragSchedule
      [] k.op = "DeleteDefragSchedule" -> DeleteDefragSchedule
      [] k.op = "CleanUpDefragSchedules" -> CleanUpDefragSchedules
      [] k.op = "ValidateDefragScheduleIdDeleted" -> ValidateDefragScheduleIdDeleted
      [] k.op = "ValidatesDefragSchedulesTrigger" -> ValidatesDefragSchedulesTrigger
      [] k.op = "ValidateLastDefragScheduleStatus" -> ValidateLastDefragScheduleStatus
      [] k.op = "SetClusterOpts" -> SetClusterOpts(k)
      [] k.op = "SetClusterRunTimeOpts" -> SetClusterRunTimeOpts(k)
      [] k.op = "SetClusterOptsWithConfirmation" -> SetClusterOptsWithConfirmation(k)
      [] k.op = "GetClusterOpts" -> GetClusterOpts(k)
      [] k.op = "ToggleCallHome" -> ToggleCallHome(k)
      [] k.op = "RunSecretsLogin" -> RunSecretsLogin(k)
      [] k.op = "GetNodeStats" -> GetNodeStats(k)
      [] k.op = "GetTrashCanVolumeIds" -> GetTrashCanVolumeIds(k)
      [] k.op = "GetPoolDrives" -> GetPoolDrives(k)
      [] k.op = "GetNodePools" -> GetNodePools(k)
      [] k.op = "GetNodePoolsStatus" -> GetNodePoolsStatus(k)
      [] k.op = "GetPoolsUsedSize" -> GetPoolsUsedSize(k)
      [] k.op = "UpdatePoolLabels" -> UpdatePoolLabels(k)
      [] k.op = "GetPoolLabelValue" -> GetPoolLabelValue
      [] k.op = "IsIOsInProgressForTheVolume" -> IsIOsInProgressForTheVolume(k)
      [] k.op = "ValidatePureFaFbMountOptions" -> ValidatePureFaFbMountOptions(k)
      [] k.op = "ValidatePureFaCreateOptions" -> ValidatePureFaCreateOptions(k)
      [] k.op = "ValidateVolumeInPxctlList" -> ValidateVolumeInPxctlList(k)
      [] k.op = "EnableSkinnySnap" -> EnableSkinnySnap(k)
      [] k.op = "UpdateSkinnySnapReplNum" -> UpdateSkinnySnapReplNum(k)
      [] k.op = "GetCloudsnaps" -> GetCloudsnaps
      [] k.op = "GetCloudsnapsOfGivenVolume" -> GetCloudsnapsOfGivenVolume
      [] k.op = "DeleteAllCloudsnaps" -> DeleteAllCloudsnaps
      [] k.op = "GetAlerts" -> GetAlerts
      [] k.op = "GetLicenseSummary" -> GetLicenseSummary
      [] k.op = "IsNodeInMaintenance" -> IsNodeInMaintenance(k)
      [] k.op = "GetJournalDevicePath" -> GetJournalDevicePath(k)
      [] k.op = "GetAutoFsTrimStatus" -> GetAutoFsTrimStatus
      [] k.op = "GetAutoFsTrimUsage" -> GetAutoFsTrimUsage
      [] k.op = "IsStorageExpansionEnabled" -> IsStorageExpansionEnabled
      [] k.op = "GetNodePureVolumeAttachedCountMap" -> GetNodePureVolumeAttachedCountMap
      [] k.op = "GetClusterPairingInfo" -> GetClusterPairingInfo
      [] k.op = "ValidateVolumeSnapshotRestore" -> ValidateVolumeSnapshotRestore
      [] OTHER -> NodeProgram(k)

----------------------------------------------------------------------------
\* What Kubernetes and the cluster do with a request

Talisman == {"binding", "account", "job"}
ServiceRefused(c) ==
    CASE Step(c).verb \in Talisman -> Step(c).verb \in k8s.talisman
      [] Step(c).verb = "configmapDelete" -> ~k8s.configmap
      [] Step(c).verb = "configmapCreate" -> k8s.configmap
      [] Step(c).verb = "defragDelete" -> Call(c).v \notin k8s.defrag
      [] OTHER -> FALSE
ServiceBecomes(c) ==
    LET verb == Step(c).verb
    IN CASE verb = "net" -> k8s
         [] verb = "image" -> [k8s EXCEPT !.image = Call(c).v]
         [] verb = "operator" -> [k8s EXCEPT !.opVersion = Call(c).v]
         [] verb = "stork" -> [k8s EXCEPT !.stork = Call(c).v]
         [] verb = "configmapCreate" -> [k8s EXCEPT !.configmap = TRUE]
         [] verb = "configmapDelete" -> [k8s EXCEPT !.configmap = FALSE]
         [] verb \in {"binding", "account"} -> [k8s EXCEPT !.talisman = @ \cup {verb}]
         [] verb = "job" -> [k8s EXCEPT !.talisman = @ \cup {"job"}, !.image = Call(c).v]
         [] verb = "jobDelete" -> [k8s EXCEPT !.talisman = @ \ {"job"}]
         [] verb = "bindingDelete" -> [k8s EXCEPT !.talisman = @ \ {"binding"}]
         [] verb = "accountDelete" -> [k8s EXCEPT !.talisman = @ \ {"account"}]
         [] verb = "defragCreate" -> [k8s EXCEPT !.defrag = @ \cup {Call(c).v}]
         [] verb = "defragDelete" -> [k8s EXCEPT !.defrag = @ \ {Call(c).v}]
         [] verb = "defragClean" -> [k8s EXCEPT !.defrag = {}]
ServiceServed(c) == k8s' = ServiceBecomes(c) /\ UNCHANGED <<px, vols, lastId>>

ServiceQuestions == {"allVersion", "operatorReady", "s3", "defragGone"}
ServiceAnswer(c) ==
    LET q == Step(c).q
    IN CASE q = "allVersion" -> ok(\A n \in drv.nodes : px[n].version = Call(c).v)
         [] q = "operatorReady" -> ok(k8s.opVersion = Call(c).v)
         [] q = "s3" -> ok(px[Call(c).n].diags = "done")
         [] q = "defragGone" -> IF Call(c).v \in k8s.defrag THEN "error" ELSE "ok"

Panic(c) == At(c, "panic") /\ Return(c, "panic") /\ UNCHANGED <<pxVars, faults>>
\* Connecting to a node is tried, and the failure only logged.
Connect(c) ==
    /\ At(c, "connect") /\ Proceed(c)
    /\ \/ drv' = testAndSetEndpoint(drv, Step(c).n, "none") /\ UNCHANGED faults
       \/ Fault /\ \E how \in {"port", "legacy"} : drv' = testAndSetEndpoint(drv, Step(c).n, how)
    /\ UNCHANGED <<px, vols, lastId, k8s>>
\* The volumes of the list are inspected one by one.
CountAttached(c) ==
    LET ids == Local(c, "ids") IN
    /\ At(c, "count")
    /\ \/ ids = <<>> /\ Proceed(c) /\ UNCHANGED faults
       \/ /\ ids # <<>> /\ UNCHANGED faults
          /\ IF WithId(Head(ids)) = {} \/ ~Answers(drv.ep) THEN Error(c)
             ELSE Become(c, [th[c].lk EXCEPT !.ids = Tail(ids)], <<[do |-> "count"]>>)
       \/ ids # <<>> /\ Fault /\ Error(c)
    /\ UNCHANGED pxVars

ServiceStep(c) ==
    \/ IsOperatorBasedInstall(c) \/ DeletePxVersions(c) \/ PushImages(c) \/ CreatePxVersions(c)
    \/ StorkMinVersion(c) \/ DiagsBy(c) \/ ListPods(c) \/ ValidateNextPod(c) \/ Panic(c) \/ Connect(c) \/ CountAttached(c)
=============================================================================
