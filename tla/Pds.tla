-------------------------------- MODULE Pds --------------------------------
(***************************************************************************)
(* The PDS drivers at work: the test case calls one function after the       *)
(* other, starts the goroutines of a resiliency test, and meets a control    *)
(* plane and a cluster that move by themselves.                              *)
(***************************************************************************)
EXTENDS PdsControl

vars == <<scene, th, faults, objs, ss, up, errs, glob>>

\* The function a call names.
Program(k) ==
    CASE k.op = "ApiMethod" -> ApiMethod(k)
      [] k.op = "GetContext" -> GetContext(k)
      [] k.op = "CreateSiAndIamRoleBindings" -> CreateSiAndIamRoleBindings(k)
      [] k.op = "DeleteAppConfigTemplates" -> DeleteAppConfigTemplates(k)
      [] k.op = "DeleteStorageConfigTemplates" -> DeleteStorageConfigTemplates(k)
      [] k.op = "DeleteResourceSettingTemplates" -> DeleteResourceSettingTemplates(k)
      [] k.op = "CreateCustomResourceTemplate" -> CreateCustomResourceTemplate(k)
      [] k.op = "UpdateCustomResourceTemplates" -> UpdateCustomResourceTemplates(k)
      [] k.op = "UpdateCustomStorageTemplates" -> UpdateCustomStorageTemplates(k)
      [] k.op = "CleanupCustomTemplates" -> CleanupCustomTemplates(k)
      [] k.op = "RegisterClusterToControlPlane" -> RegisterClusterToControlPlane(k)
      [] k.op = "RegisterToControlPlane" -> RegisterToControlPlane(k)
      [] k.op = "DeRegisterFromControlPlane" -> DeRegisterFromControlPlane(k)
      [] k.op = "UpdateTargetClusterWithClusterIssuer" -> UpdateTargetClusterWithClusterIssuer(k)
      [] k.op = "GetDeploymentTargetID" -> GetDeploymentTargetID(k)
      [] k.op = "TriggerDeployDataService" -> TriggerDeployDataService(k)
      [] k.op = "DeployPDSDataservices" -> DeployPDSDataservices(k)
      [] k.op = "UpdateDataServicesWithTLS" -> UpdateDataServicesWithTLS(k)
      [] k.op = "CreatePostgreSQLClientAndConnect" -> CreatePostgreSQLClientAndConnect(k)
      [] k.op = "ValidateIfTLSEnabled" -> ValidateIfTLSEnabled(k)
      [] k.op = "WhoAmI" -> WhoAmI(k)
      [] k.op = "ExecuteCommandInStatefulSetPod" -> ExecuteCommandInStatefulSetPod(k)
      [] k.op = "DeleteS3MinioBucket" -> DeleteS3MinioBucket(k)
      [] k.op = "DeleteBucket_aws" -> DeleteBucket_aws(k)
      [] k.op = "ListFolders" -> ListFolders(k)
      [] k.op = "KillPodsInNamespace" -> KillPodsInNamespace_cluster(k)
      [] k.op = "UpdateDataServices" -> UpdateDataServices(k)
      [] k.op = "TriggerDeployDSWithSiAndTls" -> TriggerDeployDSWithSiAndTls(k)
      [] k.op = "CreateAwsS3MinioBackupCredsAndTarget" -> CreateAwsS3MinioBackupCredsAndTarget(k)
      [] k.op = "CreateAwsS3BackupCredsAndTarget" -> CreateAwsS3BackupCredsAndTarget(k)
      [] k.op = "CreateAzureBackupCredsAndTarget" -> CreateAzureBackupCredsAndTarget(k)
      [] k.op = "CreateGcpBackupCredsAndTarget" -> CreateGcpBackupCredsAndTarget(k)
      [] k.op = "DeleteAwsS3BackupCredsAndTarget" -> DeleteAwsS3BackupCredsAndTarget(k)
      [] k.op = "DeleteAzureBackupCredsAndTarget" -> DeleteAzureBackupCredsAndTarget(k)
      [] k.op = "DeleteGoogleBackupCredsAndTarget" -> DeleteGoogleBackupCredsAndTarget(k)
      [] k.op = "DeleteAndValidateBucketDeletion" -> DeleteAndValidateBucketDeletion(k)
      [] k.op = "GetAllBackUpTargets" -> GetAllBackUpTargets(k)
      [] k.op = "GetAllBackupSupportedDataServices" -> GetAllBackupSupportedDataServices(k)
      [] k.op = "TriggerAndValidateAdhocBackup" -> TriggerAndValidateAdhocBackup(k)
      [] k.op = "TriggerAndValidateRestore" -> TriggerAndValidateRestore(k)
      [] k.op = "RestoreDataServiceWithRbac" -> RestoreDataServiceWithRbac(k)
      [] k.op = "GetNameSpaceNameToRestore" -> GetNameSpaceNameToRestore(k)
      [] k.op = "DeleteDeployment" -> DeleteDeployment(k)
      [] k.op = "DeleteBackUpCred" -> DeleteBackUpCred(k)
      [] k.op = "DeleteBackUpTargetsAndCredsBelongsToDeploymetTarget" -> DeleteBackUpTargetsAndCredsBelongsToDeploymetTarget(k)
      [] k.op = "GetBackUpJobsOfDeployments" -> GetBackUpJobsOfDeployments(k)
      [] k.op = "GetDeploymentsOfTargetCluster" -> GetDeploymentsOfTargetCluster(k)
      [] k.op = "DeleteDeploymentTargets" -> DeleteDeploymentTargets(k)
      [] k.op = "ResizeDataserviceStorage" -> ResizeDataserviceStorage(k)
      [] OTHER -> ResiliencyProgram(k)
ClusterProgram(k) ==
    CASE k.op = "ValidateNamespaces" -> ValidateNamespaces(k)
      [] k.op = "CreateK8sPDSNamespace" -> CreateK8sPDSNamespace(k)
      [] k.op = "CreatePdsLabeledNamespaces" -> CreatePdsLabeledNamespaces(k)
      [] k.op = "CreateTempNS" -> CreateTempNS(k)
      [] k.op = "UpdatePDSNamespce" -> UpdatePDSNamespce(k)
      [] k.op = "DeletePDSNamespace" -> DeletePDSNamespace(k)
      [] k.op = "DeleteK8sNamespace" -> DeleteK8sNamespace(k)
      [] k.op = "ValidateK8sNamespaceDeleted" -> ValidateK8sNamespaceDeleted(k)
      [] k.op = "ValidatePods" -> ValidatePods(k)
      [] k.op = "DeletePods" -> DeletePods(k)
      [] k.op = "DeleteK8sPods" -> DeleteK8sPods(k)
      [] k.op = "GetCRObject" -> GetCRObject(k)
      [] k.op = "GetPDSPods" -> GetPDSPods(k)
      [] k.op = "DeletePDSCRDs" -> DeletePDSCRDs(k)
      [] k.op = "GetAllDataserviceResourceTemplate" -> GetAllDataserviceResourceTemplate(k)
      [] k.op = "GetAllDataServiceAppConfTemplate" -> GetAllDataServiceAppConfTemplate(k)
      [] k.op = "GetAllVersionsImages" -> GetAllVersionsImages(k)
      [] k.op = "WaitForPDSDeploymentToBeDown" -> WaitForPDSDeploymentToBeDown(k)
      [] k.op = "WaitForPDSDeploymentToBeUp" -> WaitForPDSDeploymentToBeUp(k)
      [] k.op = "ValidatePDSDeploymentTargetHealthStatus" -> ValidatePDSDeploymentTargetHealthStatus(k)
      [] k.op = "ValidateDataServiceDeploymentNegative" -> ValidateDataServiceDeploymentNegative(k)
      [] k.op = "UpdateDataServiceVerison" -> UpdateDataServiceVerison(k)
      [] k.op = "ValidateDataServiceVolumes" -> ValidateDataServiceVolumes(k)
      [] k.op = "ValidateAllDataServiceVolumes" -> ValidateAllDataServiceVolumes(k)
      [] k.op = "GetMongoDBConnectionString" -> GetMongoDBConnectionString(k)
      [] k.op = "CreateTpccWorkloads" -> CreateTpccWorkloads(k)
      [] k.op = "CreateDataServiceWorkloads" -> CreateDataServiceWorkloads(k)
      [] k.op = "InsertDataAndReturnChecksum" -> InsertDataAndReturnChecksum(k)
      [] k.op = "CreateIndependentPV" -> CreateIndependentPV(k)
      [] k.op = "CreateIndependentPVC" -> CreateIndependentPVC(k)
      [] k.op = "CreateIndependentMySqlApp" -> CreateIndependentMySqlApp(k)
      [] k.op = "DeletePvandPVCs" -> DeletePvandPVCs(k)
      [] k.op = "GetPodsFromK8sStatefulSet" -> GetPodsFromK8sStatefulSet(k)
      [] k.op = "GetK8sNodeObjectUsingPodName" -> GetK8sNodeObjectUsingPodName(k)
      [] k.op = "DrainPxPodOnK8sNode" -> DrainPxPodOnK8sNode(k)
      [] k.op = "LabelK8sNode" -> LabelK8sNode(k)
      [] k.op = "RemoveLabelFromK8sNode" -> RemoveLabelFromK8sNode(k)
      [] k.op = "UnCordonK8sNode" -> UnCordonK8sNode(k)
      [] k.op = "VerifyPxPodOnNode" -> VerifyPxPodOnNode(k)
      [] k.op = "GetNodesOfSS" -> GetNodesOfSS(k)
      [] k.op = "GetPodsOfSsByNode" -> GetPodsOfSsByNode(k)
      [] k.op = "GetAllDataServiceHostedNodes" -> GetAllDataServiceHostedNodes(k)
      [] k.op = "ExpandAndValidatePxPool" -> ExpandAndValidatePxPool(k)
      [] OTHER -> Program(k)

----------------------------------------------------------------------------
\* What a look at the cluster answers

Yes(holds) == IF holds THEN "ok" ELSE "retry"
OrError(holds) == IF holds THEN "ok" ELSE "error"
OrPanic(holds) == IF holds THEN "ok" ELSE "panic"
Unlike(n) == UNION {o.has : o \in Named("deployment", n)}
\* Mutant: the end of the wait is the first look.
Available_AtOnce(n) == TRUE
Available(n) == DepHealthy(n)
PodAnswer(q, n) ==
    CASE q = "terminating" -> Yes(\E i \in DOMAIN ss.pods : ss.pods[i].term)
      [] q = "replicas" -> Yes(Len(ss.pods) >= glob.till)
      [] q = "updated" -> IF ss.pods = <<>> THEN "error" ELSE Yes(ss.pods[1].rev = ss.rev)
      [] q = "somePod" -> OrPanic(ss.pods # <<>>)
      [] q = "setThere" -> Yes(SetThere(n))
      [] q = "setReady" -> Yes(DepHealthy(n))
      [] q = "available" -> Yes(Available(n))
      [] q = "connected" -> OrError(n \in up)
      [] q = "podOnNode" -> OrError(\E i \in DOMAIN ss.pods : ss.pods[i].node = n)
      [] q = "pxPod" -> OrPanic(n \in up)
ObjectAnswer(q, n) ==
    CASE q = "template" -> OrError(There("rtmpl", n))
      [] q = "accountThere" -> OrError(There("account", n))
      [] q = "tcHealthy" -> Yes(In("tc", n, "healthy"))
      [] q = "tcIs" -> Yes(In("tc", n, "healthy"))
      [] q \in {"nsAvailable", "nsStatus"} -> Yes(In("ns", n, "available"))
      [] q = "nsGone" -> Yes(~There("ns", n))
      [] q = "components" -> Yes(In("pod", n, "ready"))
      [] q = "noPods" -> Yes(~There("pod", n))
      [] q \in {"imageThere", "dsThere"} -> OrError(There("ds", n))
      [] q = "updatedDep" -> Yes(DepHealthy(n))
      [] q = "targetState" -> OrError(In("target", n, "ready"))
      [] q = "targetGone" -> Yes(~There("target", n))
      [] q = "bucketGone" -> OrError(~There("bucket", n))
      [] q = "jobDone" -> IF \A o \in objs : ~(o.kind = "job" /\ o.of = n) THEN "panic"
                          ELSE Yes(\E o \in objs : o.kind = "job" /\ o.of = n /\ o.st = "Succeeded")
      [] q = "restoreDone" -> Yes(In("restore", n, "Successful"))
      [] q = "restoredAlike" -> OrError(Unlike(n) \cap {"config", "resources", "storage"} = {} /\ ~{"count", "image"} \subseteq Unlike(n))
      [] q = "depDown" -> Yes(In("deployment", n, "Degraded"))
      [] q = "depUp" -> Yes(In("deployment", n, "Available"))
      [] q = "running" -> OrError(In("wl", n, "ready") \/ In("pod", n, "ready"))
      [] q = "logged" -> Yes(In("wl", n, "ready") \/ In("wl", n, "done"))
      [] q = "podNotRunning" -> Yes(~In("pod", n, "ready"))
      [] q = "prepared" -> Yes(There("wl", n) /\ ~In("wl", n, "pending"))
      [] q = "lastOperation" -> OrError(~In("pool", n, "failed"))
      [] q = "poolOnline" -> Yes(~In("pool", n, "offline"))
      [] q = "poolResized" -> IF In("pool", n, "failed") THEN "error" ELSE Yes(In("pool", n, "resized"))
      [] OTHER -> PodAnswer(q, n)

----------------------------------------------------------------------------
\* Steps

DownTargets(status) == {o \in objs : o.kind = "tc" /\ o.st = status}
Select(sel, arg) ==
    CASE sel = "jobsOf" -> {o \in objs : o.kind = "job" /\ o.of = arg}
      [] sel = "depsOf" -> {o \in objs : o.kind = "deployment" /\ o.of = arg}
      [] sel = "downTargets" -> DownTargets("DOWN")
      [] sel = "podsNamed" -> {o \in objs : o.kind = "pod" /\ o.of = arg}
      [] sel = "claimed" -> {o \in objs : o.kind = "pv" /\ o.of = arg}
      [] sel = "rtmpls" -> {o \in objs : o.kind = "rtmpl"}
      [] sel = "atmpls" -> {o \in objs : o.kind = "atmpl"}
      [] sel = "stmpls" -> {o \in objs : o.kind = "stmpl"}
      [] sel = "creds" -> {o \in objs : o.kind = "cred"}
      [] sel = "targets" -> {o \in objs : o.kind = "target"}
      [] sel = "crds" -> {o \in objs : o.kind = "crd"}
      [] sel = "versions" -> {o \in objs : o.kind = "version"}
\* For every word in turn the objects of the list whose names contain it.
Bodies(s, k) ==
    LET listed == SetToSeq(Select(s.sel, s.arg))
        With(w) == SelectSeq(listed, LAMBDA o : w = "" \/ w \in o.has)
    IN FlattenSeq([i \in DOMAIN s.words |-> FlattenSeq([j \in DOMAIN With(s.words[i]) |-> WorkloadBody(s.each, With(s.words[i])[j], k)])])
DoEvery(c) ==
    /\ At(c, "every") /\ UNCHANGED pdsVars
    /\ \/ Become(c, th[c].lk, Bodies(Step(c), Call(c))) /\ UNCHANGED faults
       \/ Fault /\ Failed(c)
DoBranch(c) ==
    /\ At(c, "branch") /\ UNCHANGED pdsVars
    /\ \/ Become(c, th[c].lk, Following(c)) /\ UNCHANGED faults
       \/ Fault /\ Failed(c)
Look(c) == At(c, "ask") /\ Question(c, ObjectAnswer(Step(c).q, Step(c).name))
Again(c) == At(c, "again") /\ Retry(c) /\ UNCHANGED <<pdsVars, faults>>
Returns(c) == At(c, "return") /\ Return(c, "nil") /\ UNCHANGED <<pdsVars, faults>>

\* The templates of the given kind that belong to the data service; the last one listed is taken.
Found(map, ds, old) == {o.name : o \in {x \in objs : x.kind = map /\ x.of = ds}}
RememberId(c) ==
    /\ At(c, "remember") /\ Proceed(c) /\ UNCHANGED <<objs, ss, up, errs, faults>>
    /\ LET map == Step(c).map
           ids == Found(map, Step(c).ds, glob[map])
       IN \/ ids = {} /\ UNCHANGED glob
          \/ \E id \in ids : glob' = [glob EXCEPT ![map] = id]

\* The library's own variable takes what the control plane client returned.
KeepId(c) ==
    /\ At(c, "keep") /\ Proceed(c) /\ glob' = [glob EXCEPT !.lib = glob.atmpl]
    /\ UNCHANGED <<objs, ss, up, errs, faults>>

Add(new) == objs' = objs \cup new /\ UNCHANGED <<ss, up, errs, glob>>
\* A deployment is created from the template ids the package variables hold.
NewDeployment(c) ==
    LET s == Step(c) IN
    {[Obj("deployment", s.name, s.of, "pending") EXCEPT !.has = {glob.rtmpl, glob.atmpl}]}
DoDeploy(c) ==
    /\ At(c, "deploy")
    /\ \/ Add(NewDeployment(c)) /\ Proceed(c) /\ UNCHANGED faults
       \/ Add(NewDeployment(c)) /\ Fault /\ NoAnswer(c)
       \/ Fault /\ NoAnswer(c) /\ UNCHANGED pdsVars
\* A restore makes a new deployment, which may differ from the one backed up.
DoRestore(c) ==
    /\ At(c, "restore")
    /\ \/ /\ \E unlike \in Scene.unlike :
                Add({Obj("restore", Step(c).name, "", "Running"),
                     [Obj("deployment", Step(c).name, "", "pending") EXCEPT !.has = unlike]})
          /\ Proceed(c) /\ UNCHANGED faults
       \/ Fault /\ NoAnswer(c) /\ UNCHANGED pdsVars
\* The control plane starts the job of an ad-hoc backup.
StartJob(c) ==
    /\ At(c, "job") /\ Proceed(c) /\ UNCHANGED faults
    /\ \/ Add({Obj("job", Step(c).name, Step(c).of, "Running")})
       \/ Scene.lazy /\ UNCHANGED pdsVars
SetFlag(c) ==
    /\ th[c].todo = <<>> /\ th[c].script # <<>> /\ Call(c).op = "MarkResiliencyTC"
    /\ glob' = [glob EXCEPT !.flag = Call(c).all] /\ Return(c, "nil") /\ UNCHANGED <<objs, ss, up, errs, faults>>

Locals == [node |-> "", pods |-> <<>>, born |-> objs]
Start(c) ==
    /\ th[c].script # <<>> /\ Call(c).op # "MarkResiliencyTC"
    /\ Begin(c, ClusterProgram(Call(c)), Locals) /\ UNCHANGED <<pdsVars, faults>>
Control(c) == (Enter(c) \/ Leave(c)) /\ UNCHANGED <<pdsVars, faults>>
CallerStep(c) ==
    /\ \/ Start(c) \/ SetFlag(c) \/ Control(c) \/ Request(c) \/ Look(c) \/ DoEvery(c) \/ DoBranch(c) \/ Again(c) \/ Returns(c)
       \/ RememberId(c) \/ KeepId(c) \/ DoDeploy(c) \/ DoRestore(c) \/ StartJob(c) \/ ResiliencyStep(c)
       \/ \E r \in Callers : Rendezvous(c, r)
    /\ UNCHANGED scene

Init ==
    /\ scene \in DOMAIN Scenes /\ faults = 0
    /\ th = [c \in Callers |-> [Idle EXCEPT !.script = IF c = Main THEN Scene.script ELSE <<>>]]
    /\ objs = Scene.objs /\ ss = Scene.ss /\ up = Nodes /\ errs = <<>>
    /\ glob = [flag |-> TRUE, till |-> 0, caught |-> 0, struck |-> FALSE, restored |-> 0,
               rtmpl |-> "", atmpl |-> "", stmpl |-> "", lib |-> ""]
Next == (\E c \in Callers : CallerStep(c)) \/ Proceeding \/ Disturbing
Fairness == WF_vars(Proceeding) /\ \A c \in Callers : WF_vars(CallerStep(c))
Spec == Init /\ [][Next]_vars /\ Fairness

----------------------------------------------------------------------------
\* Properties

TypeOK ==
    /\ CallsTyped
    /\ \A o \in objs : DOMAIN o = {"kind", "name", "of", "st", "has"}
    /\ Len(ss.pods) <= ss.want /\ up \subseteq Nodes /\ Len(errs) <= MaxErrors
    /\ \A i \in DOMAIN ss.pods : ss.pods[i].node \in Nodes \cup {""} /\ ss.pods[i].rev <= ss.rev

Nil(op) == th[Main].script # <<>> /\ Call(Main).op = op /\ Ends(Main, "nil")
Arg(field) == Call(Main)[field]
Born == Local(Main, "born")
Going(o) == o \notin objs' /\ ~\E x \in objs' : x.kind = o.kind /\ x.name = o.name /\ x.st # "deleting"

\* A failure that waits for a number of replicas (GetPdsSs) never reboots a node before the
\* data service has had that many pods: InduceFailure acts on what the condition reported.
FailureAfterCondition ==
    up' \subseteq up /\ up' # up /\ Call(Striker).type = "replicas" => Len(ss.pods) >= glob.till

\* A resiliency test passes only if its failure was induced and no goroutine captured an error
\* during it.  When it updates nothing, all replicas of the data service are ready as it
\* returns: the last reboot is over before the validation starts.  An update may still be
\* replacing pods then, or not have begun: the validation counts replicas, of any revision.
PassedMeansSound ==
    Nil("InduceFailureAfterWaitingForCondition") =>
      glob.struck /\ glob.caught = 0 /\ (Arg("type") \in {"replicas", "restore"} => AllReady)

\* Deleting a backup target with its credential leaves no moment at which the target, whose
\* deletion takes time, is still there and its credential is not.
TargetBeforeCredential ==
    \A o \in objs \ objs' :
      o.kind = "cred" /\ th[Main].todo # <<>>
      /\ Arg("op") \in {"DeleteAwsS3BackupCredsAndTarget", "DeleteAzureBackupCredsAndTarget", "DeleteGoogleBackupCredsAndTarget"}
      => ~There("target", o.name)

\* Cleaning up a target cluster, a deployment is deleted only when no backup job refers to it.
JobsBeforeDeployments ==
    \A o \in objs : /\ o.kind = "deployment" /\ o.st # "deleting" /\ [o EXCEPT !.st = "deleting"] \in objs'
                    /\ th[Main].todo # <<>> /\ Arg("op") = "DeleteDeploymentTargets"
                    => \A j \in objs : ~(j.kind = "job" /\ j.of = o.name)

\* DeleteDeploymentTargets without an error: the clusters that were down go with all their
\* deployments and jobs, and no other cluster, deployment or job is touched.
DownTargetsEmptied ==
    Nil("DeleteDeploymentTargets") =>
      LET down == {o.name : o \in {x \in Born : x.kind = "tc" /\ x.st = "DOWN"}}
          deps == {o.name : o \in {x \in Born : x.kind = "deployment" /\ x.of \in down}}
      IN \A o \in Born : /\ o.kind = "tc" => (o.name \in down <=> Going(o))
                         /\ o.kind = "deployment" => (o.of \in down <=> Going(o))
                         /\ o.kind = "job" => (o.of \in deps <=> Going(o))

\* Two targets may share a credential: the cleanup of a deployment target does not fail
\* because the first deletion already took it.
SharedCredentialTolerated ==
    th[Main].todo # <<>> /\ Arg("op") = "DeleteBackUpTargetsAndCredsBelongsToDeploymetTarget" /\ faults' = 0
      => ~Ends(Main, "error")

\* CreateIndependentPV returns a volume of its own: unbound, with no claim of an earlier one.
FreshVolume ==
    Nil("CreateIndependentPV") => \E o \in objs' : o.kind = "pv" /\ o.name = Arg("pv") /\ o.st = "ready"
                                  /\ ~\E x \in objs' : x.kind = "pvc" /\ x.name = Arg("pv")

\* A target cluster is registered with the chart version asked for, whatever ran before, and
\* its agent is up; deregistered from a running one, the chart is gone and so are its pods.
RegisteredAsAsked ==
    /\ Nil("RegisterToControlPlane") => In("chart", "pds", Arg("ver")) /\ In("pod", "agent", "ready")
    /\ Nil("DeRegisterFromControlPlane") /\ (\E o \in Born : o.name = "agent")
         => In("chart", "pds", "none") /\ ~There("pod", "agent")

\* A data service is deployed from its own templates whenever it has some, although the
\* template ids live in package variables that keep what an earlier deployment found.
OwnTemplates ==
    \A o \in objs' \ objs :
      o.kind = "deployment" /\ o.st = "pending" /\ Arg("op") \in {"TriggerDeployDataService", "TriggerDeployDSWithSiAndTls"}
      => \A map \in {"rtmpl", "atmpl"} :
           LET own == {t.name : t \in {x \in objs : x.kind = map /\ x.of = Arg("ds")}}
           IN own # {} => o.has \cap own # {}

\* A restore that was validated has succeeded, and its deployment is available with the
\* configuration, resources and storage of the one backed up.
RestoreSound ==
    (Nil("TriggerAndValidateRestore") \/ Nil("RestoreDataServiceWithRbac")) /\ Arg("validate")
      => /\ In("restore", Arg("job"), "Successful") /\ DepHealthy(Arg("job"))
         /\ Unlike(Arg("job")) \cap {"config", "resources", "storage"} = {}

\* UnCordonK8sNode returns without an error only when the node takes pods again.
Uncordoned == Nil("UnCordonK8sNode") => \E o \in objs' : o.kind = "node" /\ o.name = Arg("node") /\ o.st = "ready"

\* What the resiliency tests promise: they strike only after the condition, and pass only
\* when nothing went wrong in any of their goroutines.
ResiliencySound == [][TypeOK' /\ FailureAfterCondition /\ PassedMeansSound]_vars

\* What the calls that deploy, back up, restore and clean up promise: an object goes only after
\* those that depend on it, and success means that what was asked for is there.
DataServicesSound ==
    [][/\ TargetBeforeCredential /\ JobsBeforeDeployments /\ DownTargetsEmptied /\ SharedCredentialTolerated
       /\ FreshVolume /\ RegisteredAsAsked /\ OwnTemplates /\ RestoreSound /\ Uncordoned]_vars

\* The condition functions that report failure as well as success.
AlwaysReports(k) == k.type \in {"replicas", "versionUpdate"}
\* The goroutine that waits for the condition has been told, and nothing is told twice.
Told == /\ th[Striker].todo # <<>> /\ ~At(Striker, "recv")
        /\ Cardinality(Select("jobsOf", Dep)) <= 1
\* Every call returns.  A resiliency test does when its condition reports both outcomes, or
\* once it has reported; the other conditions can end without a word to the goroutine that
\* waits, and the test hangs.
CallsReturn ==
    (th[Main].todo # <<>> /\ (Arg("op") = "InduceFailureAfterWaitingForCondition" => AlwaysReports(Call(Main)) \/ Told))
        ~> th[Main].todo = <<>>
=============================================================================
