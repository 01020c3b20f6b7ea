----------------------------- MODULE PdsControl -----------------------------
(***************************************************************************)
(* The PDS control plane as the drivers use it: the wrappers of its API, the *)
(* set-up of a test, templates, target clusters, data services, backups and *)
(* restores.  Then the Kubernetes side: namespaces and pods, the workload   *)
(* generators and their service accounts, independent volumes, the nodes a  *)
(* data service runs on, its volumes and the storage pools below.  Every    *)
(* function is the sequence of steps it makes.                              *)
(***************************************************************************)
EXTENDS PdsResiliency

----------------------------------------------------------------------------
\* The API wrappers, one definition for the methods of a file: what they are about, and
\* the methods that look only at the error.  The others look at the response when the
\* request failed, and there may be none.  Every method first gets a context (a login).

File(kind, errOnly) == [kind |-> kind, errOnly |-> errOnly]
Api(f, verb, name) ==
    LET s == Kube(verb, f.kind, name) IN IF verb \in f.errOnly THEN s ELSE s @@ [api |-> TRUE]
ApiOf(f, verb, name, of) == [Api(f, verb, name) EXCEPT !.of = of]
ApiAsk(q, name) == Ask(q, name) @@ [api |-> TRUE]

account == File("account", {})
accountRoleBinding == File("binding", {"delete"})
apiVersion == File("apiversion", {})
appConfigTemplate == File("atmpl", {})
backup == File("backup", {})
backupCredential_create == File("cred", {})
backupCredential_update == File("cred", {})
backupCredential == File("cred", {"delete"})
backupJob == File("job", {"delete"})
backupPolicy == File("policy", {})
backupTarget == File("target", {"create", "delete"})
dataService == File("ds", {})
dataServiceDeployment_create == File("deployment", {})
dataServiceDeployment == File("deployment", {})
defaultTemplates == File("default", {})
deploymentTarget == File("tc", {})
iamRoleBindings == File("iam", {})
image == File("image", {})
namespace == File("ns", {})
project == File("project", {})
resourceSettingTemplate == File("rtmpl", {})
restore == File("restore", {"matrix"})
serviceAccount == File("sa", {})
serviceIdentity == File("si", {})
storageOptionsTemplate == File("stmpl", {})
tenant == File("tenant", {})
version == File("version", {})
whoami == File("whoami", {})

\* One call of one method, and the two helpers that use what a failed call did not return.
Files == <<account, accountRoleBinding, apiVersion, appConfigTemplate, backup, backupCredential, backupJob, backupPolicy,
    backupTarget, dataService, dataServiceDeployment, defaultTemplates, deploymentTarget, iamRoleBindings, image, namespace,
    project, resourceSettingTemplate, restore, serviceAccount, serviceIdentity, storageOptionsTemplate, tenant, version, whoami,
    backupCredential_create, backupCredential_update, dataServiceDeployment_create>>
ApiMethod(k) == <<Api(Files[k.n], k.verb, k.name)>>
GetContext(k) == <<Net>>
CreateAndGetServiceIdentityToken(k) == <<Must(Api(serviceIdentity, "create", k.name)), Api(serviceIdentity, "get", k.name)>>
CreateIAMRoleBindingsWithSi(k) == <<Must(Api(iamRoleBindings, "create", k.name))>>
CreateSiAndIamRoleBindings(k) == CreateAndGetServiceIdentityToken(k) \o CreateIAMRoleBindingsWithSi(k)

----------------------------------------------------------------------------
\* controlplane.go

\* The id of the template found becomes the package variable; nothing found leaves the old id.
Remember(map, ds) == [do |-> "remember", map |-> map, ds |-> ds]
GetDNSZone(k) == <<Must(Api(tenant, "get", "t"))>>
SetupPDSTest(k) ==
    <<ApiAsk("accountThere", "a"), Drop(Api(tenant, "list", "")), Drop(Api(project, "list", ""))>> \o GetDNSZone(k)
    \o <<Kube("list", "ns", "kube-system")>>
GetStorageTemplate(k) == <<Api(storageOptionsTemplate, "list", ""), Remember("stmpl", "")>>
GetAppConfTemplate(k) ==
    <<Api(appConfigTemplate, "list", ""), Api(dataService, "list", ""), Remember("atmpl", k.ds)>>
GetResourceTemplate(k) == <<Every("rtmpls", "", "getDs"), Remember("rtmpl", k.ds)>>

DeleteAppConfigTemplates(k) == <<EveryWith("atmpls", "", "deleteTemplate", k.words)>>
DeleteStorageConfigTemplates(k) == <<EveryWith("stmpls", "", "deleteTemplate", k.words)>>
DeleteResourceSettingTemplates(k) == <<EveryWith("rtmpls", "", "deleteTemplate", k.words)>>
CreateCustomResourceTemplate(k) ==
    <<Api(storageOptionsTemplate, "create", k.name), ApiOf(resourceSettingTemplate, "create", k.name, k.ds)>>
UpdateCustomResourceTemplates(k) == <<Api(resourceSettingTemplate, "update", k.name)>>
UpdateCustomStorageTemplates(k) == <<Api(storageOptionsTemplate, "update", k.name)>>
CleanupCustomTemplates(k) ==
    <<Api(storageOptionsTemplate, "delete", k.name), Api(resourceSettingTemplate, "delete", k.name)>>
CreatePostgreSQLClientAndConnect(k) == <<Net, Net>>
CreateMongoDBClientAndConnect(k) == <<Net, Net, Net>>
ValidateIfTLSEnabled(k) == CreateMongoDBClientAndConnect(k)
WhoAmI(k) == <<Api(whoami, "list", "")>>
GetRegistrationToken(k) == <<Drop(Api(serviceAccount, "list", "")), Api(serviceAccount, "token", "")>>

----------------------------------------------------------------------------
\* targetcluster.go

GetDeploymentTargetID(k) == Try(<<Final(ApiAsk("tcHealthy", k.tc))>>)
GetnameSpaceID(k) == Guard(Try(<<Final(ApiAsk("nsAvailable", k.ns))>>), <<>>)
Branch(q, name) == [do |-> "branch", q |-> q, name |-> name]
CreatePDSNamespace(k) == <<Branch("pdsNamespace", k.ns)>>
IsLatestPDSHelm(k) == <<Branch("latest", k.ver)>>
ValidatePDSComponents(k) == <<Ask("components", "agent")>>
RegisterToControlPlane(k) == <<Branch("registered", k.ver)>> \o Try(ValidatePDSComponents(k))
DeRegisterFromControlPlane(k) == <<Branch("deregister", "")>> \o Try(<<Ask("noPods", "agent")>>)
CreateNamespace(k) == <<Drop(Kube("create", "ns", k.ns))>>
AddHelmRepo(k) == <<Net, Net>>
InstallCertManager(k) == <<Net>>
CreateSelfSignedClusterIssuer(k) == <<Net, Net>>
UpdateTargetClusterWithClusterIssuer(k) == <<Must(Api(deploymentTarget, "update", k.tc))>>
\* The error of the listing is not looked at: no pods, and the choice among them crashes.
GetAnyPodName(k) == <<GetSet, Drop(GetSetPods), Ask("somePod", Dep)>>
ExecCommandInPod(k) == <<Net>>
ExecuteCommandInStatefulSetPod(k) == GetAnyPodName(k) \o ExecCommandInPod(k)
KillPodsInNamespace_cluster(k) == <<Every("podsNamed", k.name, "deletePod")>>
RegisterClusterToControlPlane(k) ==
    <<Net, Api(apiVersion, "get", "v")>> \o GetRegistrationToken(k) \o RegisterToControlPlane(k)
    \o (IF k.tls THEN AddHelmRepo(k) \o InstallCertManager(k) \o CreateSelfSignedClusterIssuer(k) ELSE <<>>)

----------------------------------------------------------------------------
\* dataservices.go and dataservices_rbac.go

ReadParams(k) == <<Net>>
GetVersionsImage(k) == <<Api(version, "list", ""), ApiAsk("imageThere", k.ds)>>
GetLatestVersionsImage(k) == <<Api(version, "list", ""), ApiAsk("imageThere", k.ds)>>
Deploy(k) == [do |-> "deploy", name |-> k.name, ds |-> k.ds, of |-> k.tc, api |-> TRUE]
DeployDS(k) ==
    <<ApiAsk("dsThere", k.ds)>> \o ReadParams(k)
    \o (IF k.latest THEN GetLatestVersionsImage(k) ELSE GetVersionsImage(k)) \o <<Deploy(k)>>
TriggerDeployDataService(k) ==
    ReadParams(k) \o GetResourceTemplate(k) \o GetAppConfTemplate(k) \o GetnameSpaceID(k) \o DeployDS(k)
DeployPDSDataservices(k) ==
    ReadParams(k) \o CreatePDSNamespace(k) \o SetupPDSTest(k)
    \o Guard(RegisterClusterToControlPlane(k), <<[do |-> "panic"]>>)
    \o GetDeploymentTargetID(k) \o GetnameSpaceID(k) \o GetStorageTemplate(k) \o TriggerDeployDataService(k)
    \o Guard(ValidateDataServiceDeployment(k.name), <<[do |-> "panic"]>>)
\* The error of the poll is not returned.
UpdateDataServices(k) == <<Drop(Api(dataServiceDeployment, "update", k.name))>>
UpdateDataServicesWithTLS(k) == <<Drop(Api(dataServiceDeployment, "update", k.name))>>
GetDataServiceDeploymentTemplateIDS(k) == GetAppConfTemplate(k) \o GetResourceTemplate(k) \o GetStorageTemplate(k)
GetDSImageVersionToBeDeployed(k) == ReadParams(k) \o Guard(GetVersionsImage(k), <<>>)
DeployDsWithRBAC(k) == <<ApiAsk("dsThere", k.ds), Deploy(k)>>
TriggerDeployDSWithSiAndTls(k) ==
    GetDataServiceDeploymentTemplateIDS(k) \o GetDSImageVersionToBeDeployed(k) \o DeployDsWithRBAC(k)

----------------------------------------------------------------------------
\* backup_utils.go and helpers.go.  A bucket that is there, or already gone, is no error.

createBucket_minio(k) == <<Tolerant(Kube("create", "bucket", k.name))>>
createBucket_aws(k) == <<Tolerant(Kube("create", "bucket", k.name))>>
createBucket_azure(k) == <<Tolerant(Kube("create", "bucket", k.name))>>
createBucket_gcp(k) == <<Net, Tolerant(Kube("create", "bucket", k.name))>>
DeleteAndValidateBucketDeletion(k) == <<Tolerant(Kube("delete", "bucket", k.name)), Ask("bucketGone", k.name)>>
DeleteS3MinioBucket(k) == <<Net>> \o DeleteAndValidateBucketDeletion(k)
DeleteBucket_aws(k) == <<Net>> \o DeleteAndValidateBucketDeletion(k)
ListFolders(k) == <<Net, Net>>
DeleteBucket_azure(k) == <<Tolerant(Kube("delete", "bucket", k.name))>>
DeleteBucket_gcp(k) == <<Net, Tolerant(Kube("delete", "bucket", k.name))>>

CreateCred(k) == <<ApiOf(backupCredential_create, "create", k.name, k.name)>>
CreateBackupTarget(k) ==
    <<ApiOf(backupTarget, "create", k.name, k.name), Api(backupTarget, "sync", k.name), ApiAsk("targetState", k.name)>>
CreateAwsS3MinioBackupCredsAndTarget(k) == CreateCred(k) \o createBucket_minio(k) \o CreateBackupTarget(k)
CreateAwsS3BackupCredsAndTarget(k) == CreateCred(k) \o createBucket_aws(k) \o CreateBackupTarget(k)
\* These two neither sync the target to the clusters nor look at its state.
CreateAzureBackupCredsAndTarget(k) == CreateCred(k) \o createBucket_azure(k) \o <<ApiOf(backupTarget, "create", k.name, k.name)>>
CreateGcpBackupCredsAndTarget(k) == createBucket_gcp(k) \o CreateCred(k) \o <<ApiOf(backupTarget, "create", k.name, k.name)>>

\* The target is deleted in the background, and looked for until it is gone.
DeleteTarget(k) == <<Api(backupTarget, "get", k.name), Api(backupTarget, "delete", k.name)>>
AwaitTarget(k) == Try(<<Final(ApiAsk("targetGone", k.name))>>)
DeleteCred(k) == <<Api(backupCredential, "delete", k.name)>>
DeleteAwsS3BackupCredsAndTarget(k) == DeleteTarget(k) \o AwaitTarget(k) \o DeleteCred(k)
DeleteAzureBackupCredsAndTarget(k) == DeleteBucket_azure(k) \o DeleteTarget(k) \o AwaitTarget(k) \o DeleteCred(k)
DeleteGoogleBackupCredsAndTarget(k) == DeleteBucket_gcp(k) \o DeleteTarget(k) \o AwaitTarget(k) \o DeleteCred(k)
GetAllBackUpTargets(k) == <<Api(backupTarget, "list", "")>>
GetAllBackupSupportedDataServices(k) == <<Api(dataService, "list", "")>>
TriggerAndValidateAdhocBackup(k) ==
    <<ApiOf(backup, "create", k.job, k.name), [do |-> "job", name |-> k.job, of |-> k.name]>>
    \o Try(<<Final(ApiAsk("jobDone", k.name))>>)

----------------------------------------------------------------------------
\* restore_utils.go

NamespaceToRestore(k) ==
    IF k.same THEN <<Api(backupJob, "get", k.job)>> ELSE CreateNamespace(k) \o GetnameSpaceID(k)
RestoreToNewDeployment(k) == [do |-> "restore", name |-> k.job, of |-> k.name, api |-> TRUE]
ValidateRestore(k) == <<Ask("restoredAlike", k.job)>>
WaitForRestoreAndValidate(k) ==
    Try(<<Final(ApiAsk("restoreDone", k.job))>>) \o <<Api(dataServiceDeployment, "get", k.job)>>
    \o ValidateDataServiceDeployment(k.job) \o ValidateRestore(k)
TriggerAndValidateRestore(k) ==
    <<Net>> \o GetDeploymentTargetID(k) \o NamespaceToRestore(k) \o <<RestoreToNewDeployment(k)>>
    \o (IF k.validate THEN WaitForRestoreAndValidate(k) ELSE <<>>)
RestoreDataServiceWithRbac(k) ==
    <<RestoreToNewDeployment(k)>> \o (IF k.validate THEN WaitForRestoreAndValidate(k) ELSE <<>>)
\* Both errors are dropped: no name and no error.
GetNameSpaceNameToRestore(k) ==
    IF k.same THEN <<Drop(Api(backupJob, "get", k.job))>> ELSE CreateNamespace(k) \o GetnameSpaceID(k)

----------------------------------------------------------------------------
\* The conditions of resiliency tests that call the control plane (lib/resiliency_utils.go)

\* One backup job: restored in its own namespace and not validated.
RestoreJob(o, k) ==
    Guard(TriggerAndValidateRestore([k EXCEPT !.job = o.name, !.same = TRUE, !.validate = FALSE]), <<Capture, Fail>>)
    \o IfFlagged(Send(TRUE)) \o <<Capt(Api(dataServiceDeployment, "get", o.name)), [do |-> "restored", val |-> 1]>>
\* The library asks for the app configuration once, by the name of the deployment, and keeps it.
LibTemplate(k) ==
    IF glob.lib = "" THEN Guard(GetAppConfTemplate([k EXCEPT !.ds = Dep]), <<[do |-> "panic"]>>) \o <<[do |-> "keep"]>> ELSE <<>>
ResizeDataserviceStorage(k) ==
    <<CaptIf(Api(resourceSettingTemplate, "list", "")), Ask("template", "rt")>> \o LibTemplate(k)
    \o <<Capt(Api(dataServiceDeployment, "update", Dep))>> \o IfFlagged(Send(TRUE))
    \o Guard(ValidateDataServiceDeployment(Dep), <<[do |-> "panic"]>>)

----------------------------------------------------------------------------
\* Cleaning up (lib/utils.go)

DeleteDeployment(k) == <<Api(dataServiceDeployment, "delete", k.name)>>
DeleteBackUpCred(k) ==
    IF k.all THEN <<Every("creds", "", "deleteCred")>> ELSE <<Tolerant(Api(backupCredential, "delete", k.name))>>
DeleteBackUpTargetsAndCredsBelongsToDeploymetTarget(k) == <<Every("targets", "", "deleteTargetAndCred")>>
GetBackUpJobsOfDeployments(k) == <<Every("jobsOf", k.name, "nothing")>>
GetDeploymentsOfTargetCluster(k) == <<Every("depsOf", k.tc, "nothing")>>
DeleteDeploymentTargets(k) == <<Every("downTargets", "", "deleteTargetCluster")>>

\* Mutant: the deployments go before their backup jobs are looked for.
DeletedDep_JobsLast(o) == <<Must(Api(dataServiceDeployment, "delete", o.name)), Every("jobsOf", o.name, "deleteJob")>>
DeletedDep(o) == <<Every("jobsOf", o.name, "deleteJob"), Must(Api(dataServiceDeployment, "delete", o.name))>>
DeletedTarget(o) == <<Api(backupTarget, "delete", o.name), Tolerant(Api(backupCredential, "delete", o.of))>>
\* What is done for an object of a list.
ControlBody(each, o, k) ==
    CASE each = "nothing" -> <<>>
      [] each = "getDs" -> <<Api(dataService, "get", o.of)>>
      [] each = "deleteTemplate" -> <<Kube("delete", o.kind, o.name) @@ [api |-> TRUE]>>
      [] each = "deleteCred" -> <<Api(backupCredential, "delete", o.name)>>
      [] each = "deleteTargetAndCred" -> DeletedTarget(o)
      [] each = "deleteTargetCluster" -> <<Every("depsOf", o.name, "deleteDep"), Must(Api(deploymentTarget, "delete", o.name))>>
      [] each = "deleteDep" -> DeletedDep(o)
      [] each = "deletePod" -> <<Kube("delete", "pod", o.name)>>
      [] each = "deleteJob" -> <<Api(backupJob, "delete", o.name)>>
      [] each = "restoreJob" -> RestoreJob(o, k)

----------------------------------------------------------------------------
\* Namespaces, pods, deployments (lib/utils.go)

ValidateNamespaces(k) == Try(<<Final(ApiAsk("nsStatus", k.ns))>>)
CreateK8sPDSNamespace(k) == <<Kube("create", "ns", k.ns)>>
CreatePdsLabeledNamespaces(k) == <<Must(Kube("create", "ns", k.ns))>>
CreateTempNS(k) == <<Kube("create", "ns", k.ns)>>
UpdatePDSNamespce(k) == <<Kube("update", "ns", k.ns)>>
DeletePDSNamespace(k) == <<Kube("delete", "ns", k.ns)>>
DeleteK8sNamespace(k) == <<Kube("delete", "ns", k.ns)>>
\* Any error of the request is taken for the deletion.
ValidateK8sNamespaceDeleted(k) == Try(<<Drop(Ask("nsGone", k.ns))>>)
ValidatePods(k) == <<Every("podsNamed", k.name, "validatePod")>>
DeletePods(k) == <<Kube("deleteAll", "pod", k.ns)>>
DeleteK8sPods(k) == <<Kube("delete", "pod", k.name)>>
DeleteK8sDeployments(k) == <<Kube("delete", "wl", k.name)>>
GetCRObject(k) == <<Net, Net>>
GetPDSPods(k) == <<Must(Kube("list", "pod", k.name))>>
DeletePDSCRDs(k) == <<EveryWith("crds", "", "deleteCrd", k.words)>>

GetAllDataserviceResourceTemplate(k) == <<Every("rtmpls", "", "getDs")>>
GetAllDataServiceAppConfTemplate(k) == <<Api(appConfigTemplate, "list", "")>>
GetAllVersionsImages(k) == <<Every("versions", "", "listImages")>>
WaitForPDSDeploymentToBeDown(k) == Try(<<ApiAsk("depDown", k.name)>>)
WaitForPDSDeploymentToBeUp(k) == Try(<<Final(ApiAsk("depUp", k.name))>>)
ValidatePDSDeploymentTargetHealthStatus(k) == Try(<<Must(ApiAsk("tcIs", k.tc))>>)
\* The set must not come into being: found is the error, and the end of the wait is not.
ValidateDataServiceDeploymentNegative(k) == Guard(Try(<<Ask("setThere", k.name)>>), <<[do |-> "return"]>>) \o <<Fail>>
\* An image that is not available is logged, and the deployment updated all the same.
UpdateDataServiceVerison(k) ==
    <<Api(version, "list", ""), Drop(Api(image, "list", "")), Api(dataServiceDeployment, "update", k.name)>>
ValidateDataServiceVolumes(k) ==
    <<Must(Net), Must(Net), Must(Kube("get", "deployment", k.name)), Must(Api(resourceSettingTemplate, "list", "")), Api(storageOptionsTemplate, "list", "")>>
ValidateAllDataServiceVolumes(k) ==
    <<Drop(Kube("get", "deployment", k.name)), Drop(Net), Must(Net), Must(Net), Must(Api(resourceSettingTemplate, "list", "")),
      Api(storageOptionsTemplate, "list", "")>>

----------------------------------------------------------------------------
\* Workloads.  An error leaves what was created.

CreateAndValidate(kind, k) == <<Kube("create", kind, k.name), Ask("running", k.name)>>
CreatePodWorkloads(k) == CreateAndValidate("pod", k)
CreateDeploymentWorkloads(k) == CreateAndValidate("wl", k)
CreatepostgresqlWorkload(k) == CreateAndValidate("wl", k)
CreateRedisWorkload(k) == CreateAndValidate("pod", k)
CreateRmqWorkload(k) == CreateAndValidate("pod", k)
RunMySqlWorkload(k) == CreateAndValidate("wl", k)
RunConsulBenchWorkload(k) == CreateAndValidate("wl", k)

GetDeploymentConnectionInfo(k) == <<Api(dataServiceDeployment, "get", k.dep)>>
GetDeploymentCredentials(k) == <<Api(dataServiceDeployment, "get", k.dep)>>
GetMongoDBConnectionString(k) == GetDeploymentCredentials(k) \o GetDeploymentConnectionInfo(k)
ValidateDNSEndpoint(k) == <<Net>>
Reachable(k) == GetDeploymentConnectionInfo(k) \o ValidateDNSEndpoint(k) \o GetDeploymentCredentials(k)

\* One preparation of the database: a pod that runs to its end and is then deleted.
SetupMysqlDatabaseForTpcc(k) ==
    <<Kube("fresh", "pod", k.name), Ask("podNotRunning", k.name), Kube("list", "pod", k.ns), Branch("setupEnded", k.name)>>
RunTpccWorkload(k) ==
    <<Kube("create", "wl", k.name)>> \o Try(<<Must(Ask("prepared", k.name))>>) \o <<Must(Branch("tpccEnded", k.name))>>
\* The preparation is repeated until it succeeds; for MySQL the result is an error in any case.
CreateTpccWorkloads(k) ==
    Reachable(k)
    \o (IF k.ds = "mysql" THEN Try(SetupMysqlDatabaseForTpcc(k)) \o RunTpccWorkload(k) \o <<Fail>> ELSE RunTpccWorkload(k))
CreateDataServiceWorkloads(k) ==
    Reachable(k)
    \o (CASE k.ds = "postgresql" -> CreatepostgresqlWorkload(k)
          [] k.ds = "rabbitmq" -> CreateRmqWorkload(k)
          [] k.ds = "redis" -> CreateRedisWorkload(k)
          [] k.ds \in {"cassandra", "elasticsearch"} -> CreateDeploymentWorkloads(k)
          [] k.ds = "couchbase" -> CreatePodWorkloads(k)
          [] k.ds = "consul" -> RunConsulBenchWorkload(k)
          [] k.ds = "mysql" -> RunMySqlWorkload(k)
          [] OTHER -> <<>>)

\* workloads.go: the objects that let the generator run are made unless they are there.
GetOrCreate(kind, k) == <<Branch("getOrCreate", kind)>>
createServiceAccount(k) == GetOrCreate("serviceaccount", k)
createRole(k) == GetOrCreate("role", k)
createRoleBinding(k) == GetOrCreate("rolebinding", k)
createClusterRole(k) == GetOrCreate("clusterrole", k)
createClusterRoleBinding(k) == GetOrCreate("clusterrolebinding", k)
createPolicies(k) ==
    createServiceAccount(k) \o createRole(k) \o createRoleBinding(k) \o createClusterRole(k) \o createClusterRoleBinding(k)
ReadChecksum(name) == Try(<<Final(Ask("logged", name))>>)
GenerateWorkload(k) == createPolicies(k) \o CreateAndValidate("wl", k) \o <<Kube("list", "pod", k.ns)>> \o ReadChecksum(k.name)
ReadDataAndReturnChecksum(k) == GenerateWorkload([k EXCEPT !.name = k.reader])
InsertDataAndReturnChecksum(k) == GenerateWorkload(k) \o DeleteK8sDeployments(k) \o ReadDataAndReturnChecksum(k)
\* As many equal pairs as restored deployments, counted over all pairs of the same name.
ValidateDataMd5Hash(backedUp, restored) ==
    Cardinality({p \in backedUp \X restored : p[1].name = p[2].name /\ p[1].sum = p[2].sum}) >= Cardinality(restored)

----------------------------------------------------------------------------
\* Independent volumes

CheckAndDeleteIndependentPV(k) == <<Branch("pv", k.pv)>>
CreateIndependentPV(k) == CheckAndDeleteIndependentPV([k EXCEPT !.all = TRUE]) \o <<Kube("create", "pv", k.pv)>>
CreateIndependentPVC(k) == <<Kube("create", "pvc", k.pv)>>
CreateIndependentMySqlApp(k) == <<Kube("create", "pod", k.name)>>
DeletePvandPVCs(k) == <<Every("claimed", k.pv, "deletePv")>>

----------------------------------------------------------------------------
\* Nodes and pods of a data service

GetPodsFromK8sStatefulSet(k) == Try(<<GetSet>>) \o <<GetSetPods>>
GetK8sNodeObjectUsingPodName(k) == <<Kube("get", "node", k.node)>>
DrainPxPodOnK8sNode(k) == <<Kube("list", "pod", "px"), Ask("pxPod", k.node), Kube("net", "", "")>>
LabelK8sNode(k) == <<Kube("get", "node", k.node)>>
RemoveLabelFromK8sNode(k) == <<Kube("get", "node", k.node)>>
UnCordonK8sNode(k) == Try(<<Kube("uncordon", "node", k.node)>>)
VerifyPxPodOnNode(k) == Try(<<Kube("list", "pod", "px")>>) \o <<Ask("pxPod", k.node)>>
GetNodesOfSS(k) == <<GetSet, GetSetPods, Kube("list", "node", "")>>
GetPodsOfSsByNode(k) == <<GetSet, GetSetPods, Ask("podOnNode", k.node)>>
GetAllDataServiceHostedNodes(k) == <<GetSet, GetSetPods>>

----------------------------------------------------------------------------
\* Storage pools

PickPoolToResize(k) == <<Drop(Net), Must(Net)>>
GetStoragePool(k) == <<Must(Net)>>
RoundUpValue(n) == IF n % 10 = 0 THEN n ELSE n + (10 - (n % 10))
\* An operation under way is no error, and the retry engine runs the closure again only on one.
PoolResizeIsInProgress(k) == Try(<<Ask("lastOperation", k.name)>>) \o <<Net>> \o Try(<<Final(Ask("poolOnline", k.name))>>)
WaitForPoolToBeResized(k) == Try(<<Ask("poolResized", k.name)>>)
ExpandAndValidatePxPool(k) ==
    PickPoolToResize(k) \o GetStoragePool(k)
    \o Guard(PoolResizeIsInProgress(k), <<[do |-> "panic"]>>) \o <<Must(Net), Must(Net), Drop(Kube("expand", "pool", k.name))>>
    \o Guard(WaitForPoolToBeResized(k), <<[do |-> "panic"]>>) \o <<Must(Net)>>

----------------------------------------------------------------------------
\* What is done for an object of a list, and what follows a look at the cluster

WorkloadBody(each, o, k) ==
    CASE each = "validatePod" -> <<Ask("running", o.name)>>
      [] each = "killPod" -> <<Capt(Kube("delete", "pod", o.name))>>
      [] each = "deleteCrd" -> <<Kube("get", "crd", o.name), Kube("delete", "crd", o.name)>>
      [] each = "listImages" -> <<Drop(Api(image, "list", o.name))>>
      [] each = "deletePv" -> <<Branch("pv", o.name)>>
      [] OTHER -> ControlBody(each, o, k)

\* The volume that is there, with the pods of its namespace and its claim when it is bound.
DeletePV(pv, pods, claim) ==
    IF ~There("pv", pv) THEN <<>>
    ELSE (IF claim /\ In("pv", pv, "Bound")
          THEN <<Kube("list", "pod", "ns1")>> \o (IF pods THEN <<Kube("deleteAll", "pod", "ns1")>> ELSE <<>>) \o <<Kube("delete", "pvc", pv)>>
          ELSE <<>>) \o <<Kube("delete", "pv", pv)>>
StateOf(kind, name) == (CHOOSE o \in Named(kind, name) : TRUE).st
Helm(verb, v) == [Kube("helm", "chart", v) EXCEPT !.of = verb]
Following(c) ==
    LET n == Step(c).name
        q == Step(c).q
    IN CASE q = "pv" -> DeletePV(n, Call(c).all, TRUE)
         [] q = "pvUnclaimed" -> DeletePV(n, Call(c).all, FALSE)
         [] q = "getOrCreate" -> IF There(n, n) THEN <<>> ELSE <<Kube("create", n, n)>>
         [] q = "pdsNamespace" -> IF ~There("ns", n) THEN <<Kube("create", "ns", n)>>
                                  ELSE IF \E o \in Named("ns", n) : "pds" \in o.has THEN <<>> ELSE <<Fail>>
         [] q = "registered" -> IF There("pod", "agent") THEN IsLatestPDSHelm(Call(c)) ELSE <<Helm("install", n)>>
         [] q = "latest" -> IF In("chart", "pds", n) /\ ~Call(c).tls THEN <<Net>> ELSE <<Helm("upgrade", n)>>
         [] q = "deregister" -> IF There("pod", "agent") THEN <<Helm("uninstall", "none")>> ELSE <<Net>>
         [] q = "setupEnded" ->
              CASE StateOf("pod", n) = "done" -> <<Drop(Kube("delete", "pod", n))>>
                [] StateOf("pod", n) = "crashed" -> <<Drop(Kube("delete", "pod", n)), [do |-> "again"]>>
                [] OTHER -> <<[do |-> "again"]>>
         [] q = "tpccEnded" ->
              CASE StateOf("wl", n) = "done" -> <<Drop(Kube("delete", "wl", n))>>
                [] StateOf("wl", n) = "crashed" -> <<Fail>>
                [] OTHER -> <<Drop(Kube("delete", "wl", n)), Fail>>
============================================================================
