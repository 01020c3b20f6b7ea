------------------------------- MODULE MCPds -------------------------------
(***************************************************************************)
(* The instance TLC checks: resiliency tests of the kinds the library has,   *)
(* and tours of the other functions, with and without faults.                *)
(***************************************************************************)
EXTENDS Pds

WorkerNodes == <<"w1", "w2">>
k0 == [op |-> "", name |-> "n", n |-> 1, verb |-> "get", ds |-> "ds1", words |-> <<"w1", "w2">>, tc |-> "tc1", ns |-> "ns1",
       ver |-> "v2", tls |-> FALSE, latest |-> FALSE, job |-> "j1", same |-> TRUE, validate |-> TRUE, all |-> FALSE,
       dep |-> "dep1", reader |-> "reader", pv |-> "pv1", node |-> "w1", type |-> "", method |-> ""]
Of(op) == [k0 EXCEPT !.op = op]
Ops(ops) == [i \in DOMAIN ops |-> Of(ops[i])]

NoSet == [want |-> 0, rev |-> 0, pods |-> <<>>]
Running(n) == [want |-> n, rev |-> 0, pods |-> [i \in 1..n |-> [node |-> Workers[i], ready |-> TRUE, term |-> FALSE, rev |-> 0]]]
Starting(n) == [want |-> n, rev |-> 0, pods |-> <<>>]
Updating(n) == [Running(n) EXCEPT !.rev = 1]

Plain == [script |-> <<>>, objs |-> {}, ss |-> NoSet, faults |-> 0, fleeting |-> {}, unlike |-> {{}}, lazy |-> FALSE]
Tour(script, things, f) == [Plain EXCEPT !.script = script, !.objs = things, !.faults = f]

----------------------------------------------------------------------------
\* Resiliency tests

Test(type, method, n, name) ==
    [k0 EXCEPT !.op = "InduceFailureAfterWaitingForCondition", !.type = type, !.method = method, !.n = n, !.name = name]
Resilient(tests, set, things, f) == [Plain EXCEPT !.script = tests, !.ss = set, !.objs = things, !.faults = f]
Templates == {Obj("rtmpl", "rt", "ds1", "ready")}
Job(n, dep) == Obj("job", n, dep, "Succeeded")
Healthy == {Obj("tc", "tc1", "", "healthy")}
Agent == Obj("pod", "agent", "pds-system", "ready")

ResiliencyScenes == <<
    Resilient(<<Test("replicas", "RebootActiveNodeDuringDeployment", 2, "")>>, Starting(2), {}, 0),
    Resilient(<<Test("replicas", "RebootActiveNodeDuringDeployment", 1, "")>>, Starting(1), {}, 1),
    Resilient(<<Test("replicas", "RestartPXDuringDSScaleUp", 1, ""), Test("replicas", "KillPodsInNamespace", 1, "pds-system")>>,
              Starting(1), {Agent}, 1),
    Resilient(<<Test("replicas", "RebootWorkernodesDuringRestore", 1, "quorum")>>, Starting(1), {}, 1),
    Resilient(<<Test("versionUpdate", "NodeRebootDurinAppVersionUpdate", 1, "")>>, Updating(2), {}, 0),
    Resilient(<<Test("versionUpdate", "NodeRebootDurinAppVersionUpdate", 1, "")>>, Updating(1), {}, 1),
    Resilient(<<Test("resourceUpdate", "RestartApplicationDuringResourceUpdate", 1, "")>>, Running(1), Templates, 0),
    Resilient(<<Test("resourceUpdate", "RestartApplicationDuringResourceUpdate", 1, "")>>, Running(1), Templates, 1),
    Resilient(<<Test("restore", "RebootWorkernodesDuringRestore", 1, "all")>>, Running(1), Healthy \cup {Job("j1", Dep)}, 0),
    Resilient(<<Test("restore", "RebootWorkernodesDuringRestore", 1, "all")>>, Running(1), Healthy \cup {Job("j1", Dep), Job("j2", Dep)}, 1),
    Resilient(<<Test("storageResize", "StopPXDuringStorageIncrease", 1, ""), Test("storageResize", "StopPXDuringStorageIncrease", 1, "")>>,
              Running(1), Templates \cup {Obj("atmpl", "a", Dep, "ready")}, 0),
    Resilient(<<Test("storageResize", "StopPXDuringStorageIncrease", 1, "")>>, Running(1), Templates, 1),
    Resilient(<<[Of("MarkResiliencyTC") EXCEPT !.all = FALSE], Of("GetPdsSs"), Of("CheckPodIsTerminating"),
                [Of("ValidateDataServiceDeployment") EXCEPT !.name = Dep]>>, Updating(1), {}, 1) >>

----------------------------------------------------------------------------
\* The control plane and the cluster

Has(o, words) == [o EXCEPT !.has = words]
Two == {Obj("ds", "ds1", "", "ready"), Obj("ds", "ds2", "", "ready"), Obj("rtmpl", "r1", "ds1", "ready"),
        Obj("rtmpl", "r2", "ds2", "ready"), Obj("atmpl", "a1", "ds1", "ready"), Obj("stmpl", "s1", "", "ready"),
        Obj("ns", "ns1", "", "available"), Obj("tc", "tc1", "", "healthy")}
DeployOf(op, name, ds) == [Of(op) EXCEPT !.name = name, !.ds = ds]
Chart(v) == Obj("chart", "pds", "", v)
Registered(v) == {Chart(v), Agent, Obj("apiversion", "v", "", "ready")}
Cleanup == {Obj("tc", "tc1", "", "DOWN"), Obj("tc", "tc2", "", "healthy"), Obj("deployment", "dep1", "tc1", "Available"),
            Obj("deployment", "dep2", "tc2", "Available"), Job("j1", "dep1"), Job("j2", "dep2")}
Bound == {Obj("pv", "pv1", "pv1", "Bound"), Obj("pvc", "pv1", "ns1", "ready"), Obj("pod", "app", "ns1", "done")}
Backed == {Obj("tc", "tc1", "", "healthy"), Job("j1", "dep1"), Obj("ns", "ns1", "", "available")}
Restoring(f, unlike) ==
    [Tour(<<Of("TriggerAndValidateRestore"), Of("GetNameSpaceNameToRestore")>>, Backed, f) EXCEPT !.unlike = unlike]
Storage == {"config", "resources", "storage", "count", "image"}

ControlScenes == <<
    Tour(<<DeployOf("TriggerDeployDataService", "dep1", "ds1"), DeployOf("TriggerDeployDataService", "dep2", "ds2")>>, Two, 1),
    Tour(<<DeployOf("TriggerDeployDSWithSiAndTls", "dep1", "ds1"), DeployOf("TriggerDeployDSWithSiAndTls", "dep2", "ds2")>>, Two, 0),
    Tour(<<[DeployOf("DeployPDSDataservices", "dep1", "ds1") EXCEPT !.latest = TRUE, !.tls = TRUE, !.ns = "pns"]>>,
         Two \cup Registered("v1") \cup {Obj("account", "a", "", "ready"), Obj("tenant", "t", "", "ready"), Has(Obj("ns", "pns", "", "available"), {"pds"})}, 1),
    Tour(<<Of("RegisterToControlPlane"), Of("DeRegisterFromControlPlane"), Of("RegisterToControlPlane")>>, Registered("v1"), 1),
    Tour(<<Of("RegisterClusterToControlPlane"), Of("DeRegisterFromControlPlane")>>, {Chart("none"), Obj("apiversion", "v", "", "ready")}, 1),
    Tour(<<[Of("DeleteAppConfigTemplates") EXCEPT !.words = <<"w1">>], Of("DeleteStorageConfigTemplates"), Of("DeleteResourceSettingTemplates"),
           Of("CreateCustomResourceTemplate"), Of("UpdateCustomResourceTemplates"), Of("UpdateCustomStorageTemplates"), Of("CleanupCustomTemplates")>>,
         {Has(Obj("atmpl", "a1", "", "ready"), {"w1"}), Has(Obj("stmpl", "s1", "", "ready"), {"w1"}), Has(Obj("rtmpl", "r1", "", "ready"), {"w1", "w2"})}, 1),
    Tour(<<Of("DeleteDeploymentTargets")>>, Cleanup, 1),
    Tour(<<Of("DeleteBackUpTargetsAndCredsBelongsToDeploymetTarget")>>,
         {Obj("target", "t1", "c1", "ready"), Obj("target", "t2", "c1", "ready"), Obj("cred", "c1", "", "ready")}, 1),
    Tour(<<Of("CreateAwsS3BackupCredsAndTarget"), Of("DeleteAwsS3BackupCredsAndTarget"), [Of("DeleteBackUpCred") EXCEPT !.all = TRUE],
           Of("DeleteBackUpCred"), Of("DeleteAndValidateBucketDeletion")>>, {}, 1),
    Tour(<<Of("CreateAzureBackupCredsAndTarget"), Of("DeleteAzureBackupCredsAndTarget"), Of("GetAllBackUpTargets")>>, {}, 1),
    Tour(<<Of("CreateGcpBackupCredsAndTarget"), Of("DeleteGoogleBackupCredsAndTarget"), Of("CreateAwsS3MinioBackupCredsAndTarget"),
           Of("GetAllBackupSupportedDataServices")>>, {}, 1),
    [Tour(<<[Of("TriggerAndValidateAdhocBackup") EXCEPT !.name = "dep1"], [Of("GetBackUpJobsOfDeployments") EXCEPT !.name = "dep1"],
            Of("GetDeploymentsOfTargetCluster"), [Of("UpdateDataServices") EXCEPT !.name = "dep1"], [Of("DeleteDeployment") EXCEPT !.name = "dep1"]>>,
          {Obj("deployment", "dep1", "tc1", "Available")}, 1) EXCEPT !.lazy = TRUE],
    Restoring(1, {{}, {"config"}, {"count"}, {"count", "image"}, {"storage"}}),
    [Tour(<<[Of("RestoreDataServiceWithRbac") EXCEPT !.validate = TRUE], [Of("GetNameSpaceNameToRestore") EXCEPT !.same = FALSE, !.ns = "ns2"]>>, Backed, 0)
        EXCEPT !.unlike = {{}, {"resources"}, {"image"}, Storage}],
    Tour(Ops(<<"CreatePostgreSQLClientAndConnect", "ValidateIfTLSEnabled", "WhoAmI", "DeleteS3MinioBucket", "DeleteBucket_aws", "ListFolders",
               "GetCRObject", "UpdateDataServicesWithTLS">>) \o <<[Of("KillPodsInNamespace") EXCEPT !.name = "pds-system"]>>, {Agent, Obj("bucket", "n", "", "ready")}, 1),
    Tour(Ops(<<"GetContext", "CreateSiAndIamRoleBindings">>) \o
         <<[Of("TriggerAndValidateRestore") EXCEPT !.same = FALSE, !.validate = FALSE, !.ns = "ns2"], Of("UpdateTargetClusterWithClusterIssuer"), Of("GetDeploymentTargetID")>>,
         Backed, 1) >>

Verbs == <<"create", "list", "get", "update", "delete">>
ApiScene(i) == Tour([v \in DOMAIN Verbs |-> [Of("ApiMethod") EXCEPT !.n = i, !.verb = Verbs[v]]], {}, 1)

Nodes1 == {Obj("node", "w1", "", "cordoned"), Obj("node", "w2", "", "ready")}
WorkloadOf(op, ds) == [Of(op) EXCEPT !.ds = ds]
Dep1 == {Obj("deployment", "dep1", "tc1", "Available")}
ClusterScenes == <<
    Tour(Ops(<<"CreateK8sPDSNamespace", "ValidateNamespaces", "UpdatePDSNamespce", "DeletePDSNamespace", "ValidateK8sNamespaceDeleted", "CreateTempNS",
               "DeleteK8sNamespace", "CreatePdsLabeledNamespaces">>), {}, 1),
    Tour(Ops(<<"CreateIndependentPV", "CreateIndependentPVC", "CreateIndependentMySqlApp">>), Bound, 1),
    Tour(Ops(<<"DeletePvandPVCs", "CreateIndependentPV">>), Bound, 1),
    Tour(Ops(<<"UnCordonK8sNode", "LabelK8sNode", "RemoveLabelFromK8sNode", "GetK8sNodeObjectUsingPodName", "DrainPxPodOnK8sNode", "VerifyPxPodOnNode">>), Nodes1, 1),
    [Tour(Ops(<<"GetPodsFromK8sStatefulSet", "GetNodesOfSS", "GetPodsOfSsByNode", "GetAllDataServiceHostedNodes",
                "ExecuteCommandInStatefulSetPod">>), {}, 1) EXCEPT !.ss = Running(2)],
    Tour(<<Of("ExpandAndValidatePxPool")>>, {Obj("pool", "n", "", "ok")}, 1),
    Tour(<<WorkloadOf("CreateTpccWorkloads", "mysql"), WorkloadOf("CreateTpccWorkloads", "postgresql")>>, Dep1, 0),
    Tour(<<WorkloadOf("CreateTpccWorkloads", "postgresql")>>, Dep1, 1),
    Tour(<<Of("InsertDataAndReturnChecksum")>>, {}, 0),
    Tour(<<[Of("ValidatePods") EXCEPT !.name = "pds-system"], [Of("GetPDSPods") EXCEPT !.name = "pds-system"], [Of("DeleteK8sPods") EXCEPT !.name = "agent"], Of("DeletePods"), Of("DeletePDSCRDs")>>,
         {Agent, Has(Obj("crd", "crd1", "", "ready"), {"w1"}), Has(Obj("crd", "crd2", "", "ready"), {"w1", "w2"}), Obj("pod", "p", "ns1", "done")}, 1),
    [Tour(Ops(<<"GetAllDataserviceResourceTemplate", "GetAllDataServiceAppConfTemplate", "GetAllVersionsImages", "ValidatePDSDeploymentTargetHealthStatus">>)
          \o [i \in 1..7 |-> [Of(<<"WaitForPDSDeploymentToBeUp", "UpdateDataServiceVerison", "WaitForPDSDeploymentToBeDown", "ValidateDataServiceVolumes",
                "ValidateAllDataServiceVolumes", "GetMongoDBConnectionString", "ValidateDataServiceDeploymentNegative">>[i]) EXCEPT !.name = "dep1"]],
          Two \cup Dep1 \cup {Obj("version", "v", "", "ready")}, 1) EXCEPT !.fleeting = {"deployment"}] >>

Services == <<"postgresql", "rabbitmq", "redis", "cassandra", "couchbase", "consul", "mysql", "other">>
WorkloadScene(i) == Tour(<<WorkloadOf("CreateDataServiceWorkloads", Services[i])>>, Dep1, 1)
AllScenes == [i \in DOMAIN Services |-> WorkloadScene(i)] \o ResiliencyScenes \o ControlScenes \o ClusterScenes \o [i \in DOMAIN Files |-> ApiScene(i)]
\* What the checksums of two backups and two restores can say.
ASSUME ChecksumsCounted ==
    LET S(n, s) == [name |-> n, sum |-> s] IN
    /\ ValidateDataMd5Hash({S("a", 1), S("b", 2)}, {S("a", 1), S("b", 2)})
    /\ ~ValidateDataMd5Hash({S("a", 1), S("b", 2)}, {S("a", 1), S("b", 3)})
    /\ \A n \in 0..99 : RoundUpValue(n) % 10 = 0 /\ RoundUpValue(n) - n \in 0..9
=============================================================================
