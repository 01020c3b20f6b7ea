---------------------------- MODULE AppLifecycle ----------------------------
(***************************************************************************)
(* An application from its spec files to its removal: Schedule, AddTasks,  *)
(* ScheduleUninstall and Destroy of the Kubernetes scheduler driver, called*)
(* by test goroutines that each own an instance id.  An object of the      *)
(* cluster is its kind, the application whose spec names it and its        *)
(* namespace; what a create or destroy function does to an object is a     *)
(* table over kinds.  The API server may fail a request or lose its reply. *)
(***************************************************************************)
EXTENDS Naturals, Sequences, FiniteSets

CONSTANTS
    Callers,       \* instance ids, one per goroutine
    Apps,          \* application keys
    Tests          \* the tests: what each caller schedules, and how

ASSUME AppLifecycleAssumption ==
    \A t \in Tests :
        /\ t.keys \in [Callers -> Seq(Apps)] /\ t.tries \in Nat \ {0} /\ t.faults \in Nat
        \* no instance of an application is named like a namespace of the options
        /\ \A c \in Callers : t.namespace[c] \notin Apps \X Callers

VARIABLE test      \* the test of this behaviour, chosen once

AppKeys == test.keys            \* options.AppKeys of each caller's Schedule, a sequence
SpecDir == test.specs           \* the kinds in the spec files of each application
Manifest == test.charts         \* the kinds in the chart of each application
OptionsNamespace == test.namespace    \* options.Namespace of each caller, or NoNS
RuleCallers == test.rules       \* callers whose options hold an AutopilotRule
Uninstalls == test.uninstalls   \* callers that use AddTasks and ScheduleUninstall
WaitForGone == test.wait        \* OptionsWaitForDestroy
LeakCleanup == test.leak        \* OptionsWaitForResourceLeakCleanup
MaxTries == test.tries          \* bound: attempts of DoRetryWithTimeout before its deadline
MaxFaults == test.faults        \* bound: failed requests, lost replies and vanished objects

----------------------------------------------------------------------------
\* The kinds the parser accepts; an unsupported one fails the whole parse.
validateSpec ==
    {"Deployment", "StatefulSet", "DaemonSet", "Service", "PersistentVolumeClaim", "StorageClass",
     "VolumeSnapshot", "GroupVolumeSnapshot", "Secret", "ConfigMap", "Rule", "Pod", "ClusterPair",
     "Migration", "MigrationSchedule", "BackupLocation", "ApplicationBackup", "SchedulePolicy",
     "ApplicationRestore", "ApplicationClone", "VolumeSnapshotRestore", "AutopilotRule",
     "ServiceAccount", "ClusterRole", "ClusterRoleBinding", "Role", "RoleBinding", "CronJob",
     "Job", "LimitRange", "Ingress", "Prometheus", "PrometheusRule", "ServiceMonitor",
     "Namespace", "CustomResourceDefinitionV1beta1", "CustomResourceDefinition",
     "PodDisruptionBudget", "NetworkPolicy", "Endpoints", "ResourceTransformation",
     "ValidatingWebhookConfiguration", "ValidatingWebhookConfigurationList", "PersistentVolume",
     "VirtualMachine", "Task", "Pipeline"}
ParseSpecsFromYamlBufFails(kinds) == ~ (kinds \subseteq validateSpec)
\* "cr-" files and charts are not decoded.
ParseSpecs(files) ==
    IF ParseSpecsFromYamlBufFails(files \ {"CustomResource", "HelmRepo"}) THEN {} ELSE files

----------------------------------------------------------------------------
\* The create functions: how each kind meets an object that is already there.

Reuse(K) == [k \in K |-> "reuse"]      \* AlreadyExists is answered with a get
Strict(K) == [k \in K |-> "strict"]    \* AlreadyExists is an error
Both(F, G) == [k \in DOMAIN F \cup DOMAIN G |-> IF k \in DOMAIN F THEN F[k] ELSE G[k]]

createNamespace == Reuse({"NamespaceOfApp"})
createMigrationObjects ==
    Both(Strict({"ClusterPair", "Migration", "MigrationSchedule", "ResourceTransformation"}),
         Reuse({"SchedulePolicy"}))
createCRDObjects == Reuse({"CustomResourceDefinition", "CustomResourceDefinitionV1beta1"})
createVolumeSnapshotRestore == Strict({"VolumeSnapshotRestore"})
createStorageClass == Reuse({"StorageClass"})
createPersistentVolumeClaim == Reuse({"PersistentVolumeClaim"})
createSnapshots == Reuse({"VolumeSnapshot", "GroupVolumeSnapshot", "PersistentVolume"})
createStorageObject == Both(createStorageClass, Both(createPersistentVolumeClaim, createSnapshots))
createTektonObjects == Reuse({"Task", "Pipeline"})
createRbacObjects ==
    Reuse({"Role", "RoleBinding", "ClusterRole", "ClusterRoleBinding", "ServiceAccount"})
createWorkloads == Reuse({"Deployment", "StatefulSet"})
createCoreData == Reuse({"Service", "Secret", "Rule"})
createCoreRest == Reuse({"Pod", "ConfigMap", "Endpoints", "NetworkPolicy"})
createCoreObject == Both(createWorkloads, Both(createCoreData, createCoreRest))
createBackupObjects ==
    Strict({"BackupLocation", "ApplicationBackup", "ApplicationRestore", "ApplicationClone"})
createNetworkingObjects == Reuse({"Ingress"})
createBatchObjects == Reuse({"CronJob", "Job"})
createServiceMonitorObjects == Reuse({"ServiceMonitor"})
createPodDisruptionBudgetObjects == Reuse({"PodDisruptionBudget"})
createAdmissionRegistrationObjects ==
    Reuse({"ValidatingWebhookConfiguration", "ValidatingWebhookConfigurationV1beta1"})
createCustomResourceObjects == Reuse({"CustomResource"})        \* kubectl apply
createVirtualMachineObjects == Reuse({"VirtualMachine"})

\* The order in which CreateSpecObjects and then HelmSchedule go over the specs.
CreateSpecObjects ==
    <<createNamespace, createMigrationObjects, createCRDObjects, createVolumeSnapshotRestore,
      createStorageObject, createTektonObjects, createRbacObjects, createCoreObject>>
CreateSpecObjectsRest ==
    <<createBackupObjects, createNetworkingObjects, createBatchObjects,
      createServiceMonitorObjects, createPodDisruptionBudgetObjects,
      createAdmissionRegistrationObjects, createCustomResourceObjects,
      createVirtualMachineObjects>>

Create == CreateSpecObjects \o CreateSpecObjectsRest
CreatePhases == [p \in DOMAIN Create |-> DOMAIN Create[p]] \o <<{"HelmRepo"}>>
ModeOf(k) == LET p == CHOOSE p \in DOMAIN Create : k \in DOMAIN Create[p] IN Create[p][k]

destroyCustomResourceObjects == {"CustomResource"}
destroyAdmissionRegistrationObjects == {"ValidatingWebhookConfiguration"}
destroyRbacObjects == {"ClusterRole", "ClusterRoleBinding", "ServiceAccount"}
destroyCoreObject ==
    {"Deployment", "StatefulSet", "Service", "Rule", "Pod", "ConfigMap", "AutopilotRule"}
destroyVolumeSnapshotRestoreObject == {"VolumeSnapshotRestore"}
destroyMigrationObject ==
    {"ClusterPair", "Migration", "MigrationSchedule", "SchedulePolicy", "ResourceTransformation"}
destroyBackupObjects ==
    {"BackupLocation", "ApplicationBackup", "ApplicationRestore", "ApplicationClone"}
destroyServiceMonitorObjects == {"ServiceMonitor"}
destroyPodDisruptionBudgetObjects == {"PodDisruptionBudget"}
destroyVirtualMachineObjects == {"VirtualMachine"}
destroyCRDObjects == {"CustomResourceDefinition", "CustomResourceDefinitionV1beta1"}

\* The rule of the options is deleted between the custom resources and the rest.
DestroyPhases ==
    <<destroyCustomResourceObjects, {"RuleOfOptions"}, destroyAdmissionRegistrationObjects,
      destroyRbacObjects, destroyCoreObject, destroyVolumeSnapshotRestoreObject,
      destroyMigrationObject, destroyBackupObjects, destroyServiceMonitorObjects,
      destroyPodDisruptionBudgetObjects, destroyVirtualMachineObjects, destroyCRDObjects>>

\* The kinds RemoveAppSpecsByName compares.
RemovableKinds ==
    {"ConfigMap", "ClusterRole", "ClusterRoleBinding", "Deployment", "Job",
     "PersistentVolumeClaim", "Prometheus", "PrometheusRule", "Role", "RoleBinding", "Secret",
     "Service", "ServiceAccount", "ServiceMonitor", "StatefulSet", "ClusterPair"}

ClusterScoped ==
    {"StorageClass", "PersistentVolume", "SchedulePolicy", "CustomResourceDefinition",
     "CustomResourceDefinitionV1beta1", "ClusterRole", "ClusterRoleBinding",
     "ValidatingWebhookConfiguration", "ValidatingWebhookConfigurationV1beta1",
     "RuleOfOptions",
     "ApplicationClone"}     \* keeps the namespace of its spec file
Workloads == {"Deployment", "StatefulSet", "Pod"}
\* "It does not delete the volumes of the task": what Destroy leaves on purpose.
Volumes == createStorageObject

Phase(k, phases) == CHOOSE p \in DOMAIN phases : k \in phases[p]
Handled(K, phases) == {k \in K : \E p \in DOMAIN phases : k \in phases[p]}
Earliest(K, phases) == {k \in K : \A j \in K : Phase(k, phases) <= Phase(j, phases)}

----------------------------------------------------------------------------
VARIABLES
    cluster,     \* external: the objects the API server holds
    pods, dirs,  \* external: workloads with a pod, and with a pod volume directory on a node
    specNS,      \* Namespace of the spec objects, which all copies of an app share
    ctxs,        \* contexts each caller holds: app |-> the objects of its SpecList
    th,          \* each caller's call
    faults,      \* faults so far
    left,        \* history: objects of contexts whose Destroy returned nil
    redirected,  \* history: objects a caller was given in a namespace that is not its own
    unclean      \* history: releases an uninstall of which returned an error

vars == <<test, cluster, pods, dirs, specNS, ctxs, th, faults, left, redirected, unclean>>
clusterVars == <<pods, dirs>>
history == <<left, redirected, unclean>>

NoNS == <<>>
SpecFactory == [a \in Apps |-> ParseSpecs(SpecDir[a])]
\* Mutant: the instance id is left out of the namespace.
GetIDOfApp(a, c) == <<a, CHOOSE d \in Callers : TRUE>>
GetID(a, c) == <<a, c>>
NamespaceFor(a, c) == IF OptionsNamespace[c] = NoNS THEN GetID(a, c) ELSE OptionsNamespace[c]
Object(k, a, ns) == [kind |-> k, app |-> a, ns |-> IF k \in ClusterScoped THEN NoNS ELSE ns]
Idle == [pc |-> "idle", call |-> "none", i |-> 0, app |-> "none", ctx |-> "none",
         ns |-> NoNS, todo |-> {}, tries |-> 0, specs |-> {}, kind |-> "none", found |-> FALSE,
         upgrade |-> FALSE]

Init ==
    /\ test \in Tests
    /\ cluster = {} /\ pods = {} /\ dirs = {} /\ left = {} /\ redirected = {} /\ unclean = {}
    /\ specNS = [a \in Apps |-> [k \in SpecFactory[a] |-> NoNS]]
    /\ ctxs = [c \in Callers |-> <<>>]
    /\ th = [c \in Callers |-> Idle]
    /\ faults = 0

\* DeepCopy copies pointers.  The create functions answer with the API server's copy,
\* save for a custom resource: its entry in the SpecList is the shared spec, whose
\* namespace is whatever the last create wrote there.
Target(o) ==
    IF o.kind = "CustomResource" THEN [o EXCEPT !.ns = specNS[o.app]["CustomResource"]] ELSE o

SetSpecNS(a, k, ns) == specNS' = [specNS EXCEPT ![a] = [specNS[a] EXCEPT ![k] = ns]]

----------------------------------------------------------------------------
\* Schedule and AddTasks

\* The objects of app a are created for the context of app ctx.
StartApp(c, call, i, a, ctx, specs, upgrade) ==
    th' = [th EXCEPT ![c] =
             [pc |-> "create", call |-> call, i |-> i, app |-> a, ctx |-> ctx, tries |-> 0,
              ns |-> NamespaceFor(ctx, c), specs |-> specs, kind |-> "none", found |-> FALSE,
              upgrade |-> upgrade,
              todo |-> Handled(SpecFactory[a] \cup {"NamespaceOfApp"}, CreatePhases)]]

Schedule(c) ==
    /\ th[c].pc = "idle" /\ AppKeys[c] # <<>>
    /\ StartApp(c, "schedule", 1, AppKeys[c][1], AppKeys[c][1], {}, FALSE)
    /\ UNCHANGED <<cluster, clusterVars, specNS, ctxs, faults, history>>

\* New objects go to the namespace of the context, under the name of their own app.
AddTasks(c, a, b, upgrade) ==
    /\ th[c].pc = "running" /\ c \in Uninstalls
    /\ a \in DOMAIN ctxs[c] /\ b \in Apps \ {AppKeys[c][i] : i \in DOMAIN AppKeys[c]}
    /\ StartApp(c, "add", 0, b, a, ctxs[c][a], upgrade)
    /\ UNCHANGED <<cluster, clusterVars, specNS, ctxs, faults, history>>

\* An error drops the contexts of a Schedule; AddTasks leaves its context as it was.
CallFails(c) ==
    IF th[c].call = "schedule"
    THEN /\ th' = [th EXCEPT ![c] = [Idle EXCEPT !.pc = "failed", !.app = th[c].app]]
         /\ ctxs' = [ctxs EXCEPT ![c] = <<>>]
    ELSE th' = [th EXCEPT ![c] = [Idle EXCEPT !.pc = "running"]] /\ UNCHANGED ctxs

\* Mutant: the deadline is never reached.
RetryForever(c) == UNCHANGED <<th, ctxs>>

\* DoRetryWithTimeout: another attempt, or the error once the deadline has passed.
Retry(c) ==
    IF th[c].tries + 1 < MaxTries
    THEN /\ th' = [th EXCEPT ![c] = [th[c] EXCEPT !.tries = th[c].tries + 1, !.kind = "none",
                                                 !.found = FALSE]]
         /\ UNCHANGED ctxs
    ELSE CallFails(c)

WantsRule(c, k) == c \in RuleCallers /\ k = "PersistentVolumeClaim"
RuleOf(a) == Object("RuleOfOptions", a, NoNS)

\* Kinds whose function does not read a shared namespace: it is given its own.
GivenNamespace == {"NamespaceOfApp", "CustomResource"}
\* Kinds that are found without a second read of the shared spec: kubectl apply, and the
\* claim, of which the function makes a copy.
AtOnce == {"CustomResource", "PersistentVolumeClaim"}

\* The object that a request of caller c is about: its namespace is read from the shared
\* spec when the request is made, and another copy of the application may have written it.
Requested(c) ==
    LET k == th[c].kind
    IN Object(k, th[c].app, IF k \in GivenNamespace THEN th[c].ns ELSE specNS[th[c].app][k])

Misplaced(c, objs) == {o \in objs : o.kind \notin ClusterScoped /\ o.ns # th[c].ns}

\* obj.Namespace = ns.Name, the first thing the function of a kind does.
SetNamespace(c, k) ==
    /\ th[c].kind = "none"
    /\ IF k \in GivenNamespace THEN UNCHANGED specNS ELSE SetSpecNS(th[c].app, k, th[c].ns)
    /\ th' = [th EXCEPT ![c] = [th[c] EXCEPT !.kind = k]]
    /\ UNCHANGED <<cluster, clusterVars, ctxs, faults, history>>

\* The function returns o, which is appended to the spec objects.
Created(c, o) ==
    /\ th' = [th EXCEPT ![c] =
                 [th[c] EXCEPT !.todo = th[c].todo \ {th[c].kind}, !.tries = 0, !.kind = "none",
                               !.found = FALSE,
                               !.specs = th[c].specs \cup ({o} \ {Object("NamespaceOfApp", o.app, o.ns)})]]
    /\ redirected' = redirected \cup Misplaced(c, {o})

\* The object is new.  The claim's rule is created only after the claim itself.
CreateObject(c) ==
    LET k == th[c].kind  o == Requested(c)
    IN /\ ~ th[c].found /\ (o \in cluster => k \in AtOnce)
       /\ cluster' = cluster \cup {o} \cup
                       {r \in {RuleOf(th[c].app)} : WantsRule(c, k) /\ o \notin cluster}
       /\ IF k = "CustomResource" THEN SetSpecNS(th[c].app, k, th[c].ns) ELSE UNCHANGED specNS
       /\ Created(c, o)
       /\ UNCHANGED <<clusterVars, ctxs, faults, left, unclean>>

\* AlreadyExists: the function goes on with a get.
FindObject(c) ==
    /\ ~ th[c].found /\ Requested(c) \in cluster
    /\ ModeOf(th[c].kind) = "reuse" /\ th[c].kind \notin AtOnce
    /\ th' = [th EXCEPT ![c] = [th[c] EXCEPT !.found = TRUE]]
    /\ UNCHANGED <<cluster, clusterVars, specNS, ctxs, faults, history>>

GetObject(c) ==
    /\ th[c].found /\ Requested(c) \in cluster
    /\ Created(c, Requested(c))
    /\ UNCHANGED <<cluster, clusterVars, specNS, ctxs, faults, left, unclean>>

\* An attempt fails: the object exists and that is an error, the get does not find it,
\* the request fails, its reply is lost, or the claim is made and its rule is not.
CreateAttemptFails(c) ==
    LET o == Requested(c)
    IN /\ \/ /\ IF th[c].found THEN o \notin cluster
                               ELSE o \in cluster /\ ModeOf(th[c].kind) = "strict"
             /\ UNCHANGED <<cluster, faults>>
          \/ /\ faults < MaxFaults /\ faults' = faults + 1
             /\ cluster' \in {cluster} \cup {cluster \cup {o} : f \in {th[c].found} \cap {FALSE}}
       /\ redirected' = redirected \cup Misplaced(c, cluster' \ cluster)
       /\ Retry(c)
       /\ UNCHANGED <<clusterVars, specNS, left, unclean>>

CreateStep(c) ==
    /\ th[c].pc = "create" /\ th[c].kind # "HelmRepo"
    /\ \/ \E k \in Earliest(th[c].todo, CreatePhases) \ {"HelmRepo"} : SetNamespace(c, k)
       \/ /\ th[c].kind # "none"
          /\ CreateObject(c) \/ FindObject(c) \/ GetObject(c) \/ CreateAttemptFails(c)

----------------------------------------------------------------------------
\* Helm

Release(a, ns) == Object("HelmRelease", a, ns)
Chart(a, ns) == {Object(k, a, ns) : k \in Manifest[a]}
Installed(a, ns) == Chart(a, ns) \cup {Release(a, ns)}

\* helm install refuses a release name that is in use, helm upgrade one that is not.
ChartRefused(upgrade, a, ns) == upgrade # (Release(a, ns) \in cluster)

\* The parameters and the repositories: the namespace is set once they are read.
\* Nothing of a chart's installation is retried.
HelmPrepare(c) ==
    /\ th[c].pc = "create" /\ th[c].todo = {"HelmRepo"} /\ th[c].kind = "none"
    /\ \/ /\ SetSpecNS(th[c].app, "HelmRepo", th[c].ns)
          /\ th' = [th EXCEPT ![c] = [th[c] EXCEPT !.kind = "HelmRepo"]]
          /\ UNCHANGED <<ctxs, faults>>
       \/ /\ faults < MaxFaults /\ faults' = faults + 1
          /\ CallFails(c) /\ UNCHANGED specNS
    /\ UNCHANGED <<cluster, clusterVars, history>>

\* A chart that fails half-way, or whose answer is lost, leaves any part of itself.
HelmSchedule(c) ==
    LET a == th[c].app  ns == specNS[a]["HelmRepo"]
    IN /\ th[c].pc = "create" /\ th[c].kind = "HelmRepo"
       /\ \/ /\ ~ ChartRefused(th[c].upgrade, a, ns)
             /\ cluster' = cluster \cup Installed(a, ns)
             /\ IF ParseSpecsFromYamlBufFails(Manifest[a])
                THEN CallFails(c)
                ELSE /\ th' = [th EXCEPT ![c] = [th[c] EXCEPT !.todo = {}, !.kind = "none",
                                                   !.specs = th[c].specs \cup Chart(a, ns)]]
                     /\ UNCHANGED ctxs
             /\ UNCHANGED faults
          \/ /\ ChartRefused(th[c].upgrade, a, ns)
             /\ UNCHANGED <<cluster, faults>> /\ CallFails(c)
          \/ /\ faults < MaxFaults /\ faults' = faults + 1
             /\ ~ ChartRefused(th[c].upgrade, a, ns)
             /\ \E made \in SUBSET Installed(a, ns) : cluster' = cluster \cup made
             /\ CallFails(c)
       /\ redirected' = redirected \cup Misplaced(c, Installed(a, ns))
       /\ UNCHANGED <<clusterVars, specNS, left, unclean>>

AppCreated(c) ==
    LET next == th[c].i + 1
    IN /\ th[c].pc = "create" /\ th[c].todo = {}
       /\ ctxs' = [ctxs EXCEPT ![c] =
                     [a \in DOMAIN ctxs[c] \cup {th[c].ctx} |->
                         IF a = th[c].ctx THEN th[c].specs ELSE ctxs[c][a]]]
       /\ IF th[c].call = "schedule" /\ next <= Len(AppKeys[c])
          THEN StartApp(c, "schedule", next, AppKeys[c][next], AppKeys[c][next], {}, FALSE)
          ELSE th' = [th EXCEPT ![c] = [Idle EXCEPT !.pc = "running"]]
       /\ UNCHANGED <<cluster, clusterVars, specNS, faults, history>>

\* Specs are matched by kind and name, whatever their namespace.
RemoveAppSpecsByName(specs, removed) ==
    {o \in specs : ~ \E r \in removed :
        o.kind = r.kind /\ o.app = r.app /\ o.kind \in RemovableKinds}

\* UnInstallHelmChart works in the namespace the shared HelmRepo carries.  An error, of
\* the uninstall itself or of the parser, leaves the context as it was, and whatever is
\* gone by then; a release that is not there is an error with no effect.
ScheduleUninstall(c, a, b) ==
    LET ns == specNS[b]["HelmRepo"]  fails == ParseSpecsFromYamlBufFails(Manifest[b])
    IN /\ th[c].pc = "running" /\ c \in Uninstalls
       /\ a \in DOMAIN ctxs[c] /\ "HelmRepo" \in SpecFactory[b]
       /\ Release(b, ns) \in cluster
       /\ \/ /\ cluster' = cluster \ Installed(b, ns)
             /\ ctxs' = IF fails THEN ctxs
                        ELSE [ctxs EXCEPT ![c] = [ctxs[c] EXCEPT ![a] =
                                RemoveAppSpecsByName(ctxs[c][a], Chart(b, ns))]]
             /\ unclean' = IF fails THEN unclean \cup {Release(b, ns)} ELSE unclean
             /\ UNCHANGED faults
          \/ /\ faults < MaxFaults /\ faults' = faults + 1
             /\ \E gone \in SUBSET Installed(b, ns) : cluster' = cluster \ gone
             /\ unclean' = unclean \cup {Release(b, ns)}
             /\ UNCHANGED ctxs
       /\ UNCHANGED <<clusterVars, specNS, th, left, redirected>>

----------------------------------------------------------------------------
\* Destroy

DestroyStart(c, a) ==
    LET specs == ctxs[c][a]
    IN /\ th[c].pc = "running" /\ a \in DOMAIN ctxs[c]
       /\ th' = [th EXCEPT ![c] =
                   [pc |-> "destroy", call |-> "destroy", i |-> 0, app |-> a, ctx |-> a,
                    ns |-> NoNS, tries |-> 0, specs |-> specs, kind |-> "none", found |-> FALSE,
                    upgrade |-> FALSE,
                    todo |-> {o \in specs : Handled({o.kind}, DestroyPhases) # {}}
                                \cup {r \in {RuleOf(a)} : c \in RuleCallers}]]
       /\ UNCHANGED <<cluster, clusterVars, specNS, ctxs, faults, history>>

DestroyReturnsNil(c) ==
    /\ th' = [th EXCEPT ![c] = [Idle EXCEPT !.pc = "running"]]
    /\ ctxs' = [ctxs EXCEPT ![c] = [a \in DOMAIN ctxs[c] \ {th[c].app} |-> ctxs[c][a]]]
    /\ left' = left \cup th[c].specs

DestroyFails(c) == th' = [th EXCEPT ![c] = [Idle EXCEPT !.pc = "running"]]

NextObjects(c) ==
    LET kinds == {o.kind : o \in th[c].todo}
    IN {o \in th[c].todo : o.kind \in Earliest(kinds, DestroyPhases)}

DestroyObject(c, o) ==
    /\ Target(o) \in cluster \/ o.kind \in destroyCoreObject    \* "not found" is tolerated
    /\ cluster' = cluster \ {Target(o)}
    /\ th' = [th EXCEPT ![c] = [th[c] EXCEPT !.todo = th[c].todo \ {o}, !.tries = 0]]
    /\ UNCHANGED <<clusterVars, specNS, ctxs, faults, history>>

\* The rule of the options is not there: Destroy returns nil on the spot.
DestroyRuleNotFound(c, o) ==
    /\ o.kind = "RuleOfOptions" /\ o \notin cluster
    /\ DestroyReturnsNil(c)
    /\ UNCHANGED <<cluster, clusterVars, specNS, faults, redirected, unclean>>

\* Mutant: the core phase goes on after an error under any option.
DestroyAttemptIgnored(c, o) ==
    /\ faults < MaxFaults /\ faults' = faults + 1
    /\ th' = [th EXCEPT ![c] = [th[c] EXCEPT !.todo = th[c].todo \ {o}, !.tries = 0]]
    /\ UNCHANGED <<cluster, clusterVars, specNS, ctxs, history>>

\* Another attempt, or the error; under LeakCleanup the core phase goes on regardless.
DestroyAttemptFails(c, o) ==
    /\ \/ /\ Target(o) \notin cluster
          /\ o.kind \notin destroyCoreObject \cup {"RuleOfOptions"}
          /\ UNCHANGED <<cluster, faults>>
       \/ /\ faults < MaxFaults /\ faults' = faults + 1
          /\ cluster' \in {cluster, cluster \ {Target(o)}}
    /\ IF th[c].tries + 1 < MaxTries /\ o.kind # "RuleOfOptions"
       THEN th' = [th EXCEPT ![c] = [th[c] EXCEPT !.tries = th[c].tries + 1]]
       ELSE IF LeakCleanup /\ o.kind \in destroyCoreObject
            THEN th' = [th EXCEPT ![c] = [th[c] EXCEPT !.todo = th[c].todo \ {o}, !.tries = 0]]
            ELSE DestroyFails(c)
    /\ UNCHANGED <<clusterVars, specNS, ctxs, history>>

DestroyStep(c) ==
    /\ th[c].pc = "destroy" /\ th[c].todo # {}
    /\ \E o \in NextObjects(c) :
          DestroyObject(c, o) \/ DestroyRuleNotFound(c, o) \/ DestroyAttemptFails(c, o)

WaitForDestroy(c) ==
    \A o \in th[c].specs : o.kind \in Workloads \cup {"Service"} => o \notin cluster \cup pods

\* Destroy collects the pods to check only from attempts that failed, whose result
\* is nil: waitForCleanup goes over an empty list.
waitForCleanup(podList) == \A o \in podList : o \notin dirs

DestroyReturns(c) ==
    /\ th[c].pc = "destroy" /\ th[c].todo = {}
    /\ \/ /\ WaitForGone \/ LeakCleanup => WaitForDestroy(c)
          /\ LeakCleanup => waitForCleanup({})
          /\ DestroyReturnsNil(c)
       \/ /\ (WaitForGone \/ LeakCleanup) /\ ~ WaitForDestroy(c)     \* timed out
          /\ DestroyFails(c) /\ UNCHANGED <<ctxs, left>>
    /\ UNCHANGED <<cluster, clusterVars, specNS, faults, redirected, unclean>>

----------------------------------------------------------------------------
\* The cluster on its own

PodsStart(o) ==
    /\ o \in cluster \ pods /\ o.kind \in Workloads
    /\ pods' = pods \cup {o} /\ dirs' = dirs \cup {o}
    /\ UNCHANGED <<cluster, specNS, ctxs, th, faults, history>>

PodsStop(o) ==
    /\ o \in pods \ cluster
    /\ pods' = pods \ {o}
    /\ UNCHANGED <<cluster, dirs, specNS, ctxs, th, faults, history>>

DirsCleaned(o) ==
    /\ o \in dirs \ pods
    /\ dirs' = dirs \ {o}
    /\ UNCHANGED <<cluster, pods, specNS, ctxs, th, faults, history>>

\* "during helm upgrade or uninstall, objects may be deleted"
Vanish(o) ==
    /\ o.kind \in destroyCoreObject
    /\ faults < MaxFaults /\ faults' = faults + 1
    /\ cluster' = cluster \ {o}
    /\ UNCHANGED <<clusterVars, specNS, ctxs, th, history>>

CallStep(c) ==
    /\ CreateStep(c) \/ HelmPrepare(c) \/ HelmSchedule(c) \/ AppCreated(c) \/ DestroyStep(c) \/ DestroyReturns(c)
    /\ UNCHANGED test

Next ==
    /\ \/ \E c \in Callers :
             \/ Schedule(c) \/ CallStep(c)
             \/ \E a \in Apps : DestroyStart(c, a)
             \/ \E a, b \in Apps :
                   ScheduleUninstall(c, a, b) \/ \E upgrade \in BOOLEAN : AddTasks(c, a, b, upgrade)
       \/ \E o \in cluster : PodsStart(o) \/ Vanish(o)
       \/ \E o \in pods \cup dirs : PodsStop(o) \/ DirsCleaned(o)
    /\ UNCHANGED test

\* Every API call and every retry has a deadline, so a call that began goes on.
Fairness == \A c \in Callers : WF_vars(CallStep(c))
Spec == Init /\ [][Next]_vars /\ Fairness

----------------------------------------------------------------------------
Kinds == (UNION {CreatePhases[p] : p \in DOMAIN CreatePhases})
            \cup (UNION {DestroyPhases[p] : p \in DOMAIN DestroyPhases})
            \cup RemovableKinds \cup validateSpec \cup {"HelmRelease"}
            \cup (UNION {Manifest[a] : a \in Apps})
InstanceNamespaces == Apps \X Callers
Objects == [kind : Kinds, app : Apps,
            ns : {NoNS} \cup InstanceNamespaces \cup {OptionsNamespace[c] : c \in Callers}]

(* Every object of the cluster, of a context and of a call is an object    *)
(* some spec names, in the namespace its caller gave it.                   *)
TypeOK ==
    /\ cluster \subseteq Objects /\ pods \subseteq Objects /\ dirs \subseteq Objects
    /\ \A c \in Callers :
          /\ DOMAIN ctxs[c] \subseteq {AppKeys[c][i] : i \in DOMAIN AppKeys[c]}
          /\ \A a \in DOMAIN ctxs[c] : ctxs[c][a] \subseteq Objects
          /\ th[c].pc \in {"idle", "create", "running", "failed", "destroy"}
          /\ th[c].specs \subseteq Objects /\ th[c].tries \in 0 .. MaxTries - 1
          /\ th[c].kind # "none" => th[c].pc = "create" /\ th[c].kind \in th[c].todo

\* The callers that may run application a in this test.
RunBy(a) == {c \in Callers : c \in Uninstalls \/ \E i \in DOMAIN AppKeys[c] : AppKeys[c][i] = a}
\* One caller runs application a, as one of those it schedules.
OneOwner(a) == \E c \in Callers : RunBy(a) = {c} /\ \E i \in DOMAIN AppKeys[c] : AppKeys[c][i] = a
(* A Schedule of an application that no other caller runs fails on lost    *)
(* replies and failed requests only when there are as many of them as      *)
(* attempts before the deadline: the create functions take an object they  *)
(* find (AlreadyExists), save those of the stork kinds (migration, snapshot*)
(* restore and backup objects).                                            *)
LostReplyTolerated ==
    \A c \in Callers :
        th[c].pc = "failed" /\ MaxFaults < MaxTries /\ RunBy(th[c].app) = {c} =>
            \E k \in SpecFactory[th[c].app] :
                k \in {"HelmRepo", "VolumeSnapshotRestore"} \cup destroyMigrationObject
                        \cup destroyBackupObjects

\* What is not of one namespace: cluster-scoped objects, and custom resources, whose
\* namespace is that of the spec all copies of the application share.
SharedKinds == ClusterScoped \cup {"CustomResource"}

(* A custom resource is in the cluster only while its definition is:       *)
(* CreateSpecObjects makes custom resources after the CRDs, and Destroy    *)
(* removes them first and stops when it cannot.  The spec files must hold  *)
(* the definition, and one caller alone run the application: a definition  *)
(* that callers share goes with the first Destroy.                         *)
CustomResourceHasCRD ==
    \A o \in cluster :
        /\ o.kind = "CustomResource" /\ OneOwner(o.app)
        /\ "CustomResourceDefinition" \in SpecFactory[o.app]
        /\ Manifest[o.app] \cap {"CustomResource", "CustomResourceDefinition"} = {}
        => Object("CustomResourceDefinition", o.app, NoNS) \in cluster

\* An object in the namespace of one caller's instance, which no other caller was given
\* because it ran the same application and its write to the shared spec came last.
InOwnNamespace(o) == o.ns \in {NoNS} \cup InstanceNamespaces /\ o \notin redirected

(* After a Destroy that returned nil none of the context's objects of the  *)
(* kinds the destroy functions know is in the cluster, then or later,      *)
(* whatever another copy of the application does meanwhile; save objects   *)
(* that went to another copy's namespace, shared ones of an application    *)
(* that others run too, and unless the options hold a rule or ask for the  *)
(* leak cleanup.                                                           *)
DestroyRemovesKnownKinds ==
    RuleCallers = {} /\ ~LeakCleanup =>
        \A o \in left :
            /\ Handled({o.kind}, DestroyPhases) # {} /\ InOwnNamespace(o)
            /\ o.kind \in SharedKinds => OneOwner(o.app)
            => o \notin cluster

(* A Destroy that waits for the application returns nil only once no pod   *)
(* of its workloads is left (WaitForDestroy), and none comes back, unless  *)
(* another copy's workload went to its namespace, or the options hold a    *)
(* rule: a rule that is not found ends Destroy at once.                    *)
DestroyWaitsForPods ==
    WaitForGone /\ RuleCallers = {} => \A o \in left : InOwnNamespace(o) => o \notin pods

(* No Schedule, AddTasks or Destroy of a caller removes an object in the   *)
(* namespace of another caller's application, unless that very object was  *)
(* given to it: two Schedules of one application write their namespaces    *)
(* into the same spec objects, and one may create, or find, an object in   *)
(* the other's.  Of a custom resource the SpecList entry itself is shared, *)
(* so it counts only where no other caller runs its application.           *)
(* (ScheduleUninstall, during which th does not change, works in whatever  *)
(* namespace the shared HelmRepo carries.)                                 *)
NoCrossDeletion ==
    [][\A c, d \in Callers : c # d /\ th'[c] # th[c] =>
         \A o \in cluster \ cluster' :
            /\ o.ns \in InstanceNamespaces /\ o \notin redirected
            /\ o.kind = "CustomResource" => RunBy(o.app) \subseteq {c}
            => o.ns[2] # d]_vars

(* Schedule and Destroy return: no retry goes on for ever.                 *)
CallsReturn ==
    \A c \in Callers : th[c].pc \in {"create", "destroy"} ~> th[c].pc \in {"running", "failed"}

\* One caller runs application a, and it holds one context.
OneContext(a) == \E c \in Callers : RunBy(a) = {c} /\ Len(AppKeys[c]) = 1

(* "so those objects will not be accessed during context validation and    *)
(* app destroy": a chart object that was uninstalled, of a kind that       *)
(* RemoveAppSpecsByName compares, is in no context.  Only the context given*)
(* to ScheduleUninstall is cleaned, and the release that goes is the one   *)
(* the shared HelmRepo names: so the application runs in one context.  An  *)
(* uninstall that returns an error leaves its objects listed.              *)
UninstalledNotListed ==
    \A c \in Callers : \A a \in DOMAIN ctxs[c] : \A o \in ctxs[c][a] :
        /\ o.kind \in Manifest[o.app] \cap RemovableKinds
        /\ "HelmRepo" \in SpecFactory[o.app] /\ OneContext(o.app)
        => Release(o.app, NamespaceFor(a, c)) \in cluster \cup unclean

(* The cluster and the contexts agree with what Schedule and Destroy have  *)
(* returned, whatever the other caller did meanwhile and whichever replies *)
(* were lost.                                                              *)
AppsSound ==
    /\ TypeOK /\ LostReplyTolerated /\ CustomResourceHasCRD
    /\ DestroyRemovesKnownKinds /\ DestroyWaitsForPods /\ UninstalledNotListed
=============================================================================
