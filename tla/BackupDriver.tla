---------------------------- MODULE BackupDriver ----------------------------
(***************************************************************************)
(* The Portworx backup driver, drivers/backup/portworx/portworx.go, with    *)
(* the identity client of Keycloak.tla.  The driver turns a call about a    *)
(* named object into requests to the backup server: one that lists the      *)
(* objects of the kind, page by page, to find the UID behind the name, the  *)
(* request itself, and, for the waits, an inspection that                   *)
(* task.DoRetryWithTimeout repeats.  The server goes on between any two     *)
(* requests: backups progress, deletions complete, other tests create and   *)
(* delete.  A request can fail, and can lose its answer.                    *)
(***************************************************************************)
EXTENDS Keycloak

CONSTANTS
    EnumerateBatchSize,     \* enumerateBatchSize, 100 in the code
    MaxTries                \* attempts of DoRetryWithTimeout before its deadline

VARIABLES
    store,      \* the server's objects of each kind, in the order it lists them
    lk,         \* what a thread knows of the objects it asks for
    acted       \* history: the changing requests the server carried out

srvVars == <<store, lk, acted>>
vars == <<scene, th, realm, links, secret, lastId, faults, store, lk, acted>>

\* How objects of a kind are listed and deleted by the server.
Kinds == {"CloudCredential", "Cluster", "BackupLocation", "Backup", "Restore",
          "SchedulePolicy", "BackupSchedule", "Rule"}
Running == {"Backup", "Restore"}
DeletedLater == {"Cluster", "BackupLocation", "Backup", "Restore", "BackupSchedule"}

Unknown == [uid |-> NoId, index |-> 0, seen |-> 0, tries |-> 0, known |-> <<>>, shrunk |-> FALSE]

User(t) == IF th[t].token THEN "admin" ELSE Scene.user[t[1]]
Visible(kind, user) == SelectSeq(store[kind], LAMBDA o : user \in {o.owner, "admin"})

----------------------------------------------------------------------------
\* The calls as sequences of requests

Uid(kind, name) == [do |-> "uid", kind |-> kind, name |-> name]
Send(verb, kind, name) == [do |-> "send", verb |-> verb, kind |-> kind, name |-> name]
Poll(kind, name) == [do |-> "poll", kind |-> kind, name |-> name]

\* The calls of each section of the driver that fill in a missing UID first.  The
\* others pass the request on as it is.
CloudCredentialCalls == {"Update", "Inspect", "Delete", "UpdateOwnership"}
ClusterCalls == {"Update", "UpdateBackupShare"}
BackupLocationCalls == {"Update", "Inspect", "Delete", "Validate", "UpdateOwnership"}
BackupCalls == {"Update", "Inspect", "Delete", "UpdateBackupShare"}
RestoreCalls == {"Update", "Inspect", "Delete"}
SchedulePolicyCalls == {"Update", "Inspect", "Delete", "UpdateOwnership"}
BackupScheduleCalls == {"Update", "Inspect", "Delete"}
RuleCalls == {"Update", "Inspect", "Delete", "UpdateOwnership"}
Fills(kind) ==
    CASE kind = "CloudCredential" -> CloudCredentialCalls [] kind = "Cluster" -> ClusterCalls
      [] kind = "BackupLocation" -> BackupLocationCalls [] kind = "Backup" -> BackupCalls
      [] kind = "Restore" -> RestoreCalls [] kind = "SchedulePolicy" -> SchedulePolicyCalls
      [] kind = "BackupSchedule" -> BackupScheduleCalls [] kind = "Rule" -> RuleCalls

\* The requests the type switches of the SetMissing functions know: all of the above.
SetMissingCloudCredentialUID == {"Inspect", "Delete", "Update", "UpdateOwnership"}
SetMissingClusterUID == {"Inspect", "Delete", "UpdateBackupShare", "Update"}
SetMissingBackupLocationUID == {"Inspect", "Update", "Validate", "UpdateOwnership", "Delete"}
SetMissingBackupUID == {"Inspect", "Delete", "Update", "UpdateBackupShare"}
SetMissingRestoreUID == {"Inspect", "Delete", "Update"}
SetMissingSchedulePolicyUID == {"Inspect", "Delete", "Update", "UpdateOwnership"}
SetMissingBackupScheduleUID == {"Inspect", "Delete", "Update"}
SetMissingRuleUID == {"Inspect", "Delete", "Update", "UpdateOwnership"}
SetMissing(kind) ==
    CASE kind = "CloudCredential" -> SetMissingCloudCredentialUID [] kind = "Cluster" -> SetMissingClusterUID
      [] kind = "BackupLocation" -> SetMissingBackupLocationUID [] kind = "Backup" -> SetMissingBackupUID
      [] kind = "Restore" -> SetMissingRestoreUID [] kind = "SchedulePolicy" -> SetMissingSchedulePolicyUID
      [] kind = "BackupSchedule" -> SetMissingBackupScheduleUID [] kind = "Rule" -> SetMissingRuleUID

Verbs == {"Create", "Update", "Inspect", "Delete", "Validate", "UpdateOwnership", "UpdateBackupShare"}
\* The UID that comes with the call, if any.
GivenUid(k) == IF "uid" \in DOMAIN k THEN k.uid ELSE NoId
Filled(k) ==
    IF k.op \in Fills(k.kind) \cap SetMissing(k.kind) /\ GivenUid(k) = NoId
    THEN <<Uid(k.kind, k.name)>> ELSE <<>>

\* The waits that look up the UID, and those that inspect with what they are given: the
\* name, and the UID the call of WaitForClusterDeletionWithUID, of
\* WaitForBackupLocationDeletion or with a request of its own carries.
WaitsByUid == {"WaitForBackupCompletion", "WaitForBackupPartialCompletion",
               "WaitForBackupDeletion", "WaitForDeletePending"}
WaitsAsGiven == {"WaitForClusterDeletion", "WaitForClusterDeletionWithUID",
                "WaitForBackupLocationDeletion", "WaitForRestoreDeletion",
                "WaitForRestoreCompletion", "WaitForBackupScheduleDeletion",
                "WaitForBackupRunning", "WaitForRestoreRunning",
                "BackupScheduleWaitForNBackupsCompletion", "FetchUserDetailsFromID"}

GetBackupStatusWithReason(k) == <<Uid("Backup", k.name), Send("Inspect", "Backup", k.name)>>
GetVolumeBackupIDs(k) ==
    <<[do |-> "instance"], Uid("Backup", k.name), Send("Inspect", "Backup", k.name), Poll("Backup", k.name)>>
GetAllScheduleBackupNames(k) ==
    <<Uid("BackupSchedule", k.name), Send("Inspect", "BackupSchedule", k.name)>>
GetAllScheduleBackupUIDs(k) ==
    GetAllScheduleBackupNames(k)
        \o [i \in DOMAIN Scene.scheduled |-> Uid("Backup", Scene.scheduled[i])]

\* Nothing is created for an application without actions of its own.
CreateRuleForBackup(k) ==
    IF k.name = "" THEN <<>>
    ELSE GetAdminCtxFromSecret
         \o <<Send("Create", "Rule", k.name), [do |-> "find", kind |-> "Rule", name |-> k.name],
              Uid("Rule", k.name), Send("Inspect", "Rule", k.name)>>
DeleteRuleForBackup(k) ==
    GetAdminCtxFromSecret \o <<Uid("Rule", k.name), Send("Delete", "Rule", k.name)>>
BackupSchedulePolicy(k) ==
    GetAdminCtxFromSecret \o <<Send("Create", "SchedulePolicy", k.name)>>
\* One listing serves all the names; DeleteSchedulePolicy looks up a name it lacks.
DeleteBackupSchedulePolicy(k) ==
    GetAdminCtxFromSecret \o <<[do |-> "map", kind |-> "SchedulePolicy"]>>
        \o FlattenSeq([i \in DOMAIN k.names |->
               <<[do |-> "known", name |-> k.names[i]], Uid("SchedulePolicy", k.names[i]),
                 Send("Delete", "SchedulePolicy", k.names[i])>>])

Program(k) ==
    CASE k.op \in Verbs -> Append(Filled(k), Send(k.op, k.kind, k.name))
      [] k.op \in WaitsByUid -> <<Uid(k.kind, k.name), Poll(k.kind, k.name)>>
      [] k.op \in WaitsAsGiven -> <<Poll(k.kind, k.name)>>
      [] k.op = "GetBackupStatusWithReason" -> GetBackupStatusWithReason(k)
      [] k.op = "GetVolumeBackupIDs" -> GetVolumeBackupIDs(k)
      [] k.op = "GetAllScheduleBackupUIDs" -> GetAllScheduleBackupUIDs(k)
      [] k.op = "CreateRuleForBackup" -> CreateRuleForBackup(k)
      [] k.op = "DeleteRuleForBackup" -> DeleteRuleForBackup(k)
      [] k.op = "BackupSchedulePolicy" -> BackupSchedulePolicy(k)
      [] k.op = "DeleteBackupSchedulePolicy" -> DeleteBackupSchedulePolicy(k)
      [] k.op = "Init" -> <<[do |-> "endpoint"]>>
      [] OTHER -> KeycloakProgram(k.op)

AllIds == UNION {Ids(c) : c \in Collections} \cup UNION {{o.uid : o \in ToSet(store[k])} : k \in Kinds}

Start(t) ==
    /\ t[2] = 0 /\ th[t].script # <<>> /\ th[t].todo = <<>>
    /\ th' = [th EXCEPT ![t] = IF Program(Call(t)) = <<>> THEN Ended(t, "nil")
                               ELSE [@ EXCEPT !.todo = Program(Call(t)), !.born = AllIds, !.res = "none"]]
    /\ lk' = [lk EXCEPT ![t] = [Unknown EXCEPT !.uid = GivenUid(Call(t))]]
    /\ UNCHANGED <<scene, kcVars, lastId, faults, store, acted>>

\* Init of the driver: a test whose backup server does not answer ends there.
testAndSetEndpoint(t) ==
    /\ At(t, "endpoint")
    /\ \/ Proceed(t, th[t]) /\ UNCHANGED faults
       \/ Fault /\ th' = [th EXCEPT ![t] = [Rest EXCEPT !.res = "error"]]
    /\ UNCHANGED <<scene, kcVars, lastId, srvVars>>

\* A client of the cluster with the application: its version is asked for.
GetKubernetesInstance(t) ==
    /\ At(t, "instance")
    /\ \/ Proceed(t, th[t]) /\ UNCHANGED faults
       \/ Fault /\ Return(t, "error")
    /\ UNCHANGED <<scene, kcVars, lastId, srvVars>>

----------------------------------------------------------------------------
\* Finding the UID behind a name

ThreadUnchanged == UNCHANGED <<scene, kcVars, lastId, store, acted>>

\* Mutant: the objects of earlier pages are not counted.
NextPageForgets(t, page) == [lk[t] EXCEPT !.index = @ + Len(page), !.seen = Len(page)]
\* Mutant: the next page starts one object late.
NextPageSkips(t, page) == [lk[t] EXCEPT !.index = @ + Len(page) + 1, !.seen = @ + Len(page) + 1]
NextPage(t, page) == [lk[t] EXCEPT !.index = @ + Len(page), !.seen = @ + Len(page)]

\* WaitForBackupDeletion takes a name that is not listed for a deleted backup, and
\* goes on without a UID when the list itself failed.
NotFound(t) == IF Call(t).op = "WaitForBackupDeletion" THEN "nil" ELSE "error"
ListFailed(t) ==
    IF Call(t).op = "WaitForBackupDeletion" THEN Proceed(t, th[t]) ELSE Return(t, "error")

Page(t, objs, size) == SubSeq(objs, lk[t].index + 1, Min({lk[t].index + size, Len(objs)}))
Lookup(t, kind, objs, size) ==
    LET page == Page(t, objs, size)
        hits == SelectSeq(page, LAMBDA o : o.name = Step(t).name)
        next == NextPage(t, page)
    IN /\ At(t, "uid") /\ Step(t).kind = kind
       /\ \/ /\ hits # <<>>
             /\ lk' = [lk EXCEPT ![t] = [@ EXCEPT !.uid = Head(hits).uid, !.index = 0, !.seen = 0,
                                                   !.shrunk = FALSE]]
             /\ Proceed(t, th[t]) /\ UNCHANGED faults
          \/ /\ hits = <<>> /\ next.seen >= Len(objs)
             /\ Return(t, NotFound(t)) /\ UNCHANGED <<lk, faults>>
          \/ /\ hits = <<>> /\ next.seen < Len(objs)
             /\ lk' = [lk EXCEPT ![t] = next] /\ UNCHANGED <<th, faults>>
          \/ Fault /\ ListFailed(t) /\ lk' = [lk EXCEPT ![t].uid = NoId]
       /\ ThreadUnchanged
AllAtOnce(t, kind, objs) == Lookup(t, kind, objs, Len(objs) + 1)

GetCloudCredentialUID(t) == AllAtOnce(t, "CloudCredential", Visible("CloudCredential", User(t)))
GetBackupLocationUID(t) == AllAtOnce(t, "BackupLocation", Visible("BackupLocation", User(t)))
GetSchedulePolicyUid(t) == AllAtOnce(t, "SchedulePolicy", Visible("SchedulePolicy", User(t)))
GetRuleUid(t) == AllAtOnce(t, "Rule", Visible("Rule", User(t)))
GetBackupUID(t) == Lookup(t, "Backup", Visible("Backup", User(t)), EnumerateBatchSize)
GetRestoreUID(t) == Lookup(t, "Restore", Visible("Restore", User(t)), EnumerateBatchSize)
GetBackupScheduleUID(t) ==
    Lookup(t, "BackupSchedule", Visible("BackupSchedule", User(t)), EnumerateBatchSize)

\* Mutant: clusters of every owner.
EnumerateAllCluster(user) == Visible("Cluster", user)
\* EnumerateCluster keeps the clusters the caller owns.
EnumerateCluster(user) == SelectSeq(Visible("Cluster", user), LAMBDA o : o.owner = user)
GetClusterUID(t) == AllAtOnce(t, "Cluster", EnumerateCluster(User(t)))

\* CreateRuleForBackup lists the rules and reads the list even when there is none.
FindRule(t) ==
    LET hits == SelectSeq(Visible("Rule", User(t)), LAMBDA o : o.name = Step(t).name)
    IN /\ At(t, "find")
       /\ \/ /\ hits # <<>>
             /\ lk' = [lk EXCEPT ![t].uid = Head(hits).uid]
             /\ th' = [th EXCEPT ![t].todo = Tail(Tail(@))] /\ UNCHANGED faults
          \/ hits = <<>> /\ Proceed(t, th[t]) /\ UNCHANGED <<lk, faults>>
          \/ Fault /\ Return(t, "panic") /\ UNCHANGED lk
       /\ ThreadUnchanged

\* schedPolicyMap: of several policies of one name the last one listed stays.
MapPolicies(t) ==
    LET objs == Visible("SchedulePolicy", User(t))
        last(n) == CHOOSE i \in DOMAIN objs : objs[i].name = n /\ \A j \in DOMAIN objs : objs[j].name = n => j <= i
    IN /\ At(t, "map")
       /\ \/ /\ lk' = [lk EXCEPT ![t].known = [n \in {o.name : o \in ToSet(objs)} |-> objs[last(n)].uid]]
             /\ Proceed(t, th[t]) /\ UNCHANGED faults
          \/ Fault /\ Return(t, "error") /\ UNCHANGED lk
       /\ ThreadUnchanged
KnownPolicy(t) ==
    LET name == Step(t).name
    IN /\ At(t, "known")
       /\ IF name \in DOMAIN lk[t].known
          THEN /\ lk' = [lk EXCEPT ![t].uid = lk[t].known[name]]
               /\ th' = [th EXCEPT ![t].todo = Tail(Tail(@))]
          ELSE UNCHANGED lk /\ Proceed(t, th[t])
       /\ UNCHANGED faults /\ ThreadUnchanged

----------------------------------------------------------------------------
\* Requests to the server

Targets(t) ==
    IF lk[t].uid # NoId THEN SelectSeq(store[Step(t).kind], LAMBDA o : o.uid = lk[t].uid)
    ELSE SelectSeq(Visible(Step(t).kind, User(t)), LAMBDA o : o.name = Step(t).name)
IndexOf(kind, o) == CHOOSE i \in DOMAIN store[kind] : store[kind][i] = o

PagesRead(t, kind) ==
    LET objs == Visible(kind, User(t)) IN SubSeq(objs, 1, Min({lk[t].index, Len(objs)}))
\* The deletion of an object on a page that a lookup has read shifts its next pages.
Shifted(kind, o) ==
    lk' = [t \in Threads |->
             [lk[t] EXCEPT !.shrunk = \/ @
                                      \/ At(t, "uid") /\ Step(t).kind = kind /\ o \in ToSet(PagesRead(t, kind))]]
Gone(kind, o) == store' = [store EXCEPT ![kind] = SelectSeq(@, LAMBDA x : x # o)]

\* What the server does with a creation, and with any other request.
CreateServed(t) ==
    LET kind == Step(t).kind
        new == [name |-> Step(t).name, uid |-> lastId + 1, owner |-> User(t),
                st |-> IF kind \in Running THEN "Pending" ELSE "Active"]
    IN /\ Step(t).verb = "Create"
       /\ \A o \in ToSet(store[kind]) : ~(o.name = new.name /\ o.owner = new.owner)
       /\ store' = [store EXCEPT ![kind] = IF Scene.newestFirst THEN <<new>> \o @ ELSE Append(@, new)]
       /\ lastId' = lastId + 1 /\ UNCHANGED <<lk, acted>>
Refused(t) ==
    LET kind == Step(t).kind
    IN IF Step(t).verb = "Create"
       THEN \E o \in ToSet(store[kind]) : o.name = Step(t).name /\ o.owner = User(t)
       ELSE Targets(t) = <<>>
OtherServed(t) ==
    LET kind == Step(t).kind
        o == Head(Targets(t))
        verb == Step(t).verb
    IN /\ verb # "Create" /\ Targets(t) # <<>>
       /\ CASE verb = "Delete" /\ kind \in DeletedLater ->
                   /\ store' = [store EXCEPT ![kind][IndexOf(kind, o)].st = "DeletePending"]
                   /\ UNCHANGED lk
            [] verb = "Delete" /\ kind \notin DeletedLater -> Gone(kind, o) /\ Shifted(kind, o)
            [] OTHER -> UNCHANGED <<store, lk>>
       /\ acted' = IF verb \in {"Inspect", "Validate"} THEN acted
                   ELSE acted \cup {[kind |-> kind, verb |-> verb, asked |-> Step(t).name,
                                     user |-> User(t), name |-> o.name, owner |-> o.owner]}
       /\ UNCHANGED lastId
Request_Served(t) == CreateServed(t) \/ OtherServed(t)

SendRequest(t) ==
    /\ At(t, "send")
    /\ \/ Request_Served(t) /\ Proceed(t, th[t]) /\ UNCHANGED faults
       \/ Request_Served(t) /\ Fault /\ Return(t, "error")
       \/ Fault /\ Return(t, "error") /\ UNCHANGED <<store, lk, lastId, acted>>
       \/ Refused(t) /\ Return(t, "error") /\ UNCHANGED <<store, lk, lastId, faults, acted>>
    /\ UNCHANGED <<scene, kcVars>>

----------------------------------------------------------------------------
\* The waits: what the closure given to DoRetryWithTimeout makes of an answer, the
\* status of the object, "NotFound" or "Error"

Bad == {"Failed", "Aborted", "Invalid"}
Absent == {"NotFound", "Error"}

WaitForClusterDeletion(a) == CASE a = "NotFound" -> "ok" [] a = "Error" -> "fail" [] OTHER -> "retry"
WaitForClusterDeletionWithUID(a) == CASE a = "NotFound" -> "ok" [] a = "Error" -> "fail" [] OTHER -> "retry"
\* The response of a failed inspection is nil, and a nil response counts as deleted.
WaitForBackupLocationDeletion(a) == IF a \in Absent THEN "ok" ELSE "retry"
WaitForBackupDeletion(a) == IF a \in Absent THEN "ok" ELSE "retry"
WaitForRestoreDeletion(a) == IF a \in Absent THEN "ok" ELSE "retry"
WaitForBackupScheduleDeletion(a) == IF a \in Absent THEN "ok" ELSE "retry"
WaitForDeletePending(a) == IF a = "DeletePending" THEN "ok" ELSE "retry"
WaitForBackupCompletion(a) == CASE a = "Success" -> "ok" [] a \in Bad -> "fail" [] OTHER -> "retry"
WaitForBackupPartialCompletion(a) ==
    CASE a = "PartialSuccess" -> "ok" [] a \in Bad \cup {"Success"} -> "fail" [] OTHER -> "retry"
WaitForRestoreCompletion(a) ==
    CASE a \in {"Success", "PartialSuccess"} -> "ok" [] a \in Bad -> "fail" [] OTHER -> "retry"
\* No error comes with the request to try again, and without one the wait is over.
WaitForBackupRunning(a) == CASE a \in Absent -> "retry" [] a \in Bad -> "fail" [] OTHER -> "ok"
WaitForRestoreRunning(a) == CASE a \in Absent -> "retry" [] a \in Bad -> "fail" [] OTHER -> "ok"
VolumeBackupIDs(a) == IF a \in Absent \cup {"Pending"} THEN "retry" ELSE "ok"
FetchUserDetailsFromID(a) == IF a \in Absent THEN "retry" ELSE "ok"

Verdict(op, a) ==
    CASE op = "WaitForClusterDeletion" -> WaitForClusterDeletion(a)
      [] op = "WaitForClusterDeletionWithUID" -> WaitForClusterDeletionWithUID(a)
      [] op = "WaitForBackupLocationDeletion" -> WaitForBackupLocationDeletion(a)
      [] op = "WaitForBackupDeletion" -> WaitForBackupDeletion(a)
      [] op = "WaitForRestoreDeletion" -> WaitForRestoreDeletion(a)
      [] op = "WaitForBackupScheduleDeletion" -> WaitForBackupScheduleDeletion(a)
      [] op = "WaitForDeletePending" -> WaitForDeletePending(a)
      [] op = "WaitForBackupCompletion" -> WaitForBackupCompletion(a)
      [] op = "WaitForBackupPartialCompletion" -> WaitForBackupPartialCompletion(a)
      [] op = "WaitForBackupRunning" -> WaitForBackupRunning(a)
      [] op = "WaitForRestoreRunning" -> WaitForRestoreRunning(a)
      [] op = "GetVolumeBackupIDs" -> VolumeBackupIDs(a)
      [] op = "FetchUserDetailsFromID" -> FetchUserDetailsFromID(a)
      [] OTHER -> WaitForRestoreCompletion(a)

\* The first count backups of the organization, whatever schedule they belong to.
BackupScheduleWaitForNBackupsCompletion(t) ==
    LET n == Call(t).count
        objs == Visible("Backup", User(t))
        open == SelectSeq(SubSeq(objs, 1, Min({n, Len(objs)})), LAMBDA o : o.st \notin {"Success", "PartialSuccess"})
    IN CASE Len(objs) < n -> "Pending"
         [] Len(objs) >= n /\ open = <<>> -> "Success"
         [] OTHER -> Head(open).st

Answer(t) ==
    CASE Call(t).op = "BackupScheduleWaitForNBackupsCompletion" -> BackupScheduleWaitForNBackupsCompletion(t)
      [] Call(t).op = "FetchUserDetailsFromID" ->
            IF Named("users", Step(t).name) = {} THEN "NotFound" ELSE "Active"
      [] OTHER -> IF Targets(t) = <<>> THEN "NotFound" ELSE Head(Targets(t)).st

DoRetryWithTimeout(t, a) ==
    LET verdict == Verdict(Call(t).op, a)
    IN CASE verdict = "ok" -> Proceed(t, th[t]) /\ UNCHANGED lk
         [] verdict = "retry" /\ lk[t].tries + 1 < MaxTries ->
               lk' = [lk EXCEPT ![t].tries = @ + 1] /\ UNCHANGED th
         [] OTHER -> Return(t, "error") /\ UNCHANGED lk
PollServer(t) ==
    /\ At(t, "poll")
    /\ \/ DoRetryWithTimeout(t, Answer(t)) /\ UNCHANGED faults
       \/ Fault /\ DoRetryWithTimeout(t, "Error")
    /\ ThreadUnchanged

----------------------------------------------------------------------------
\* The server on its own

Progress ==
    \E kind \in Running : \E i \in DOMAIN store[kind] :
        LET st == store[kind][i].st
        IN /\ \E next \in (CASE st = "Pending" -> {"InProgress"} [] st = "InProgress" -> Scene.ends [] OTHER -> {}) :
                 store' = [store EXCEPT ![kind][i].st = next]
           /\ UNCHANGED <<scene, th, kcVars, lastId, faults, lk, acted>>
Removal ==
    \E kind \in DeletedLater : \E o \in ToSet(store[kind]) :
        /\ o.st = "DeletePending" /\ Gone(kind, o) /\ Shifted(kind, o)
        /\ UNCHANGED <<scene, th, kcVars, lastId, faults, acted>>

----------------------------------------------------------------------------
Init ==
    /\ scene \in DOMAIN Scenes
    /\ th = [t \in Threads |-> IF t[2] = 0 THEN [Rest EXCEPT !.script = Scene.script[t[1]]] ELSE Rest]
    /\ realm = Scene.realm /\ links = {} /\ secret = [token |-> TRUE, version |-> 0]
    /\ store = [k \in Kinds |-> IF k \in DOMAIN Scene.store THEN Scene.store[k] ELSE <<>>]
    /\ lk = [t \in Threads |-> Unknown]
    /\ lastId = 100 /\ faults = 0 /\ acted = {}

ThreadStep(t) ==
    \/ Start(t) \/ testAndSetEndpoint(t) \/ GetKubernetesInstance(t)
    \/ KeycloakStep(t) /\ UNCHANGED srvVars
    \/ GetCloudCredentialUID(t) \/ GetClusterUID(t) \/ GetBackupLocationUID(t) \/ GetBackupUID(t)
    \/ GetRestoreUID(t) \/ GetSchedulePolicyUid(t) \/ GetBackupScheduleUID(t) \/ GetRuleUid(t)
    \/ FindRule(t) \/ MapPolicies(t) \/ KnownPolicy(t)
    \/ SendRequest(t) \/ PollServer(t)
Next == (\E t \in Threads : ThreadStep(t)) \/ Progress \/ Removal
Spec == Init /\ [][Next]_vars /\ \A t \in Threads : WF_vars(ThreadStep(t))

----------------------------------------------------------------------------
\* Properties

\* The variables hold what the code keeps in them: a thread has a script and the rest of
\* a program, lookups and retries stay inside their bounds, identifiers are unique.
TypeOK ==
    /\ scene \in DOMAIN Scenes /\ faults \in 0..Scene.faults
    /\ \A t \in Threads : /\ th[t].res \in {"none", "nil", "error", "panic"}
                          /\ th[t].todo # <<>> => th[t].script # <<>>
                          /\ lk[t].tries \in 0..(MaxTries - 1)
    /\ \A k \in Kinds : /\ IsInjective([i \in DOMAIN store[k] |-> store[k][i].uid])
                        /\ \A o \in ToSet(store[k]) : o.uid \in 1..lastId
    /\ links \subseteq AllIds \X AllIds

\* t's call ends in this step, with that result.
Ends(t, res) == th[t].todo # <<>> /\ th'[t].todo = <<>> /\ th'[t].res = res

\* An update, deletion or change of ownership reaches an object of the name the test gave,
\* although the UID is looked up in requests of their own, and a cluster's update or share
\* reaches the caller's own cluster when another user has one of the same name.
ActsOnNamedObject ==
    \A a \in acted : /\ a.name = a.asked
                     /\ a.kind = "Cluster" /\ a.verb \in {"Update", "UpdateBackupShare"} => a.owner = a.user

\* A lookup that reports "not found" (as an error, or as success by WaitForBackupDeletion)
\* is right: no object of the name has been there since the call began.  Objects created
\* between two pages do not hide one, nor does a deletion on a page still to come; one on a
\* page that has been read does, by moving the next object there, and is the exception.
MissingIsMissing ==
    \A t \in Threads :
       LET step == Step(t)
       IN /\ At(t, "uid") /\ faults' = faults /\ ~lk[t].shrunk
          /\ Ends(t, "error") \/ (Call(t).op = "WaitForBackupDeletion" /\ Ends(t, "nil"))
          => \A o \in ToSet(Visible(step.kind, User(t))) :
                o.name = step.name /\ o.uid \in th[t].born => step.kind = "Cluster" /\ o.owner # User(t)

\* A wait that returns without an error has seen what it waits for: a completed backup is
\* successful, a partial one partially successful, and what was to be deleted is gone: the
\* object of the UID that was given or looked up, whoever has taken its name since, or else
\* every object of the name.  A cluster is gone whatever requests failed (the wait looks at
\* the code of the error); a backup, restore or location is, unless the very inspection that
\* ended the wait failed (a nil response counts as deleted) or a page was shifted.
WaitsTruthful ==
    \A t \in Threads :
       LET op == Call(t).op
           kind == Call(t).kind
           uid == lk[t].uid
           st == {o.st : o \in {x \in ToSet(store[kind]) : x.uid = uid}}
           there == IF uid # NoId THEN {o \in ToSet(store[kind]) : o.uid = uid}
                    ELSE {o \in ToSet(Visible(kind, User(t))) : o.name = Call(t).name /\ o.uid \in th[t].born}
       IN th[t].todo # <<>> /\ Ends(t, "nil") =>
            /\ op = "WaitForBackupCompletion" => st = {"Success"}
            /\ op = "WaitForBackupPartialCompletion" => st = {"PartialSuccess"}
            /\ op = "WaitForDeletePending" => st = {"DeletePending"}
            /\ op \in {"WaitForClusterDeletion", "WaitForClusterDeletionWithUID"} => there = {}
            /\ op \in {"WaitForBackupLocationDeletion", "WaitForBackupDeletion", "WaitForRestoreDeletion"}
                 /\ faults' = faults /\ ~lk[t].shrunk => there = {}

\* DeleteBackupSchedulePolicy without an error has deleted every policy of its list that was
\* there when it was called, whichever test deleted or recreated one meanwhile.
PoliciesDeleted ==
    \A t \in Threads :
       th[t].todo # <<>> /\ Call(t).op = "DeleteBackupSchedulePolicy" /\ Ends(t, "nil") =>
          \A o \in ToSet(store'["SchedulePolicy"]) :
             o.name \in ToSet(Call(t).names) => o.uid \notin th[t].born

\* A request of an administrator's call carries a token, although the refused login of
\* another test may have emptied the secret the token is read back from.
AdminRequestsCarryToken ==
    \A t \in Threads :
        (At(t, "send") \/ At(t, "map") \/ At(t, "find"))
            /\ Call(t).op \in {"CreateRuleForBackup", "DeleteRuleForBackup", "BackupSchedulePolicy",
                               "DeleteBackupSchedulePolicy"}
        => th[t].token

\* DeleteMultipleGroups and DeleteMultipleUsers return nil only when every entity of their
\* list that was there at the call is gone: no goroutine is still at work.  Stated while no
\* request failed, since the client takes a refused request for a successful one.
ManyDeleted ==
    \A t \in Threads :
       th[t].todo # <<>> /\ At(t, "join") /\ Ends(t, "nil") /\ faults = 0 =>
          \A c \in Collections : \A e \in realm[c] :
             c \in Call(t).what /\ e.name \in ToSet(Call(t).many) => e.id \notin th[t].born

\* What a step changes in the realm concerns the entities its call names: the identifiers
\* were fetched by earlier requests, and the names may have changed hands since.
RealmActsOnNamed ==
    \A t \in Threads : At(t, "request") /\ th'[t] # th[t] =>
       LET of == Call(t).of
           nameOf(id) == {e.name : e \in UNION {{x \in realm[c] : x.id = id} : c \in Collections}}
           named == {of[c] : c \in DOMAIN of}
       IN /\ \A c \in Collections : \A e \in (realm[c] \ realm'[c]) \cup (realm'[c] \ realm[c]) :
                c \in DOMAIN of /\ e.name = of[c]
          /\ \A l \in (links' \ links) : nameOf(l[1]) \cup nameOf(l[2]) \subseteq named
          /\ \A l \in (links \ links') : nameOf(l[1]) \cup nameOf(l[2]) \subseteq named
                                         \/ {l[1], l[2]} \cap {th[t].ids[c] : c \in Collections} # {}

\* Every request goes where the test meant it to go: to the object it named, with a token, by a
\* call whose state is within its bounds.
RequestsAddressed == TypeOK /\ ActsOnNamedObject /\ AdminRequestsCarryToken

\* What a call reports is true when it returns, whatever other tests did between its requests,
\* and what it changes in the realm is what it names.
AnswersTruthful ==
    [][MissingIsMissing /\ WaitsTruthful /\ PoliciesDeleted /\ ManyDeleted /\ RealmActsOnNamed]_vars

\* Every call returns: a lookup gets to its last page while others create and delete, a
\* retry to its deadline, a goroutine to its end.
CallsReturn == \A c \in Callers : <>(th[<<c, 0>>].script = <<>>)
=============================================================================
