------------------------------ MODULE Keycloak ------------------------------
(***************************************************************************)
(* The client of the identity server, drivers/backup/auth.go.  A function  *)
(* of the client is a sequence of HTTP requests: it looks up the identifier *)
(* behind each name with one request per collection and then sends the     *)
(* identifiers it got, so other tests may create and delete users, groups  *)
(* and roles in between.  processHTTPRequest never looks at the status of  *)
(* an answer.  The realm of the server, the administrator's secret in the  *)
(* Kubernetes API and the threads that call the client are the state; a    *)
(* test is a script of calls.                                              *)
(***************************************************************************)
EXTENDS Integers, FiniteSets, SequencesExt

CONSTANTS
    Callers,    \* the tests (and test goroutines) that call the client
    MaxMany,    \* the most names one DeleteMultiple call is given
    Scenes,     \* a sequence of scripts with initial contents and a number of faults
    NoId        \* the empty string: no identifier

VARIABLES
    scene,      \* the number of the scene this behaviour plays
    th,         \* the threads: <<caller, 0>> and its goroutines <<caller, i>>
    realm,      \* users, groups and roles: sets of names with their identifier
    links,      \* <<user, role>>, <<group, role>> and <<user, group>> pairs
    secret,     \* the administrator's token in its Kubernetes secret
    lastId,     \* the latest identifier given out by a server
    faults      \* how many requests have failed so far

Scene == Scenes[scene]
kcVars == <<realm, links, secret>>

Collections == {"users", "groups", "roles"}
Threads == Callers \X (0..MaxMany)
Goroutines(t) == {t[1]} \X (1..MaxMany)

Rest == [script |-> <<>>, todo |-> <<>>, ids |-> [c \in Collections |-> NoId],
         token |-> FALSE, version |-> 0, born |-> {}, res |-> "none"]

Call(t) == Head(th[t].script)
Step(t) == Head(th[t].todo)
At(t, do) == th[t].todo # <<>> /\ Step(t).do = do
Fault == faults < Scene.faults /\ faults' = faults + 1

\* The call of t ends with this result; the script of t goes on with the next one.
Ended(t, value) == [Rest EXCEPT !.script = Tail(th[t].script), !.res = value]
Return(t, value) == th' = [th EXCEPT ![t] = Ended(t, value)]

\* The first step of t is done and leaves the record r behind.
Proceed(t, r) ==
    th' = [th EXCEPT ![t] = IF Len(r.todo) = 1 THEN Ended(t, "nil")
                            ELSE [r EXCEPT !.todo = Tail(@)]]

----------------------------------------------------------------------------
\* The functions of auth.go as the requests they send

Fetch(coll) == [do |-> "fetch", at |-> coll]
FetchIDOfUser == Fetch("users")
FetchIDOfGroup == Fetch("groups")
GetRoleID == Fetch("roles")
Request(verb, from, to) == [do |-> "request", verb |-> verb, at |-> from, to |-> to]

AddUser == <<Request("post", "users", "")>>
DeleteUser == <<FetchIDOfUser, Request("delete", "users", "")>>
AddGroup == <<Request("post", "groups", "")>>
DeleteGroup == <<FetchIDOfGroup, Request("delete", "groups", "")>>
CreateRole == <<Request("post", "roles", "")>>
DeleteRole == <<GetRoleID, Request("delete", "roles", "")>>
AddRoleToUser == <<FetchIDOfUser, GetRoleID, Request("link", "users", "roles")>>
AddRoleToGroup == <<FetchIDOfGroup, GetRoleID, Request("link", "groups", "roles")>>
DeleteRoleFromUser == <<FetchIDOfUser, GetRoleID, Request("unlink", "users", "roles")>>
DeleteRoleFromGroup == <<FetchIDOfGroup, GetRoleID, Request("unlink", "groups", "roles")>>
AddGroupToUser == <<FetchIDOfGroup, FetchIDOfUser, Request("link", "users", "groups")>>

GetUserRole == <<FetchIDOfUser, [do |-> "get", at |-> "users"]>>
GetRolesForUser == GetUserRole
GetMembersOfGroup == <<FetchIDOfGroup, [do |-> "get", at |-> "groups"]>>
GetRandomUserFromGroup == <<FetchIDOfGroup, [do |-> "pick", at |-> "groups"]>>

UpdatePxBackupAdminSecret == <<[do |-> "token"], [do |-> "getSecret"], [do |-> "updateSecret"]>>
GetAdminCtxFromSecret == UpdatePxBackupAdminSecret \o <<[do |-> "readSecret"]>>
GetAdminTokenFromSecret == UpdatePxBackupAdminSecret \o <<[do |-> "readSecret"]>>

DeleteMultipleGroups == <<[do |-> "spawn", op |-> "DeleteGroup", at |-> "groups"], [do |-> "join"]>>
DeleteMultipleUsers == <<[do |-> "spawn", op |-> "DeleteUser", at |-> "users"], [do |-> "join"]>>

KeycloakProgram(op) ==
    CASE op = "AddUser" -> AddUser [] op = "DeleteUser" -> DeleteUser
      [] op = "AddGroup" -> AddGroup [] op = "DeleteGroup" -> DeleteGroup
      [] op = "CreateRole" -> CreateRole [] op = "DeleteRole" -> DeleteRole
      [] op = "AddRoleToUser" -> AddRoleToUser [] op = "AddRoleToGroup" -> AddRoleToGroup
      [] op = "DeleteRoleFromUser" -> DeleteRoleFromUser
      [] op = "DeleteRoleFromGroup" -> DeleteRoleFromGroup
      [] op = "AddGroupToUser" -> AddGroupToUser [] op = "GetUserRole" -> GetUserRole
      [] op = "GetRolesForUser" -> GetRolesForUser
      [] op = "GetMembersOfGroup" -> GetMembersOfGroup
      [] op = "GetRandomUserFromGroup" -> GetRandomUserFromGroup
      [] op = "GetAdminTokenFromSecret" -> GetAdminTokenFromSecret
      [] op = "DeleteMultipleGroups" -> DeleteMultipleGroups
      [] op = "DeleteMultipleUsers" -> DeleteMultipleUsers

----------------------------------------------------------------------------
\* Identifiers

Named(coll, name) == {e \in realm[coll] : e.name = name}

\* The loop over the list leaves the identifier empty when no entry has the name.
IdOf(coll, name) ==
    IF Named(coll, name) = {} THEN NoId ELSE (CHOOSE e \in Named(coll, name) : TRUE).id

\* FetchIDOfGroup drops the error of the list; the other two functions return it.
FetchID(t) ==
    LET coll == Step(t).at
        got(id) == [th[t] EXCEPT !.ids[coll] = id]
    IN /\ At(t, "fetch")
       /\ \/ Proceed(t, got(IdOf(coll, Call(t).of[coll]))) /\ UNCHANGED faults
          \/ Fault /\ coll = "groups" /\ Proceed(t, got(NoId))
          \/ Fault /\ coll # "groups" /\ Return(t, "error")
       /\ UNCHANGED <<scene, kcVars, lastId>>

----------------------------------------------------------------------------
\* Requests

Ids(coll) == {e.id : e \in realm[coll]}

\* What the server does with a request of t.
Posted(t) ==
    LET coll == Step(t).at
        name == Call(t).of[coll]
    IN /\ IF Named(coll, name) = {}
          THEN /\ realm' = [realm EXCEPT ![coll] = @ \cup {[name |-> name, id |-> lastId + 1]}]
               /\ lastId' = lastId + 1
          ELSE UNCHANGED <<realm, lastId>>
       /\ UNCHANGED links
Deleted(t) ==
    LET coll == Step(t).at
        id == th[t].ids[coll]
    IN /\ realm' = [realm EXCEPT ![coll] = {e \in @ : e.id # id}]
       /\ links' = {l \in links : id \notin {l[1], l[2]}}
       /\ UNCHANGED lastId
Linked(t) ==
    LET from == th[t].ids[Step(t).at]
        to == th[t].ids[Step(t).to]
    IN /\ links' = CASE Step(t).verb = "unlink" -> links \ {<<from, to>>}
                     [] from \in Ids(Step(t).at) /\ to \in Ids(Step(t).to) -> links \cup {<<from, to>>}
                     [] OTHER -> links
       /\ UNCHANGED <<realm, lastId>>
Served(t) ==
    CASE Step(t).verb = "post" -> Posted(t)
      [] Step(t).verb = "delete" -> Deleted(t)
      [] OTHER -> Linked(t)

\* A request the server refuses is as good as one it carried out: the status of
\* the answer is never read.
processHTTPRequest(t) ==
    /\ At(t, "request")
    /\ \/ Served(t) /\ Proceed(t, th[t]) /\ UNCHANGED faults
       \/ Fault /\ Served(t) /\ Return(t, "error")
       \/ Fault /\ Proceed(t, th[t]) /\ UNCHANGED <<realm, links, lastId>>
       \/ Fault /\ Return(t, "error") /\ UNCHANGED <<realm, links, lastId>>
    /\ UNCHANGED <<scene, secret>>

\* The answer to a request for an identifier that is not there is no list, and
\* does not parse.  GetRandomUserFromGroup draws from the members unseen.
Get(t) ==
    LET id == th[t].ids[Step(t).at]
        members == {l \in links : l[2] = id}
    IN /\ At(t, "get") \/ At(t, "pick")
       /\ \/ /\ id \in Ids(Step(t).at)
             /\ IF Step(t).do = "pick" /\ members = {} THEN Return(t, "panic") ELSE Proceed(t, th[t])
             /\ UNCHANGED faults
          \/ id \notin Ids(Step(t).at) /\ Return(t, "error") /\ UNCHANGED faults
          \/ Fault /\ Return(t, "error")
       /\ UNCHANGED <<scene, kcVars, lastId>>

----------------------------------------------------------------------------
\* The administrator's token

\* A login that is refused yields an empty token and no error.
GetToken(t) ==
    /\ At(t, "token")
    /\ \/ Proceed(t, [th[t] EXCEPT !.token = TRUE]) /\ UNCHANGED faults
       \/ Fault /\ Proceed(t, th[t])
       \/ Fault /\ Return(t, "error")
    /\ UNCHANGED <<scene, kcVars, lastId>>

GetSecret(t) ==
    /\ At(t, "getSecret")
    /\ \/ Proceed(t, [th[t] EXCEPT !.version = secret.version]) /\ UNCHANGED faults
       \/ Fault /\ Return(t, "error")
    /\ UNCHANGED <<scene, kcVars, lastId>>

\* The API server refuses a copy that is stale.
UpdateSecret(t) ==
    LET fresh == th[t].version = secret.version
        written == [token |-> th[t].token, version |-> secret.version + 1]
    IN /\ At(t, "updateSecret")
       /\ \/ fresh /\ secret' = written /\ Proceed(t, th[t]) /\ UNCHANGED faults
          \/ fresh /\ secret' = written /\ Fault /\ Return(t, "error")
          \/ ~fresh /\ Return(t, "error") /\ UNCHANGED <<secret, faults>>
          \/ Fault /\ Return(t, "error") /\ UNCHANGED secret
       /\ UNCHANGED <<scene, realm, links, lastId>>

ReadSecret(t) ==
    /\ At(t, "readSecret")
    /\ \/ secret.token /\ Proceed(t, [th[t] EXCEPT !.token = TRUE]) /\ UNCHANGED faults
       \/ ~secret.token /\ Return(t, "error") /\ UNCHANGED faults
       \/ Fault /\ Return(t, "error")
    /\ UNCHANGED <<scene, kcVars, lastId>>

----------------------------------------------------------------------------
\* DeleteMultipleGroups and DeleteMultipleUsers: one goroutine per name

Spawn(t) ==
    LET worker(i) ==
            [Rest EXCEPT !.script = <<[op |-> Step(t).op, of |-> [c \in {Step(t).at} |-> Call(t).many[i]]]>>,
                         !.todo = KeycloakProgram(Step(t).op)]
        kids == {<<t[1], i>> : i \in DOMAIN Call(t).many}
    IN /\ At(t, "spawn")
       /\ th' = [u \in Threads |->
                   IF u \in kids THEN worker(u[2])
                   ELSE IF u = t THEN [th[t] EXCEPT !.todo = Tail(@)]
                   ELSE th[u]]
       /\ UNCHANGED <<scene, kcVars, lastId, faults>>

Joined(t, ready) ==
    LET failed == \E g \in Goroutines(t) : th[g].res = "error"
    IN /\ At(t, "join") /\ ready
       /\ th' = [u \in Threads |->
                   IF u = t THEN Ended(t, IF failed THEN "error" ELSE "nil")
                   ELSE IF u \in Goroutines(t) THEN Rest ELSE th[u]]
       /\ UNCHANGED <<scene, kcVars, lastId, faults>>

\* wg.Wait: every goroutine has ended, and its error, if any, is in the channel.
Join(t) == Joined(t, \A g \in Goroutines(t) : th[g].script = <<>>)

KeycloakStep(t) ==
    \/ FetchID(t) \/ processHTTPRequest(t) \/ Get(t)
    \/ GetToken(t) \/ GetSecret(t) \/ UpdateSecret(t) \/ ReadSecret(t)
    \/ Spawn(t) \/ Join(t)
=============================================================================
