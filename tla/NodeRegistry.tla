---------------------------- MODULE NodeRegistry ----------------------------
(***************************************************************************)
(* The node registry and the goroutines that fill and use it: a refresh    *)
(* (RefreshNodeRegistry followed by RefreshDriverEndpoints, as every       *)
(* caller pairs them), a wait for the volume driver on a node              *)
(* (WaitDriverUpOnNode, which writes its copy of the node back through     *)
(* IsPXReadyOnNode), and the recycling of an OpenShift machine             *)
(* (openshift.DeleteNode).  A goroutine keeps Node values, not references: *)
(* what it writes back may be older than the entry.  CleanupRegistry       *)
(* replaces the map without the lock that the writers hold.                *)
(***************************************************************************)
EXTENDS Naturals, FiniteSets, FiniteSetsExt, Functions

CONSTANTS
    Names,         \* machines there can be
    Scenes,        \* the clusters, with the goroutines at work on each
    MaxUuid        \* bound: entries AddNode makes

ASSUME NodeRegistryAssumption ==
    /\ IsFiniteSet(Names) /\ Names # {}
    /\ MaxUuid \in Nat
    /\ \A s \in Scenes : s.machines \subseteq Names /\ s.churn \in Nat

\* The cluster of a behaviour, chosen once.  scene.churn bounds its changes, and
\* no further refresh begins that would make more than scene.uuids entries.
VARIABLE scene

Machines == scene.machines      \* machines of the cluster
Disabled == scene.disabled      \* machines on which IsPXEnabled answers false
IP == scene.ip                  \* the address of each machine
Refreshers == scene.refreshers  \* goroutines that refresh the registry
Waiters == scene.waiters        \* goroutines that wait for the driver on a node
Recyclers == scene.recyclers    \* goroutines that recycle a machine

Threads == Refreshers \cup Waiters \cup Recyclers
Uuids == 1 .. MaxUuid
NoId == 0                                     \* VolDriverNodeID of a node without storage info
PxIds == 0 .. Cardinality(Names) + scene.churn

PxNodes == [id : PxIds \ {NoId}, host : Names, pools : BOOLEAN]
Nodes == [uuid : Uuids \cup {0}, name : Names, installed : BOOLEAN, id : PxIds, pools : BOOLEAN]
NoNode == [uuid |-> 0, name |-> CHOOSE n \in Names : TRUE, installed |-> FALSE, id |-> NoId, pools |-> FALSE]

VARIABLES
    nodeRegistry,    \* node.nodeRegistry: uuid |-> Node
    lastUuid,        \* uuids handed out by uuid.New
    given,           \* history: the machine AddNode made each entry for
    writing,         \* the UpdateNode between its look-up and its assignment
    k8sNodes,        \* external: machines Kubernetes lists
    newest,          \* external: the machine OpenShift lists last
    owed,            \* external: machines OpenShift has to make
    px,              \* external: the storage cluster's record of each machine
    up,              \* external: machines whose driver and driver pod are ready
    lastId,          \* external: driver node ids handed out
    churn,           \* changes of the cluster so far
    pc, loc,         \* where each goroutine is and its local variables
    spurious,        \* history: attempts that failed on a node that was up
    halted           \* the runtime stopped the process

entryVars == <<nodeRegistry, lastUuid, given>>
registryVars == <<entryVars, writing>>
clusterVars == <<k8sNodes, newest, owed, px, up, lastId, churn>>
vars == <<scene, registryVars, clusterVars, pc, loc, spurious, halted>>

----------------------------------------------------------------------------
\* drivers/node/node_registry.go

\* The lock of the registry is held from the look-up of an UpdateNode to its
\* assignment, and within each AddNode and DeleteNode.
Unlocked == writing = {}

AddNode(n) ==
    /\ Unlocked /\ lastUuid < MaxUuid
    /\ lastUuid' = lastUuid + 1
    /\ nodeRegistry' = [u \in DOMAIN nodeRegistry \cup {lastUuid'} |->
                          IF u = lastUuid' THEN [n EXCEPT !.uuid = u] ELSE nodeRegistry[u]]
    /\ given' = [u \in 1 .. lastUuid' |-> IF u = lastUuid' THEN n.name ELSE given[u]]
    /\ UNCHANGED writing

UpdateFails(n) == Unlocked /\ n.uuid \notin DOMAIN nodeRegistry

\* Mutant: the entry is written whether or not it exists.
UpdateNodeUnchecked(t, n) ==
    /\ Unlocked
    /\ writing' = {[by |-> t, node |-> n]}
    /\ UNCHANGED entryVars

\* UpdateNode finds the entry in the map ...
UpdateNode(t, n) ==
    /\ Unlocked /\ n.uuid \in DOMAIN nodeRegistry
    /\ writing' = {[by |-> t, node |-> n]}
    /\ UNCHANGED entryVars

\* ... and assigns it in what is the map by then.
AssignNode(n) ==
    /\ nodeRegistry' = [u \in DOMAIN nodeRegistry \cup {n.uuid} |->
                          IF u = n.uuid THEN n ELSE nodeRegistry[u]]
    /\ writing' = {}
    /\ UNCHANGED <<lastUuid, given>>

DeleteNode(n) ==
    /\ Unlocked
    /\ nodeRegistry' = Restrict(nodeRegistry, DOMAIN nodeRegistry \ {n.uuid})
    /\ UNCHANGED <<lastUuid, given, writing>>

\* Mutant: the map is not replaced.
CleanupRegistryKeeps == UNCHANGED registryVars

\* The map is replaced without the lock.
CleanupRegistry ==
    /\ nodeRegistry' = Restrict(nodeRegistry, {})
    /\ UNCHANGED <<lastUuid, given, writing>>

GetNodes == Range(nodeRegistry)
GetStorageDriverNodes == {n \in GetNodes : n.installed}
GetNodeByName(name) == {n \in GetNodes : n.name = name}
IsStorageNode(n) == n.pools

----------------------------------------------------------------------------
\* What the cluster answers.

PxList == {r \in Range(px) : r.id # NoId}
OkStatus(id) == \E h \in up : px[h].id = id
Storageless(id) == \A r \in PxList : r.id = id => ~r.pools
MayChurn == churn < scene.churn /\ churn' = churn + 1

\* A machine joins or leaves Kubernetes.
K8sChurn(h) ==
    /\ MayChurn /\ h \in Machines
    /\ k8sNodes' = (k8sNodes \ {h}) \cup ({h} \ k8sNodes)
    /\ UNCHANGED <<registryVars, newest, owed, px, up, lastId, pc, loc, spurious>>

PxDown(h) ==
    /\ h \in up
    /\ MayChurn
    /\ up' = up \ {h}
    /\ UNCHANGED <<registryVars, k8sNodes, newest, owed, px, lastId, pc, loc, spurious>>

\* The driver comes back; a storageless node may come back under a new id, a
\* new machine comes up storageless.
PxUp(h) ==
    /\ h \in k8sNodes \ (up \cup Disabled)
    /\ up' = up \cup {h}
    /\ IF px[h].pools \/ lastId = Max(PxIds)
       THEN UNCHANGED <<px, lastId>>
       ELSE /\ px' = [px EXCEPT ![h].id = lastId + 1]
            /\ lastId' = lastId + 1
    /\ UNCHANGED <<registryVars, k8sNodes, newest, owed, churn, pc, loc, spurious>>

\* A node takes over the identity and the drives of a machine that is gone.
PickUpNodeId(new, old) ==
    /\ new \in up /\ old \notin k8sNodes
    /\ px[old].pools /\ ~px[new].pools
    /\ px' = [px EXCEPT ![new].id = px[old].id, ![new].pools = TRUE,
                        ![old].id = NoId, ![old].pools = FALSE]
    /\ UNCHANGED <<registryVars, k8sNodes, newest, owed, up, lastId, churn, pc, loc, spurious, halted>>

----------------------------------------------------------------------------
\* updateNode: the first driver record that shares an address or the name.

Matches(n, list) == {r \in list : IP[r.host] = IP[n.name] \/ r.host = n.name}
WithStorageInfo(n, r) == [n EXCEPT !.id = r.id, !.installed = TRUE, !.pools = r.pools]

\* Its two results for a node that is not skipped.
updateNodeFails(n, list) ==
    /\ n.name \notin Disabled
    /\ Matches(n, list) = {} \/ UpdateFails(n)

\* Mutant: a node without a driver record is left as it is.
updateNodeIfFound(t, n, list) ==
    IF n.name \in Disabled \/ Matches(n, list) = {} THEN UNCHANGED registryVars
    ELSE \E r \in Matches(n, list) : UpdateNode(t, WithStorageInfo(n, r))

updateNode(t, n, list) ==
    IF n.name \in Disabled THEN UNCHANGED registryVars
    ELSE \E r \in Matches(n, list) : UpdateNode(t, WithStorageInfo(n, r))

Goto(t, where) == pc' = [pc EXCEPT ![t] = where]
\* Mutant: a new node counts as a storage driver node at once.
NewNodeInstalled(name) == [NoNode EXCEPT !.name = name, !.installed = TRUE]
NewNode(name) == [NoNode EXCEPT !.name = name]      \* parseK8SNode

----------------------------------------------------------------------------
\* RefreshNodeRegistry, then RefreshDriverEndpoints.

RefreshList(t) ==
    /\ pc[t] = "idle" /\ t \in Refreshers
    /\ loc' = [loc EXCEPT ![t].names = k8sNodes, ![t].listed = k8sNodes]
    /\ Goto(t, "cleanup")
    /\ UNCHANGED <<registryVars, clusterVars, spurious>>

RefreshCleanup(t) ==
    /\ pc[t] = "cleanup"
    /\ CleanupRegistry
    /\ Goto(t, "add")
    /\ UNCHANGED <<clusterVars, loc, spurious>>

\* AddNewNode: an error of IsNodeReady ends the refresh with the nodes so far.
RefreshAdd(t) ==
    /\ pc[t] = "add"
    /\ \E name \in loc[t].names :
        \/ /\ name \in k8sNodes
           /\ AddNode(NewNode(name))
           /\ loc' = [loc EXCEPT ![t].names = @ \ {name}]
           /\ UNCHANGED pc
        \/ /\ name \notin k8sNodes
           /\ Goto(t, "failed")
           /\ UNCHANGED <<registryVars, loc>>
    /\ UNCHANGED <<clusterVars, spurious>>

\* getStorageNodesOnStart answers with the driver's nodes (none is an error)
\* and updateNodes ranges over a copy of the registry.
RefreshInspect(t) ==
    /\ pc[t] = "add" /\ loc[t].names = {}
    /\ IF PxList = {}
       THEN Goto(t, "failed") /\ UNCHANGED loc
       ELSE /\ Goto(t, "update")
            /\ loc' = [loc EXCEPT ![t].list = PxList, ![t].nodes = GetNodes]
    /\ UNCHANGED <<registryVars, clusterVars, spurious>>

RefreshUpdate(t) ==
    /\ pc[t] = "update"
    /\ \E n \in loc[t].nodes :
        \/ /\ updateNode(t, n, loc[t].list)
           /\ loc' = [loc EXCEPT ![t].nodes = @ \ {n}]
           /\ UNCHANGED pc
        \/ /\ updateNodeFails(n, loc[t].list)
           /\ Goto(t, "failed")
           /\ UNCHANGED <<registryVars, loc>>
    /\ UNCHANGED <<clusterVars, spurious>>

RefreshReturn(t) ==
    /\ pc[t] = "update" /\ loc[t].nodes = {}
    /\ Goto(t, "refreshed")
    /\ UNCHANGED <<registryVars, clusterVars, loc, spurious>>

RefreshAgain(t) ==
    /\ pc[t] \in {"refreshed", "failed"} /\ t \in Refreshers
    /\ lastUuid + Cardinality(k8sNodes) <= scene.uuids
    /\ Goto(t, "idle")
    /\ UNCHANGED <<registryVars, clusterVars, loc, spurious>>

----------------------------------------------------------------------------
\* WaitDriverUpOnNode.

WaitStart(t) ==
    /\ pc[t] = "idle" /\ t \in Waiters
    /\ \E n \in GetStorageDriverNodes : loc' = [loc EXCEPT ![t].node = n]
    /\ Goto(t, "wait")
    /\ UNCHANGED <<registryVars, clusterVars, spurious>>

\* Status OK of the driver and of pxctl: on to the pod.
WaitStatusOk(t) ==
    /\ pc[t] = "wait"
    /\ OkStatus(loc[t].node.id)
    /\ Goto(t, "pod")
    /\ UNCHANGED <<registryVars, clusterVars, loc, spurious>>

\* Offline: a storageless node may have a new id, so look it up before the
\* next attempt (updateNodeID).  An error only fails the attempt.
WaitOffline(t) ==
    LET n == loc[t].node IN
    /\ pc[t] = "wait"
    /\ ~OkStatus(n.id) /\ Storageless(n.id)
    /\ \/ \E r \in Matches(n, PxList) :
            /\ UpdateNode(t, WithStorageInfo(n, r))
            /\ loc' = [loc EXCEPT ![t].node = WithStorageInfo(n, r)]
       \/ updateNodeFails(n, PxList) /\ UNCHANGED <<registryVars, loc>>
    /\ UNCHANGED <<clusterVars, pc, spurious>>

\* IsPXReadyOnNode writes the caller's copy back with the pod's restart count.
WaitPodReady(t) ==
    LET n == loc[t].node IN
    /\ pc[t] = "pod"
    /\ n.name \in up
    /\ \/ /\ UpdateNode(t, n)
          /\ Goto(t, "up")
          /\ UNCHANGED spurious
       \/ /\ UpdateFails(n)
          /\ spurious' = spurious \cup {t}
          /\ UNCHANGED <<registryVars, pc>>
    /\ UNCHANGED <<clusterVars, loc>>

\* The deadline passes while an attempt keeps failing.
WaitTimeout(t) ==
    /\ \/ pc[t] = "wait" /\ ~OkStatus(loc[t].node.id)
       \/ pc[t] = "pod" /\ (loc[t].node.name \notin up \/ UpdateFails(loc[t].node))
    /\ Goto(t, "failed")
    /\ UNCHANGED <<registryVars, clusterVars, loc, spurious>>

----------------------------------------------------------------------------
\* openshift.DeleteNode: the machine and its entry go, the machine that takes
\* its place is added, and gets its storage info.

RecycleStart(t) ==
    /\ pc[t] = "idle" /\ t \in Recyclers
    /\ \E n \in GetStorageDriverNodes : loc' = [loc EXCEPT ![t].node = n]
    /\ Goto(t, "machine")
    /\ UNCHANGED <<registryVars, clusterVars, spurious>>

\* The machine that is listed last when h is deleted.
NewestWithout(h) ==
    IF newest # h THEN {newest} ELSE IF k8sNodes \subseteq {h} THEN {h} ELSE k8sNodes \ {h}

\* deleteAMachine and DestroyVM.
RecycleMachine(t) ==
    LET h == loc[t].node.name IN
    /\ pc[t] = "machine"
    /\ h \in k8sNodes
    /\ newest' \in NewestWithout(h)
    /\ k8sNodes' = k8sNodes \ {h}
    /\ up' = up \ {h}
    /\ owed' = owed + 1
    /\ Goto(t, "delete")
    /\ UNCHANGED <<registryVars, px, lastId, churn, loc, spurious>>

\* OpenShift makes the machine that takes the place of a deleted one; it joins Kubernetes
\* or never comes up.
Provision(new) ==
    /\ owed > 0 /\ owed' = owed - 1
    /\ new \notin k8sNodes \cup {newest} \cup {r.host : r \in PxList}
    /\ newest' = new
    /\ k8sNodes' \in {k8sNodes, k8sNodes \cup {new}}
    /\ UNCHANGED <<registryVars, px, up, lastId, churn, pc, loc, spurious>>

RecycleDelete(t) ==
    /\ pc[t] = "delete"
    /\ DeleteNode(loc[t].node)
    /\ Goto(t, "new")
    /\ UNCHANGED <<clusterVars, loc, spurious>>

\* checkAndGetNewNode waits for the machine listed last: it is added, whether or not the
\* registry knows it already, or it does not come up in time.
RecycleAdd(t) ==
    /\ pc[t] = "new" /\ newest \in k8sNodes
    /\ AddNode(NewNode(newest))
    /\ loc' = [loc EXCEPT ![t].old = loc[t].node, ![t].node = NewNode(newest)]
    /\ Goto(t, "byName")
    /\ UNCHANGED <<clusterVars, spurious>>

RecycleGivesUp(t) ==
    /\ pc[t] = "new" /\ newest \notin k8sNodes
    /\ Goto(t, "failed")
    /\ UNCHANGED <<registryVars, clusterVars, loc, spurious>>

RecycleGetNode(t) ==
    /\ pc[t] = "byName"
    /\ \/ \E n \in GetNodeByName(loc[t].node.name) :
            /\ loc' = [loc EXCEPT ![t].node = n]
            /\ Goto(t, "pods")
       \/ /\ GetNodeByName(loc[t].node.name) = {}
          /\ Goto(t, "failed")
          /\ UNCHANGED loc
    /\ UNCHANGED <<registryVars, clusterVars, spurious>>

\* WaitForPxPodsToBeUp, through IsPXReadyOnNode.
RecyclePodsUp(t) ==
    LET n == loc[t].node IN
    /\ pc[t] = "pods"
    /\ \/ n.name \in up /\ UpdateNode(t, n) /\ Goto(t, "pickup")
       \/ (n.name \notin up \/ UpdateFails(n)) /\ Goto(t, "failed") /\ UNCHANGED registryVars
    /\ UNCHANGED <<clusterVars, loc, spurious>>

\* UpdateNodeWithStorageInfo, first half: the driver's nodes; the loop finds
\* the index of the deleted node and the slice keeps it.
SkipNode(list, skip) == list

\* validateDrivesAfterNewNodePickUptheID: another node has the deleted node's
\* identity and drives (WaitForNodeIDToBePickedByAnotherNode).
PickedUp(old) == \E r \in PxList : r.id = old.id /\ r.host # old.name /\ r.pools

RecycleList(t) ==
    LET old == loc[t].old IN
    /\ pc[t] = "pickup"
    /\ \/ /\ IsStorageNode(old) => PickedUp(old)
          /\ loc' = [loc EXCEPT ![t].list = SkipNode(PxList, old.name)]
          /\ Goto(t, "info")
       \/ /\ IsStorageNode(old) /\ ~PickedUp(old)
          /\ Goto(t, "failed")
          /\ UNCHANGED loc
    /\ UNCHANGED <<registryVars, clusterVars, spurious>>

RecycleUpdate(t) ==
    LET n == loc[t].node IN
    /\ pc[t] = "info"
    /\ \/ updateNode(t, n, loc[t].list) /\ Goto(t, "recycled")
       \/ updateNodeFails(n, loc[t].list) /\ Goto(t, "failed") /\ UNCHANGED registryVars
    /\ UNCHANGED <<clusterVars, loc, spurious>>

----------------------------------------------------------------------------

NoLoc == [names |-> {}, listed |-> {}, nodes |-> {}, list |-> {}, node |-> NoNode, old |-> NoNode]

\* Every listed machine but those of Disabled runs the driver; one
\* of them has no storage.  The registry is empty, as before Init.
Init ==
    /\ scene \in Scenes
    /\ nodeRegistry = [u \in {} |-> NoNode]
    /\ lastUuid = 0 /\ given = [u \in 1 .. 0 |-> NoNode.name] /\ writing = {}
    /\ k8sNodes \in {S \in SUBSET Machines :
                     Disabled \subseteq S /\ Cardinality(S) >= Cardinality(Machines) - scene.churn}
    /\ up = k8sNodes \ Disabled
    /\ newest \in IF Recyclers = {} THEN {CHOOSE h \in k8sNodes : TRUE} ELSE k8sNodes
    /\ owed = 0
    /\ LET ids == CHOOSE f \in [up -> 1 .. Cardinality(up)] : IsInjective(f) IN
       \E less \in up :
          px = [h \in Names |-> [id |-> IF h \in up THEN ids[h] ELSE NoId, host |-> h, pools |-> h \in up \ {less}]]
    /\ lastId = Cardinality(up)
    /\ churn = 0
    /\ pc = [t \in Threads |-> "idle"]
    /\ loc = [t \in Threads |-> NoLoc]
    /\ spurious = {}
    /\ halted = FALSE

\* The getters range over the map without the lock.  The runtime stops the
\* process ("concurrent map iteration and map write") when it finds another
\* goroutine writing; otherwise the read is a step of the reader.
Reads(t) == \/ pc[t] = "add" /\ loc[t].names = {}
            \/ pc[t] = "idle" /\ t \in Waiters \cup Recyclers
            \/ pc[t] = "byName"
Writes(t) == \/ pc[t] = "add" /\ loc[t].names # {}
             \/ pc[t] \in {"update", "pod", "delete", "new", "pods", "info"}
             \/ \E w \in writing : w.by = t

MapRace ==
    /\ \E r, w \in Threads : r # w /\ Reads(r) /\ Writes(w)
    /\ halted' = TRUE
    /\ UNCHANGED <<registryVars, clusterVars, pc, loc, spurious>>

Cluster ==
    \/ \E h \in Names : K8sChurn(h) \/ PxDown(h) \/ PxUp(h) \/ Provision(h)
    \/ \E new, old \in Names : PickUpNodeId(new, old)

Refresh(t) ==
    \/ RefreshList(t) \/ RefreshCleanup(t) \/ RefreshAdd(t) \/ RefreshInspect(t)
    \/ RefreshUpdate(t) \/ RefreshReturn(t) \/ RefreshAgain(t)
Wait(t) == WaitStart(t) \/ WaitStatusOk(t) \/ WaitOffline(t) \/ WaitPodReady(t) \/ WaitTimeout(t)
Recycle(t) ==
    \/ RecycleStart(t) \/ RecycleMachine(t) \/ RecycleDelete(t) \/ RecycleAdd(t)
    \/ RecycleGivesUp(t)
    \/ RecycleGetNode(t) \/ RecyclePodsUp(t) \/ RecycleList(t) \/ RecycleUpdate(t)

\* A goroutine goes on when its UpdateNode has returned.
Go(t) == (\A w \in writing : w.by # t) /\ (Refresh(t) \/ Wait(t) \/ Recycle(t))
Assign == \E w \in writing : AssignNode(w.node) /\ UNCHANGED <<clusterVars, pc, loc, spurious>>

Next ==
    /\ ~halted /\ UNCHANGED scene
    /\ \/ /\ Cluster \/ Assign \/ \E t \in Threads : Go(t)
          /\ UNCHANGED halted
       \/ MapRace

Spec == Init /\ [][Next]_vars

----------------------------------------------------------------------------

Locations ==
    {"idle", "cleanup", "add", "update", "refreshed", "failed", "wait", "pod", "up",
     "machine", "delete", "new", "byName", "pods", "pickup", "info", "recycled"}

TypeOK ==
    /\ DOMAIN nodeRegistry \subseteq 1 .. lastUuid
    /\ \A u \in DOMAIN nodeRegistry : nodeRegistry[u] \in Nodes /\ nodeRegistry[u].uuid = u
    /\ lastUuid \in 0 .. MaxUuid /\ given \in [1 .. lastUuid -> Names]
    /\ writing \subseteq [by : Threads, node : Nodes] /\ \A v, w \in writing : v = w
    /\ k8sNodes \subseteq Names /\ newest \in Names /\ owed \in Nat /\ up \subseteq Names
    /\ px \in [Names -> [id : PxIds, host : Names, pools : BOOLEAN]]
    /\ lastId \in PxIds /\ churn \in 0 .. scene.churn
    /\ pc \in [Threads -> Locations]
    /\ \A t \in Threads : loc[t].nodes \subseteq Nodes /\ loc[t].list \subseteq PxNodes
    /\ spurious \subseteq Threads /\ halted \in BOOLEAN

\* GetStorageNodes and GetStorageLessNodes read n.Pools through the embedded
\* *api.StorageNode of every node with IsStorageDriverInstalled: the pointer
\* of such a node is never nil, whoever wrote the entry last.
InstalledHasStorageNode ==
    \A u \in DOMAIN nodeRegistry : nodeRegistry[u].installed => nodeRegistry[u].id # NoId

Alone(t) == Refreshers = {t} /\ Recyclers = {}

\* When RefreshNodeRegistry has returned nil the registry holds every machine it listed,
\* each once, although other goroutines write their copies of older entries back.  Beside
\* them there is at most one older entry: that of the UpdateNode which was under way when
\* the map was replaced.  Stated for one refresh at a time and no recycling.
RefreshKeepsEveryNode ==
    \A t \in Refreshers : Alone(t) /\ pc[t] \in {"update", "refreshed"} =>
        \E late \in SUBSET DOMAIN nodeRegistry :
            /\ Cardinality(late) <= 1 /\ (Waiters = {} => late = {})
            /\ {nodeRegistry[u].name : u \in DOMAIN nodeRegistry \ late} = loc[t].listed
            /\ Cardinality(DOMAIN nodeRegistry \ late) = Cardinality(loc[t].listed)

\* When RefreshDriverEndpoints has returned nil every node on which the driver
\* is enabled is marked as one: updateNodes finds a driver record for each or
\* returns an error, and no late write takes the mark away.
RefreshFindsEveryDriver ==
    \A t \in Refreshers : Alone(t) /\ pc[t] = "refreshed" =>
        \A n \in GetNodes : n.installed <=> n.name \notin Disabled

\* The registry implements the directory: refresh, write-back and recycling never reuse an
\* identity or rename an entry, and one that is gone comes back only with an update that
\* found it before.
Directory == INSTANCE NodeDirectory WITH
    Ids <- Uuids,
    machine <- [u \in 1 .. lastUuid |->
                  IF u \in DOMAIN nodeRegistry THEN nodeRegistry[u].name ELSE given[u]],
    live <- DOMAIN nodeRegistry,
    updating <- {w.node.uuid : w \in writing}
ImplementsDirectory == Directory!DirectorySpec
=============================================================================
