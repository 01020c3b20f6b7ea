------------------------- MODULE NodeRegistryProofs -------------------------
(***************************************************************************)
(* Proofs about the node registry for every cluster, any number of         *)
(* goroutines and any number of entries: what its getters rely on, what a  *)
(* refresh leaves behind, and that it implements the directory.            *)
(***************************************************************************)
EXTENDS NodeRegistry, TLAPS, FiniteSetTheorems, FunctionTheorems

(* Leaves are first-order for the most part; the others are left to SMT.    *)
USE ZenonT(10), SMTT(30)

Locals ==
    [names : SUBSET Names, listed : SUBSET Names, nodes : SUBSET Nodes, list : SUBSET PxNodes,
     node : Nodes, old : Nodes]

\* TypeOK, with the types of the local variables and of the constants in scene.
Typed ==
    /\ TypeOK
    /\ scene \in Scenes
    /\ loc \in [Threads -> Locals]

\* The states of each kind of goroutine.
RefreshStates == {"cleanup", "add", "update", "refreshed"}
WaitStates == {"wait", "pod", "up"}
RecycleStates == {"machine", "delete", "new", "byName", "pods", "pickup", "info", "recycled"}
Roles ==
    \A t \in Threads :
        /\ pc[t] \in RefreshStates => t \in Refreshers
        /\ pc[t] \in WaitStates => t \in Waiters
        /\ pc[t] \in RecycleStates => t \in Recyclers

\* A value of type Node that is in the registry, or that a goroutine has copied and
\* may write back: its identity was handed out, for its machine, and with a driver it
\* has a driver's id.
Sound(n) ==
    /\ n.uuid <= lastUuid
    /\ n.uuid # 0 => given[n.uuid] = n.name
    /\ n.installed => n.id # NoId /\ n.name \notin Disabled
Copies(t) == loc[t].nodes \cup {loc[t].node}
\* An update under way, which only a recycling makes of a node without the driver's mark.
SoundUpdate(w) == Sound(w.node) /\ w.node.uuid # 0 /\ (w.by \in Recyclers \/ w.node.installed)
AllSound ==
    /\ \A u \in DOMAIN nodeRegistry : Sound(nodeRegistry[u])
    /\ \A w \in writing : SoundUpdate(w)
    /\ \A t \in Threads : \A n \in Copies(t) : Sound(n)
    /\ \A t \in Threads : pc[t] \in {"wait", "pod"} => loc[t].node.installed

\* The entries F are those of the machines a refresh that is alone has added.  At most
\* one other entry is in the registry or about to come back, and none if nobody waits.
Reachable == DOMAIN nodeRegistry \cup {w.node.uuid : w \in writing}
Added(F, machines) ==
    /\ F \subseteq DOMAIN nodeRegistry
    /\ {given[u] : u \in F} = machines
    /\ Cardinality(F) = Cardinality(machines)
    /\ \A u, v \in Reachable \ F : u = v
    /\ Waiters = {} => Reachable \subseteq F

\* How far it has got with its updates: the one of the entry u is still to be done.
ToUpdate(t, u) ==
    /\ pc[t] = "update"
    /\ (\E n \in loc[t].nodes : n.uuid = u) \/ (\E w \in writing : w.by = t /\ w.node.uuid = u)
Progress(t) ==
    /\ pc[t] = "cleanup" => loc[t].names = loc[t].listed
    /\ pc[t] \in {"add", "update", "refreshed"} =>
          /\ loc[t].names \subseteq loc[t].listed
          /\ \E F \in SUBSET DOMAIN nodeRegistry : Added(F, loc[t].listed \ loc[t].names)
    /\ pc[t] \in {"update", "refreshed"} =>
          /\ loc[t].names = {}
          /\ \A u \in DOMAIN nodeRegistry :
                given[u] \notin Disabled => nodeRegistry[u].installed \/ ToUpdate(t, u)

RegistryInv == Typed /\ Roles /\ AllSound /\ \A t \in Refreshers : Alone(t) => Progress(t)

----------------------------------------------------------------------------
\* Facts about the constants and the operations of the registry.

\* The largest driver id is the last of the interval of ids.
LEMMA MaxPxId ==
    ASSUME scene \in Scenes
    PROVE  /\ Cardinality(Names) \in Nat /\ scene.churn \in Nat
           /\ Max(PxIds) = Cardinality(Names) + scene.churn
<1>1. Cardinality(Names) \in Nat /\ scene.churn \in Nat
  BY NodeRegistryAssumption, FS_CardinalityType
<1> DEFINE K == Cardinality(Names) + scene.churn
<1>2. K \in Nat
  BY <1>1
<1>3. K \in PxIds /\ \A y \in PxIds : K >= y
  BY <1>2 DEF PxIds
<1>4. \A x \in PxIds : (\A y \in PxIds : x >= y) => x = K
  BY <1>2, <1>3 DEF PxIds
<1> QED
  BY <1>1, <1>3, <1>4 DEF Max

\* The values parseK8SNode and WithStorageInfo make are Node values.
LEMMA NodeValues ==
    ASSUME scene \in Scenes
    PROVE  /\ NoNode \in Nodes
           /\ \A name \in Names : NewNode(name) \in Nodes /\ NewNode(name).name = name
                 /\ NewNode(name).uuid = 0 /\ ~NewNode(name).installed
           /\ \A n \in Nodes, r \in PxNodes :
                 /\ WithStorageInfo(n, r) \in Nodes
                 /\ WithStorageInfo(n, r).uuid = n.uuid
                 /\ WithStorageInfo(n, r).name = n.name
                 /\ WithStorageInfo(n, r).installed
                 /\ WithStorageInfo(n, r).id # NoId
<1>1. 0 \in PxIds
  BY MaxPxId DEF PxIds
<1>2. (CHOOSE n \in Names : TRUE) \in Names
  BY NodeRegistryAssumption
<1>3. NoNode \in Nodes
  BY <1>1, <1>2 DEF NoNode, Nodes, NoId
<1>4. ASSUME NEW name \in Names
      PROVE  /\ NewNode(name) \in Nodes /\ NewNode(name).name = name
             /\ NewNode(name).uuid = 0 /\ ~NewNode(name).installed
  BY <1>1, <1>3 DEF NewNode, NoNode, Nodes, NoId
<1>5. ASSUME NEW n \in Nodes, NEW r \in PxNodes
      PROVE  /\ WithStorageInfo(n, r) \in Nodes
             /\ WithStorageInfo(n, r).uuid = n.uuid
             /\ WithStorageInfo(n, r).name = n.name
             /\ WithStorageInfo(n, r).installed
             /\ WithStorageInfo(n, r).id # NoId
  BY DEF WithStorageInfo, Nodes, PxNodes
<1> QED
  BY <1>3, <1>4, <1>5

\* The nodes the storage cluster lists have an id.
LEMMA PxListType ==
    ASSUME Typed
    PROVE  PxList \subseteq PxNodes
  BY DEF Typed, TypeOK, PxList, PxNodes, Range

\* The steps of the registry.
Kept == UNCHANGED registryVars
NodeAdded == \E name \in Names : AddNode(NewNode(name))
Begun(t) ==
    \E n \in Nodes : Sound(n) /\ (t \in Recyclers \/ n.installed) /\ UpdateNode(t, n)
Assigned == \E w \in writing : AssignNode(w.node)
Removed == \E n \in Nodes : DeleteNode(n)

----------------------------------------------------------------------------

\* A copy that gets the storage info of a driver node stays sound.
LEMMA SoundInfo ==
    ASSUME scene \in Scenes, NEW n \in Nodes, Sound(n), n.name \notin Disabled, NEW r \in PxNodes
    PROVE  Sound(WithStorageInfo(n, r))
  BY NodeValues DEF Sound

\* The copies of a goroutine are Node values.
LEMMA CopiesType ==
    ASSUME Typed, NEW t \in Threads
    PROVE  /\ Copies(t) \subseteq Nodes
           /\ loc[t].nodes \subseteq Copies(t) /\ loc[t].node \in Copies(t)
           /\ loc[t].list \subseteq PxNodes
  BY DEF Typed, Locals, Copies

\* updateNode begins to write a sound value with the driver's mark, or leaves a node
\* without the driver alone.
LEMMA UpdateBegun ==
    ASSUME Typed, AllSound, NEW t \in Threads, NEW n \in Copies(t), updateNode(t, n, loc[t].list)
    PROVE  \/ n.name \in Disabled /\ Kept
           \/ \E m \in Nodes : m.uuid = n.uuid /\ Sound(m) /\ m.installed /\ UpdateNode(t, m)
<1>1. scene \in Scenes /\ n \in Nodes /\ Sound(n) /\ loc[t].list \subseteq PxNodes
  BY CopiesType DEF Typed, AllSound
<1>2. CASE n.name \in Disabled
  BY <1>2 DEF updateNode, Kept
<1>3. CASE n.name \notin Disabled
  <2>1. PICK r \in Matches(n, loc[t].list) : UpdateNode(t, WithStorageInfo(n, r))
    BY <1>3 DEF updateNode
  <2>2. r \in PxNodes
    BY <1>1, <2>1 DEF Matches
  <2> QED
    BY <1>1, <1>3, <2>1, <2>2, SoundInfo, NodeValues
<1> QED
  BY <1>2, <1>3

\* What a step of a goroutine does to the registry: AddNode of a new node, the first half
\* of an update with a sound copy, a deletion, CleanupRegistry, or nothing.
Effect(t) == Kept \/ NodeAdded \/ Begun(t) \/ Removed \/ CleanupRegistry

LEMMA RefreshEffect ==
    ASSUME Typed, AllSound, NEW t \in Threads, Refresh(t)
    PROVE  Effect(t)
<1>1. CASE RefreshList(t) \/ RefreshInspect(t) \/ RefreshReturn(t) \/ RefreshAgain(t)
  BY <1>1 DEF RefreshList, RefreshInspect, RefreshReturn, RefreshAgain, Kept, Effect
<1>2. CASE RefreshCleanup(t)
  BY <1>2 DEF RefreshCleanup, Effect
<1>3. CASE RefreshAdd(t)
  <2>1. loc[t].names \subseteq Names
    BY DEF Typed, Locals
  <2> QED
    BY <1>3, <2>1 DEF RefreshAdd, Kept, NodeAdded, Effect
<1>4. CASE RefreshUpdate(t)
  <2>1. PICK n \in loc[t].nodes : updateNode(t, n, loc[t].list) \/ UNCHANGED registryVars
    BY <1>4 DEF RefreshUpdate
  <2>2. Kept \/ \E m \in Nodes : Sound(m) /\ m.installed /\ UpdateNode(t, m)
    BY <2>1, CopiesType, UpdateBegun DEF Kept
  <2> QED
    BY <2>2 DEF Begun, Effect
<1> QED
  BY <1>1, <1>2, <1>3, <1>4 DEF Refresh

LEMMA WaitEffect ==
    ASSUME Typed, AllSound, NEW t \in Threads, Wait(t)
    PROVE  Kept \/ Begun(t)
<1> DEFINE n == loc[t].node
<1>1. n \in Nodes /\ Sound(n) /\ scene \in Scenes
  BY CopiesType DEF Typed, AllSound
<1>2. pc[t] \in {"wait", "pod"} => n.installed
  BY DEF AllSound
<1>3. CASE WaitStart(t) \/ WaitStatusOk(t) \/ WaitTimeout(t)
  BY <1>3 DEF WaitStart, WaitStatusOk, WaitTimeout, Kept
<1>4. CASE WaitOffline(t)
  <2>1. CASE UNCHANGED registryVars
    BY <2>1 DEF Kept
  <2>2. CASE \E r \in Matches(n, PxList) : UpdateNode(t, WithStorageInfo(n, r))
    <3>1. PICK r \in Matches(n, PxList) : UpdateNode(t, WithStorageInfo(n, r))
      BY <2>2
    <3>2. r \in PxNodes
      BY <3>1, PxListType DEF Matches
    <3>3. n.name \notin Disabled
      BY <1>1, <1>2, <1>4 DEF WaitOffline, Sound
    <3> QED
      BY <1>1, <3>1, <3>2, <3>3, SoundInfo, NodeValues DEF Begun
  <2> QED
    BY <1>4, <2>1, <2>2 DEF WaitOffline
<1>5. CASE WaitPodReady(t)
  <2>1. UpdateNode(t, n) \/ UNCHANGED registryVars
    BY <1>5 DEF WaitPodReady
  <2>2. n.installed
    BY <1>2, <1>5 DEF WaitPodReady
  <2> HIDE DEF n
  <2> QED
    BY <1>1, <2>1, <2>2 DEF Begun, Kept
<1> QED
  BY <1>3, <1>4, <1>5 DEF Wait

LEMMA RecycleEffect ==
    ASSUME Typed, Roles, AllSound, NEW t \in Threads, Recycle(t)
    PROVE  Effect(t)
<1> DEFINE n == loc[t].node
<1>1. n \in Nodes /\ Sound(n) /\ n \in Copies(t)
  BY CopiesType DEF Typed, AllSound
<1>2. CASE RecycleStart(t) \/ RecycleMachine(t) \/ RecycleGivesUp(t) \/ RecycleGetNode(t)
           \/ RecycleList(t)
  BY <1>2 DEF RecycleStart, RecycleMachine, RecycleGivesUp, RecycleGetNode, RecycleList, Kept, Effect
<1>3. CASE RecycleDelete(t)
  BY <1>1, <1>3 DEF RecycleDelete, Removed, Effect
<1>4. CASE RecycleAdd(t)
  BY <1>4 DEF RecycleAdd, NodeAdded, Typed, TypeOK, Effect
<1>5. CASE RecyclePodsUp(t)
  <2>1. t \in Recyclers
    BY <1>5 DEF RecyclePodsUp, Roles, RecycleStates
  <2> QED
    BY <1>1, <1>5, <2>1 DEF RecyclePodsUp, Begun, Kept, Effect
<1>6. CASE RecycleUpdate(t)
  <2>1. updateNode(t, n, loc[t].list) \/ UNCHANGED registryVars
    BY <1>6 DEF RecycleUpdate
  <2>2. Kept \/ \E m \in Nodes : Sound(m) /\ m.installed /\ UpdateNode(t, m)
    BY <1>1, <2>1, UpdateBegun DEF Kept
  <2> QED
    BY <2>2 DEF Begun, Effect
<1> QED
  BY <1>2, <1>3, <1>4, <1>5, <1>6 DEF Recycle

\* The same of any step; only Assign ends an update.
LEMMA Effects ==
    ASSUME Typed, Roles, AllSound, Next
    PROVE  Kept \/ NodeAdded \/ (\E t \in Threads : Begun(t)) \/ Assigned \/ Removed \/ CleanupRegistry
<1>1. CASE Cluster
  BY <1>1 DEF Cluster, K8sChurn, PxDown, PxUp, Provision, PickUpNodeId, Kept
<1>2. CASE MapRace
  BY <1>2 DEF MapRace, Kept
<1>3. CASE Assign
  BY <1>3 DEF Assign, Assigned
<1>4. ASSUME NEW t \in Threads, Go(t)
      PROVE  Effect(t)
  BY <1>4, RefreshEffect, WaitEffect, RecycleEffect DEF Go, Effect
<1> QED
  BY <1>1, <1>2, <1>3, <1>4 DEF Next, Effect

----------------------------------------------------------------------------
RegistryType ==
    /\ DOMAIN nodeRegistry \subseteq 1 .. lastUuid
    /\ \A u \in DOMAIN nodeRegistry : nodeRegistry[u] \in Nodes /\ nodeRegistry[u].uuid = u
    /\ lastUuid \in 0 .. MaxUuid /\ given \in [1 .. lastUuid -> Names]
    /\ writing \subseteq [by : Threads, node : Nodes]
    /\ \A v, w \in writing : v = w

\* Identities are never handed out twice and keep their machine.
History ==
    /\ lastUuid' >= lastUuid
    /\ \A u \in 1 .. lastUuid : given'[u] = given[u]

\* So what was sound stays sound.
LEMMA SoundStays ==
    ASSUME RegistryType, History, scene' = scene, lastUuid' \in Nat, NEW n \in Nodes, Sound(n)
    PROVE  Sound(n)'
<1>1. Disabled' = Disabled /\ lastUuid \in Nat /\ n.uuid \in Nat
  BY NodeRegistryAssumption DEF Disabled, RegistryType, Nodes, Uuids
<1>2. n.uuid <= lastUuid'
  BY <1>1 DEF Sound, History
<1>3. n.uuid # 0 => n.uuid \in 1 .. lastUuid
  BY <1>1 DEF Sound
<1> QED
  BY <1>1, <1>2, <1>3 DEF Sound, History

LEMMA AddStep ==
    ASSUME Typed, AllSound, scene' = scene, NEW name \in Names, AddNode(NewNode(name))
    PROVE  /\ RegistryType' /\ History
           /\ \A u \in DOMAIN nodeRegistry' : Sound(nodeRegistry[u])'
           /\ Unlocked /\ writing' = {}
           /\ DOMAIN nodeRegistry' = DOMAIN nodeRegistry \cup {lastUuid'}
           /\ lastUuid' \notin 1 .. lastUuid /\ lastUuid' \in 1 .. lastUuid'
           /\ 1 .. lastUuid' = (1 .. lastUuid) \cup {lastUuid'} /\ lastUuid' \in Uuids
           /\ given'[lastUuid'] = name
<1>0. scene \in Scenes /\ RegistryType /\ MaxUuid \in Nat /\ lastUuid \in Nat /\ lastUuid < MaxUuid
  BY NodeRegistryAssumption DEF Typed, TypeOK, RegistryType, AddNode
<1>1. Nodes' = Nodes /\ Threads' = Threads
  BY DEF Nodes, PxIds, Threads, Refreshers, Waiters, Recyclers
<1>2. PICK k \in Uuids : k = lastUuid + 1 /\ lastUuid' = k
  BY <1>0 DEF AddNode, Uuids
<1>3. /\ k \notin 1 .. lastUuid /\ k \in 1 .. k /\ 1 .. k = (1 .. lastUuid) \cup {k}
      /\ k \in Nat /\ k <= MaxUuid /\ k >= lastUuid
  BY <1>0, <1>2 DEF Uuids
<1>4. PICK new \in Nodes : /\ new = [NewNode(name) EXCEPT !.uuid = k]
                            /\ new.uuid = k /\ new.name = name /\ ~new.installed
  <2> DEFINE made == [NewNode(name) EXCEPT !.uuid = k]
  <2>1. NewNode(name) \in Nodes /\ ~NewNode(name).installed /\ NewNode(name).name = name
    BY <1>0, NodeValues
  <2>2. made \in Nodes /\ made.uuid = k /\ made.name = name /\ ~made.installed
    BY <2>1 DEF Nodes
  <2> QED
    BY <2>2
<1>5. /\ DOMAIN nodeRegistry' = DOMAIN nodeRegistry \cup {k}
      /\ nodeRegistry'[k] = new
      /\ \A u \in DOMAIN nodeRegistry : nodeRegistry'[u] = nodeRegistry[u]
  <2>1. \A u \in DOMAIN nodeRegistry : u # k
    BY <1>0, <1>3 DEF RegistryType
  <2> QED
    BY <1>2, <1>4, <2>1 DEF AddNode
<1>6. /\ given' = [u \in 1 .. k |-> IF u = k THEN name ELSE given[u]]
      /\ writing = {} /\ writing' = {}
  BY <1>0, <1>2, NodeValues DEF AddNode, Unlocked
<1>7. given' \in [1 .. k -> Names] /\ given'[k] = name /\ \A u \in 1 .. lastUuid : given'[u] = given[u]
  BY <1>0, <1>3, <1>6 DEF RegistryType
<1>8. History
  BY <1>2, <1>3, <1>7 DEF History
<1>9. RegistryType'
  <2>1. DOMAIN nodeRegistry' \subseteq 1 .. k
    BY <1>0, <1>3, <1>5 DEF RegistryType
  <2>2. \A u \in DOMAIN nodeRegistry' : nodeRegistry'[u] \in Nodes /\ nodeRegistry'[u].uuid = u
    BY <1>0, <1>4, <1>5 DEF RegistryType
  <2>3. k \in 0 .. MaxUuid
    BY <1>0, <1>3
  <2> QED
    BY <1>1, <1>2, <1>6, <1>7, <2>1, <2>2, <2>3 DEF RegistryType
<1>10. ASSUME NEW u \in DOMAIN nodeRegistry' PROVE Sound(nodeRegistry[u])'
  <2>1. CASE u = k
    <3>1. nodeRegistry'[u].uuid = k /\ nodeRegistry'[u].name = name /\ ~nodeRegistry'[u].installed
      BY <1>4, <1>5, <2>1
    <3>2. k <= lastUuid' /\ given'[k] = name
      BY <1>2, <1>3, <1>7
    <3> QED
      BY <3>1, <3>2 DEF Sound
  <2>2. CASE u \in DOMAIN nodeRegistry
    <3>1. nodeRegistry[u] \in Nodes /\ Sound(nodeRegistry[u]) /\ nodeRegistry'[u] = nodeRegistry[u]
      BY <1>0, <1>5, <2>2 DEF RegistryType, AllSound
    <3>2. ASSUME NEW n \in Nodes, Sound(n) PROVE Sound(n)'
      BY <1>0, <1>2, <1>3, <1>8, <3>2, SoundStays
    <3> QED
      BY <1>2, <3>1, <3>2 DEF Sound
  <2> QED
    BY <1>5, <1>10, <2>1, <2>2
<1> QED
  BY <1>2, <1>3, <1>5, <1>6, <1>7, <1>8, <1>9, <1>10 DEF Unlocked

\* The second half of an update puts a sound value into the registry.
LEMMA AssignStep ==
    ASSUME Typed, AllSound, scene' = scene, NEW w \in writing, AssignNode(w.node)
    PROVE  /\ RegistryType' /\ History
           /\ \A u \in DOMAIN nodeRegistry' : Sound(nodeRegistry[u])'
           /\ writing = {w} /\ writing' = {} /\ given' = given /\ lastUuid' = lastUuid
           /\ DOMAIN nodeRegistry' = DOMAIN nodeRegistry \cup {w.node.uuid}
           /\ nodeRegistry'[w.node.uuid] = w.node
           /\ \A u \in DOMAIN nodeRegistry : u # w.node.uuid => nodeRegistry'[u] = nodeRegistry[u]
<1>0. scene \in Scenes /\ RegistryType /\ MaxUuid \in Nat /\ lastUuid \in Nat
  BY NodeRegistryAssumption DEF Typed, TypeOK, RegistryType
<1>1. Nodes' = Nodes /\ Threads' = Threads /\ Disabled' = Disabled
  BY DEF Nodes, PxIds, Threads, Refreshers, Waiters, Recyclers, Disabled
<1>2. PICK n \in Nodes : n = w.node /\ Sound(n) /\ n.uuid # 0
  BY <1>0 DEF RegistryType, AllSound, SoundUpdate
<1>3. n.uuid \in 1 .. lastUuid
  BY <1>0, <1>2 DEF Sound, Nodes, Uuids
<1>4. /\ DOMAIN nodeRegistry' = DOMAIN nodeRegistry \cup {n.uuid}
      /\ nodeRegistry'[n.uuid] = n
      /\ \A u \in DOMAIN nodeRegistry : u # n.uuid => nodeRegistry'[u] = nodeRegistry[u]
  BY <1>2 DEF AssignNode
<1>5. writing = {w} /\ writing' = {} /\ given' = given /\ lastUuid' = lastUuid
  BY <1>0 DEF AssignNode, RegistryType
<1>6. History
  BY <1>0, <1>5 DEF History
<1>7. RegistryType'
  BY <1>0, <1>1, <1>2, <1>3, <1>4, <1>5 DEF RegistryType
<1>8. ASSUME NEW u \in DOMAIN nodeRegistry' PROVE Sound(nodeRegistry[u])'
  <2>1. Sound(nodeRegistry'[u])
    BY <1>2, <1>4, <1>8 DEF AllSound
  <2> QED
    BY <1>1, <1>5, <2>1 DEF Sound
<1> QED
  BY <1>2, <1>4, <1>5, <1>6, <1>7, <1>8

\* Any other step leaves the identities alone and takes entries away, at most.
Shrinks ==
    /\ lastUuid' = lastUuid /\ given' = given
    /\ DOMAIN nodeRegistry' \subseteq DOMAIN nodeRegistry
    /\ \A u \in DOMAIN nodeRegistry' : nodeRegistry'[u] = nodeRegistry[u]

LEMMA ShrinkSteps ==
    ASSUME Kept \/ (\E t \in Threads : Begun(t)) \/ Removed \/ CleanupRegistry
    PROVE  Shrinks
<1>1. CASE Kept
  BY <1>1 DEF Kept, registryVars, entryVars, Shrinks
<1>2. CASE \E t \in Threads : Begun(t)
  BY <1>2 DEF Begun, UpdateNode, entryVars, Shrinks
<1>3. CASE Removed \/ CleanupRegistry
  <2>1. PICK S \in SUBSET DOMAIN nodeRegistry : nodeRegistry' = Restrict(nodeRegistry, S)
    BY <1>3 DEF Removed, DeleteNode, CleanupRegistry
  <2>2. DOMAIN nodeRegistry' = S /\ \A u \in S : nodeRegistry'[u] = nodeRegistry[u]
    BY <2>1 DEF Restrict
  <2>3. lastUuid' = lastUuid /\ given' = given
    BY <1>3 DEF Removed, DeleteNode, CleanupRegistry
  <2> QED
    BY <2>2, <2>3 DEF Shrinks
<1> QED
  BY <1>1, <1>2, <1>3

LEMMA ShrinkSound ==
    ASSUME Typed, AllSound, scene' = scene, Shrinks,
           writing' \subseteq [by : Threads, node : Nodes], \A v, w \in writing' : v = w
    PROVE  /\ RegistryType' /\ History
           /\ \A u \in DOMAIN nodeRegistry' : Sound(nodeRegistry[u])'
<1>0. RegistryType /\ lastUuid \in Nat
  BY NodeRegistryAssumption DEF Typed, TypeOK, RegistryType
<1>1. Nodes' = Nodes /\ Threads' = Threads /\ Disabled' = Disabled
  BY DEF Nodes, PxIds, Threads, Refreshers, Waiters, Recyclers, Disabled
<1>2. History
  BY <1>0 DEF Shrinks, History
<1>3. RegistryType'
  BY <1>0, <1>1 DEF RegistryType, Shrinks
<1>4. \A u \in DOMAIN nodeRegistry' : Sound(nodeRegistry[u])'
  BY <1>1 DEF Sound, Shrinks, AllSound
<1> QED
  BY <1>2, <1>3, <1>4

\* Whatever a step does to the registry, its entries keep their types and stay
\* sound, and so does every copy made before the step.
LEMMA RegistryStep ==
    ASSUME Typed, Roles, AllSound, scene' = scene,
           Kept \/ NodeAdded \/ (\E t \in Threads : Begun(t)) \/ Assigned \/ Removed \/ CleanupRegistry
    PROVE  /\ RegistryType' /\ History
           /\ \A u \in DOMAIN nodeRegistry' : Sound(nodeRegistry[u])'
           /\ \A w \in writing' : SoundUpdate(w)'
           /\ \A n \in Nodes : Sound(n) => Sound(n)'
<1>0. RegistryType /\ Recyclers' = Recyclers
  BY DEF Typed, TypeOK, RegistryType, Recyclers
<1>1. /\ RegistryType' /\ History
      /\ \A u \in DOMAIN nodeRegistry' : Sound(nodeRegistry[u])'
      /\ \A w \in writing' : w.node \in Nodes /\ SoundUpdate(w)
  <2>1. CASE NodeAdded
    <3>1. PICK name \in Names : AddNode(NewNode(name))
      BY <2>1 DEF NodeAdded
    <3> QED
      BY <3>1, AddStep
  <2>2. CASE Assigned
    <3>1. PICK w \in writing : AssignNode(w.node)
      BY <2>2 DEF Assigned
    <3> QED
      BY <3>1, AssignStep
  <2>3. CASE \E t \in Threads : Begun(t)
    <3>1. PICK t \in Threads, n \in Nodes : Sound(n) /\ (t \in Recyclers \/ n.installed) /\ UpdateNode(t, n)
      BY <2>3 DEF Begun
    <3>2. writing' = {[by |-> t, node |-> n]} /\ n.uuid # 0
      BY <1>0, <3>1 DEF UpdateNode, RegistryType
    <3>3. \A w \in writing' : w.node = n /\ w.by = t
      BY <3>2
    <3>4. \A w \in writing' : w.node \in Nodes /\ SoundUpdate(w)
      BY <3>1, <3>2, <3>3 DEF SoundUpdate
    <3>5. writing' \subseteq [by : Threads, node : Nodes] /\ \A v, w \in writing' : v = w
      BY <3>1, <3>2
    <3> QED
      BY <2>3, <3>4, <3>5, ShrinkSteps, ShrinkSound
  <2>4. CASE Kept \/ Removed \/ CleanupRegistry
    <3>1. writing' = writing
      BY <2>4 DEF Kept, registryVars, Removed, DeleteNode, CleanupRegistry
    <3>2. \A w \in writing : w.node \in Nodes /\ SoundUpdate(w)
      BY <1>0 DEF RegistryType, AllSound
    <3>3. writing' \subseteq [by : Threads, node : Nodes] /\ \A v, w \in writing' : v = w
      BY <1>0, <3>1 DEF RegistryType
    <3> QED
      BY <2>4, <3>1, <3>2, <3>3, ShrinkSteps, ShrinkSound
  <2> QED
    BY <2>1, <2>2, <2>3, <2>4
<1>2. lastUuid' \in Nat
  BY <1>1, NodeRegistryAssumption DEF RegistryType
<1>3. \A n \in Nodes : Sound(n) => Sound(n)'
  BY <1>0, <1>1, <1>2, SoundStays
<1>4. \A w \in writing' : SoundUpdate(w)'
  BY <1>0, <1>1, <1>3 DEF SoundUpdate
<1> QED
  BY <1>1, <1>3, <1>4

----------------------------------------------------------------------------
\* What a step of a goroutine leaves in its own variables.
Step(t) ==
    /\ pc' \in [Threads -> Locations] /\ loc' \in [Threads -> Locals]
    /\ \A s \in Threads : s # t => pc'[s] = pc[s] /\ loc'[s] = loc[s]
    /\ pc'[t] \in RefreshStates => t \in Refreshers
    /\ pc'[t] \in WaitStates => t \in Waiters
    /\ pc'[t] \in RecycleStates => t \in Recyclers
    /\ \A n \in loc'[t].nodes \cup {loc'[t].node} : Sound(n)
    /\ pc'[t] \in {"wait", "pod"} => loc'[t].node.installed

\* A goroutine's variables where it only moves on.
LEMMA MoveStep ==
    ASSUME Typed, AllSound, NEW t \in Threads, NEW w \in Locations, Goto(t, w), UNCHANGED loc,
           w \in RefreshStates => t \in Refreshers,
           w \in WaitStates => t \in Waiters,
           w \in RecycleStates => t \in Recyclers,
           w \in {"wait", "pod"} => loc[t].node.installed
    PROVE  Step(t)
<1>1. pc \in [Threads -> Locations] /\ loc \in [Threads -> Locals]
  BY DEF Typed, TypeOK
<1>2. pc' \in [Threads -> Locations] /\ pc'[t] = w /\ \A s \in Threads : s # t => pc'[s] = pc[s]
  BY <1>1 DEF Goto
<1>3. \A n \in loc[t].nodes \cup {loc[t].node} : Sound(n)
  BY DEF AllSound, Copies
<1> QED
  BY <1>1, <1>2, <1>3 DEF Step

\* The same where it also sets its variables to the value l.
LEMMA SetStep ==
    ASSUME Typed, NEW t \in Threads, NEW w \in Locations, pc' = [pc EXCEPT ![t] = w],
           NEW l \in Locals, loc' = [loc EXCEPT ![t] = l],
           \A n \in l.nodes \cup {l.node} : Sound(n),
           w \in RefreshStates => t \in Refreshers,
           w \in WaitStates => t \in Waiters,
           w \in RecycleStates => t \in Recyclers,
           w \in {"wait", "pod"} => l.node.installed
    PROVE  Step(t)
<1>1. pc \in [Threads -> Locations] /\ loc \in [Threads -> Locals]
  BY DEF Typed, TypeOK
<1>2. pc' \in [Threads -> Locations] /\ pc'[t] = w /\ \A s \in Threads : s # t => pc'[s] = pc[s]
  BY <1>1
<1>3. loc' \in [Threads -> Locals] /\ loc'[t] = l /\ \A s \in Threads : s # t => loc'[s] = loc[s]
  BY <1>1
<1> QED
  BY <1>1, <1>2, <1>3 DEF Step

\* Entries and new nodes are sound Node values.
LEMMA SoundSources ==
    ASSUME Typed, AllSound
    PROVE  /\ \A n \in GetNodes : n \in Nodes /\ Sound(n)
           /\ \A name \in Names : Sound(NewNode(name))
<1>1. scene \in Scenes /\ lastUuid \in 0 .. MaxUuid /\ MaxUuid \in Nat
  BY NodeRegistryAssumption DEF Typed, TypeOK
<1>2. \A n \in GetNodes : n \in Nodes /\ Sound(n)
  BY DEF GetNodes, Range, Typed, TypeOK, AllSound
<1>3. ASSUME NEW name \in Names PROVE Sound(NewNode(name))
  <2>1. NewNode(name).uuid = 0 /\ ~NewNode(name).installed
    BY <1>1, NodeValues
  <2> QED
    BY <1>1, <2>1 DEF Sound
<1> QED
  BY <1>2, <1>3

LEMMA RefreshStep ==
    ASSUME Typed, Roles, AllSound, NEW t \in Threads, Refresh(t)
    PROVE  Step(t)
<1>1. loc \in [Threads -> Locals] /\ loc[t] \in Locals /\ pc \in [Threads -> Locations] /\ k8sNodes \subseteq Names
  BY DEF Typed, TypeOK
<1>2. \A n \in loc[t].nodes \cup {loc[t].node} : Sound(n)
  BY DEF AllSound, Copies
<1>3. pc[t] \in RefreshStates => t \in Refreshers
  BY DEF Roles
<1>4. CASE RefreshList(t)
  <2> DEFINE l == [[loc[t] EXCEPT !.names = k8sNodes] EXCEPT !.listed = k8sNodes]
  <2>1. l \in Locals /\ l.nodes = loc[t].nodes /\ l.node = loc[t].node
    BY <1>1 DEF Locals
  <2>2. loc' = [loc EXCEPT ![t] = l] /\ pc' = [pc EXCEPT ![t] = "cleanup"] /\ t \in Refreshers
    BY <1>1, <1>4 DEF RefreshList, Goto
  <2> HIDE DEF l
  <2> QED
    BY <1>2, <2>1, <2>2, SetStep DEF Locations, RefreshStates, WaitStates, RecycleStates
<1>5. CASE RefreshCleanup(t)
  BY <1>3, <1>5, MoveStep DEF RefreshCleanup, Locations, RefreshStates, WaitStates, RecycleStates
<1>6. CASE RefreshAdd(t)
  <2>1. CASE Goto(t, "failed") /\ UNCHANGED loc
    BY <2>1, MoveStep DEF Locations, RefreshStates, WaitStates, RecycleStates
  <2>2. CASE \E name \in loc[t].names : loc' = [loc EXCEPT ![t].names = @ \ {name}] /\ UNCHANGED pc
    <3>1. PICK name \in loc[t].names : loc' = [loc EXCEPT ![t].names = @ \ {name}]
      BY <2>2
    <3> DEFINE l == [loc[t] EXCEPT !.names = loc[t].names \ {name}]
    <3>2. l \in Locals /\ l.nodes = loc[t].nodes /\ l.node = loc[t].node
      BY <1>1 DEF Locals
    <3>3. loc' = [loc EXCEPT ![t] = l] /\ pc' = [pc EXCEPT ![t] = "add"]
      BY <1>1, <1>6, <2>2, <3>1 DEF RefreshAdd
    <3> HIDE DEF l
    <3> QED
      BY <1>2, <1>3, <1>6, <3>2, <3>3, SetStep DEF RefreshAdd, Locations, RefreshStates, WaitStates, RecycleStates
  <2> QED
    BY <1>6, <2>1, <2>2 DEF RefreshAdd
<1>7. CASE RefreshInspect(t)
  <2>1. CASE PxList = {}
    BY <1>7, <2>1, MoveStep DEF RefreshInspect, Locations, RefreshStates, WaitStates, RecycleStates
  <2>2. CASE PxList # {}
    <3> DEFINE l == [[loc[t] EXCEPT !.list = PxList] EXCEPT !.nodes = GetNodes]
    <3>1. PxList \subseteq PxNodes /\ GetNodes \subseteq Nodes /\ \A n \in GetNodes : Sound(n)
      BY PxListType, SoundSources
    <3>2. l \in Locals /\ l.nodes = GetNodes /\ l.node = loc[t].node
      BY <1>1, <3>1 DEF Locals
    <3>3. loc' = [loc EXCEPT ![t] = l] /\ pc' = [pc EXCEPT ![t] = "update"] /\ pc[t] = "add"
      BY <1>1, <1>7, <2>2 DEF RefreshInspect, Goto
    <3> HIDE DEF l
    <3> QED
      BY <1>2, <1>3, <3>1, <3>2, <3>3, SetStep DEF Locations, RefreshStates, WaitStates, RecycleStates
  <2> QED
    BY <2>1, <2>2
<1>8. CASE RefreshUpdate(t)
  <2>1. CASE Goto(t, "failed") /\ UNCHANGED loc
    BY <2>1, MoveStep DEF Locations, RefreshStates, WaitStates, RecycleStates
  <2>2. CASE \E n \in loc[t].nodes : loc' = [loc EXCEPT ![t].nodes = @ \ {n}] /\ UNCHANGED pc
    <3>1. PICK n \in loc[t].nodes : loc' = [loc EXCEPT ![t].nodes = @ \ {n}]
      BY <2>2
    <3> DEFINE l == [loc[t] EXCEPT !.nodes = loc[t].nodes \ {n}]
    <3>2. l \in Locals /\ l.nodes \subseteq loc[t].nodes /\ l.node = loc[t].node
      BY <1>1 DEF Locals
    <3>3. loc' = [loc EXCEPT ![t] = l] /\ pc' = [pc EXCEPT ![t] = "update"]
      BY <1>1, <1>8, <2>2, <3>1 DEF RefreshUpdate
    <3> HIDE DEF l
    <3> QED
      BY <1>2, <1>3, <1>8, <3>2, <3>3, SetStep DEF RefreshUpdate, Locations, RefreshStates, WaitStates, RecycleStates
  <2> QED
    BY <1>8, <2>1, <2>2 DEF RefreshUpdate
<1>9. CASE RefreshReturn(t) \/ RefreshAgain(t)
  BY <1>3, <1>9, MoveStep DEF RefreshReturn, RefreshAgain, Locations, RefreshStates, WaitStates, RecycleStates
<1> QED
  BY <1>4, <1>5, <1>6, <1>7, <1>8, <1>9 DEF Refresh

LEMMA WaitStep ==
    ASSUME Typed, Roles, AllSound, NEW t \in Threads, Wait(t)
    PROVE  Step(t)
<1> USE DEF Locations, RefreshStates, WaitStates, RecycleStates
<1>1. loc \in [Threads -> Locals] /\ loc[t] \in Locals /\ pc \in [Threads -> Locations]
  BY DEF Typed, TypeOK
<1>2. \A n \in loc[t].nodes \cup {loc[t].node} : Sound(n)
  BY DEF AllSound, Copies
<1>3. pc[t] \in WaitStates => t \in Waiters
  BY DEF Roles
<1>4. pc[t] \in {"wait", "pod"} => loc[t].node.installed
  BY DEF AllSound
<1>5. CASE WaitStart(t)
  <2>1. PICK n \in GetStorageDriverNodes : loc' = [loc EXCEPT ![t].node = n]
    BY <1>5 DEF WaitStart
  <2> DEFINE l == [loc[t] EXCEPT !.node = n]
  <2>2. n \in Nodes /\ Sound(n) /\ n.installed
    BY <2>1, SoundSources DEF GetStorageDriverNodes
  <2>3. l \in Locals /\ l.nodes = loc[t].nodes /\ l.node = n
    BY <1>1, <2>2 DEF Locals
  <2>4. loc' = [loc EXCEPT ![t] = l] /\ pc' = [pc EXCEPT ![t] = "wait"] /\ t \in Waiters
    BY <1>1, <1>5, <2>1 DEF WaitStart, Goto
  <2> HIDE DEF l
  <2> QED
    BY <1>2, <2>2, <2>3, <2>4, SetStep
<1>6. CASE WaitStatusOk(t)
  BY <1>3, <1>4, <1>6, MoveStep DEF WaitStatusOk
<1>7. CASE WaitOffline(t)
  <2> DEFINE n == loc[t].node
  <2>1. pc' = [pc EXCEPT ![t] = "wait"] /\ pc[t] = "wait"
    BY <1>1, <1>7 DEF WaitOffline
  <2>2. CASE UNCHANGED loc
    BY <1>3, <1>4, <2>1, <2>2, MoveStep DEF Goto
  <2>3. CASE \E r \in Matches(n, PxList) : loc' = [loc EXCEPT ![t].node = WithStorageInfo(n, r)]
    <3>1. PICK r \in Matches(n, PxList) : loc' = [loc EXCEPT ![t].node = WithStorageInfo(n, r)]
      BY <2>3
    <3>2. r \in PxNodes
      BY <3>1, PxListType DEF Matches
    <3>3. n \in Nodes /\ Sound(n) /\ n.name \notin Disabled /\ scene \in Scenes
      BY <1>1, <1>2, <1>4, <2>1 DEF Locals, Sound, Typed
    <3> DEFINE m == WithStorageInfo(n, r)
    <3>4. m \in Nodes /\ Sound(m) /\ m.installed
      BY <3>2, <3>3, SoundInfo, NodeValues
    <3> HIDE DEF m
    <3> DEFINE l == [loc[t] EXCEPT !.node = m]
    <3>5. l \in Locals /\ l.nodes = loc[t].nodes /\ l.node = m
      BY <1>1, <3>4 DEF Locals
    <3>6. loc' = [loc EXCEPT ![t] = l]
      BY <1>1, <3>1 DEF m
    <3> HIDE DEF l
    <3> QED
      BY <1>2, <1>3, <2>1, <3>4, <3>5, <3>6, SetStep
  <2> QED
    BY <1>7, <2>2, <2>3 DEF WaitOffline
<1>8. CASE WaitPodReady(t)
  <2>1. pc' = [pc EXCEPT ![t] = "up"] \/ pc' = [pc EXCEPT ![t] = "pod"]
    BY <1>1, <1>8 DEF WaitPodReady, Goto
  <2>2. pc[t] = "pod" /\ UNCHANGED loc
    BY <1>8 DEF WaitPodReady
  <2> QED
    BY <1>3, <1>4, <2>1, <2>2, MoveStep DEF Goto
<1>9. CASE WaitTimeout(t)
  BY <1>9, MoveStep DEF WaitTimeout
<1> QED
  BY <1>5, <1>6, <1>7, <1>8, <1>9 DEF Wait

LEMMA RecycleStep ==
    ASSUME Typed, Roles, AllSound, NEW t \in Threads, Recycle(t)
    PROVE  Step(t)
<1> USE DEF Locations, RefreshStates, WaitStates, RecycleStates
<1>1. loc \in [Threads -> Locals] /\ loc[t] \in Locals /\ pc \in [Threads -> Locations]
  BY DEF Typed, TypeOK
<1>2. \A n \in loc[t].nodes \cup {loc[t].node} : Sound(n)
  BY DEF AllSound, Copies
<1>3. pc[t] \in RecycleStates => t \in Recyclers
  BY DEF Roles
<1>4. ASSUME NEW n \in GetNodes, NEW w \in RecycleStates, t \in Recyclers,
             loc' = [loc EXCEPT ![t].node = n], Goto(t, w)
      PROVE  Step(t)
  <2> DEFINE l == [loc[t] EXCEPT !.node = n]
  <2>1. n \in Nodes /\ Sound(n)
    BY SoundSources
  <2>2. l \in Locals /\ l.nodes = loc[t].nodes /\ l.node = n
    BY <1>1, <2>1 DEF Locals
  <2>3. loc' = [loc EXCEPT ![t] = l] /\ pc' = [pc EXCEPT ![t] = w]
    BY <1>1, <1>4 DEF Goto
  <2> HIDE DEF l
  <2>4. \A m \in l.nodes \cup {l.node} : Sound(m)
    BY <1>2, <2>1, <2>2
  <2>5. /\ w \in Locations
        /\ w \notin RefreshStates /\ w \notin WaitStates /\ w \notin {"wait", "pod"}
    BY <1>4
  <2> HIDE DEF Locations, RefreshStates, WaitStates, RecycleStates
  <2> QED
    BY <1>4, <2>2, <2>3, <2>4, <2>5, SetStep
<1>5. CASE RecycleStart(t)
  <2>1. PICK n \in GetNodes : loc' = [loc EXCEPT ![t].node = n]
    BY <1>5 DEF RecycleStart, GetStorageDriverNodes
  <2> QED
    BY <1>4, <1>5, <2>1 DEF RecycleStart
<1>6. CASE RecycleMachine(t) \/ RecycleDelete(t) \/ RecycleGivesUp(t)
  <2>1. pc[t] \in RecycleStates /\ UNCHANGED loc /\ \E w \in {"delete", "new", "failed"} : Goto(t, w)
    BY <1>6 DEF RecycleMachine, RecycleDelete, RecycleGivesUp
  <2> QED
    BY <1>3, <2>1, MoveStep
<1>7. CASE RecycleAdd(t)
  <2>1. PICK name \in k8sNodes : loc' = [loc EXCEPT ![t].old = loc[t].node, ![t].node = NewNode(name)]
    BY <1>7 DEF RecycleAdd, Typed, TypeOK
  <2>2. NewNode(name) \in Nodes /\ Sound(NewNode(name))
    BY SoundSources, NodeValues DEF Typed, TypeOK
  <2> DEFINE l == [[loc[t] EXCEPT !.old = loc[t].node] EXCEPT !.node = NewNode(name)]
  <2>3. l \in Locals /\ l.nodes = loc[t].nodes /\ l.node = NewNode(name)
    BY <1>1, <2>2 DEF Locals
  <2>4. loc' = [loc EXCEPT ![t] = l] /\ pc' = [pc EXCEPT ![t] = "byName"] /\ t \in Recyclers
    BY <1>1, <1>3, <1>7, <2>1 DEF RecycleAdd, Goto
  <2> HIDE DEF l
  <2> QED
    BY <1>2, <2>2, <2>3, <2>4, SetStep
<1>8. CASE RecycleGetNode(t)
  <2>1. CASE \E n \in GetNodeByName(loc[t].node.name) : loc' = [loc EXCEPT ![t].node = n] /\ Goto(t, "pods")
    BY <1>3, <1>4, <1>8, <2>1 DEF RecycleGetNode, GetNodeByName
  <2>2. CASE Goto(t, "failed") /\ UNCHANGED loc
    BY <2>2, MoveStep
  <2> QED
    BY <1>8, <2>1, <2>2 DEF RecycleGetNode
<1>9. CASE RecyclePodsUp(t) \/ RecycleUpdate(t)
  <2>1. pc[t] \in RecycleStates /\ UNCHANGED loc /\ \E w \in {"pickup", "recycled", "failed"} : Goto(t, w)
    BY <1>9 DEF RecyclePodsUp, RecycleUpdate
  <2> QED
    BY <1>3, <2>1, MoveStep
<1>10. CASE RecycleList(t)
  <2>1. CASE loc' = [loc EXCEPT ![t].list = SkipNode(PxList, loc[t].old.name)] /\ Goto(t, "info")
    <3> DEFINE l == [loc[t] EXCEPT !.list = PxList]
    <3>1. l \in Locals /\ l.nodes = loc[t].nodes /\ l.node = loc[t].node
      BY <1>1, PxListType DEF Locals
    <3>2. loc' = [loc EXCEPT ![t] = l] /\ pc' = [pc EXCEPT ![t] = "info"] /\ t \in Recyclers
      BY <1>1, <1>3, <1>10, <2>1 DEF RecycleList, Goto, SkipNode
    <3> HIDE DEF l
    <3> QED
      BY <1>2, <3>1, <3>2, SetStep
  <2>2. CASE Goto(t, "failed") /\ UNCHANGED loc
    BY <2>2, MoveStep
  <2> QED
    BY <1>10, <2>1, <2>2 DEF RecycleList
<1> QED
  BY <1>5, <1>6, <1>7, <1>8, <1>9, <1>10 DEF Recycle

----------------------------------------------------------------------------
\* The conjuncts of the invariant, one at a time.

ClusterType ==
    /\ k8sNodes \subseteq Names /\ newest \in Names /\ owed \in Nat /\ up \subseteq Names
    /\ px \in [Names -> [id : PxIds, host : Names, pools : BOOLEAN]]
    /\ lastId \in PxIds /\ churn \in 0 .. scene.churn
    /\ spurious \subseteq Threads /\ halted \in BOOLEAN

LEMMA TypedParts ==
    Typed <=> /\ RegistryType /\ ClusterType
              /\ scene \in Scenes
              /\ pc \in [Threads -> Locations] /\ loc \in [Threads -> Locals]
<1>1. loc \in [Threads -> Locals] =>
          \A t \in Threads : loc[t].nodes \subseteq Nodes /\ loc[t].list \subseteq PxNodes
  BY DEF Locals
<1> QED
  BY <1>1 DEF Typed, TypeOK, RegistryType, ClusterType

LEMMA ClusterStep ==
    ASSUME Typed, Next
    PROVE  ClusterType'
<1>1. ClusterType /\ scene \in Scenes /\ scene' = scene
  BY TypedParts DEF Next
<1>2. PxIds' = PxIds /\ Threads' = Threads /\ scene.churn \in Nat
  BY <1>1, MaxPxId DEF PxIds, Threads, Refreshers, Waiters, Recyclers
<1>3. ASSUME NEW h \in Names, K8sChurn(h), UNCHANGED halted PROVE ClusterType'
  <2>1. k8sNodes' \subseteq Names
    BY <1>1, <1>3 DEF ClusterType, K8sChurn
  <2>2. churn' \in 0 .. scene.churn
    BY <1>1, <1>2, <1>3 DEF ClusterType, K8sChurn, MayChurn
  <2> QED
    BY <1>1, <1>2, <1>3, <2>1, <2>2 DEF ClusterType, K8sChurn
<1>4. ASSUME NEW h \in Names, PxDown(h), UNCHANGED halted PROVE ClusterType'
  <2>1. churn' \in 0 .. scene.churn
    BY <1>1, <1>2, <1>4 DEF ClusterType, PxDown, MayChurn
  <2> QED
    BY <1>1, <1>2, <1>4, <2>1 DEF ClusterType, PxDown
<1>5. ASSUME NEW h \in Names, PxUp(h), UNCHANGED halted PROVE ClusterType'
  <2>1. CASE UNCHANGED <<px, lastId>>
    BY <1>1, <1>2, <1>5, <2>1 DEF ClusterType, PxUp
  <2>2. CASE lastId # Max(PxIds) /\ px' = [px EXCEPT ![h].id = lastId + 1] /\ lastId' = lastId + 1
    <3>1. lastId + 1 \in PxIds
      <4> DEFINE K == Cardinality(Names) + scene.churn
      <4>1. K \in Nat /\ lastId # K /\ lastId \in 0 .. K
        BY <1>1, <2>2, MaxPxId DEF ClusterType, PxIds
      <4>2. lastId + 1 \in 0 .. K
        <5> HIDE DEF K
        <5> QED
          BY <4>1
      <4> QED
        BY <4>2 DEF PxIds
    <3>2. px' \in [Names -> [id : PxIds, host : Names, pools : BOOLEAN]]
      BY <1>1, <2>2, <3>1 DEF ClusterType
    <3> QED
      BY <1>1, <1>2, <1>5, <2>2, <3>1, <3>2 DEF ClusterType, PxUp
  <2> QED
    BY <1>5, <2>1, <2>2 DEF PxUp
<1>6. ASSUME NEW new \in Names, NEW old \in Names, PickUpNodeId(new, old) PROVE ClusterType'
  <2>1. NoId \in PxIds
    BY <1>1, MaxPxId DEF PxIds, NoId
  <2>2. px' \in [Names -> [id : PxIds, host : Names, pools : BOOLEAN]]
    BY <1>1, <1>6, <2>1 DEF ClusterType, PickUpNodeId
  <2> QED
    BY <1>1, <1>2, <1>6, <2>2 DEF ClusterType, PickUpNodeId
<1>7. CASE MapRace \/ (Assign /\ UNCHANGED halted)
  BY <1>1, <1>2, <1>7 DEF MapRace, Assign, clusterVars, ClusterType
<1>9. ASSUME NEW h \in Names PROVE NewestWithout(h) \subseteq Names
  BY <1>1 DEF NewestWithout, ClusterType
<1>10. ASSUME NEW new \in Names, Provision(new), UNCHANGED halted PROVE ClusterType'
  <2>1. k8sNodes' \subseteq Names /\ newest' \in Names /\ owed' \in Nat
    BY <1>1, <1>10 DEF ClusterType, Provision
  <2> QED
    BY <1>1, <1>2, <1>10, <2>1 DEF ClusterType, Provision
<1>8. ASSUME NEW t \in Threads, Refresh(t) \/ Wait(t) \/ Recycle(t), UNCHANGED halted PROVE ClusterType'
  <2>1. CASE UNCHANGED clusterVars
    <3>1. spurious' \subseteq Threads
      BY <1>1, <1>8 DEF ClusterType, Refresh, RefreshList, RefreshCleanup, RefreshAdd, RefreshInspect,
         RefreshUpdate, RefreshReturn, RefreshAgain, Wait, WaitStart, WaitStatusOk, WaitOffline, WaitPodReady,
         WaitTimeout, Recycle, RecycleStart, RecycleMachine, RecycleDelete, RecycleGivesUp,
         RecycleAdd, RecycleGetNode, RecyclePodsUp, RecycleList, RecycleUpdate
    <3> QED
      BY <1>1, <1>2, <1>8, <2>1, <3>1 DEF ClusterType, clusterVars
  <2>2. CASE RecycleMachine(t)
    <3>1. loc[t].node.name \in Names /\ newest' \in NewestWithout(loc[t].node.name)
      BY <2>2 DEF RecycleMachine, Typed, Locals, Nodes
    <3>2. newest' \in Names /\ owed' \in Nat
      BY <1>1, <1>9, <2>2, <3>1 DEF RecycleMachine, ClusterType
    <3> QED
      BY <1>1, <1>2, <1>8, <2>2, <3>2 DEF RecycleMachine, ClusterType
  <2> QED
    BY <1>8, <2>1, <2>2 DEF Refresh, RefreshList, RefreshCleanup, RefreshAdd, RefreshInspect,
       RefreshUpdate, RefreshReturn, RefreshAgain, Wait, WaitStart, WaitStatusOk, WaitOffline, WaitPodReady,
       WaitTimeout, Recycle, RecycleStart, RecycleDelete, RecycleGivesUp, RecycleAdd, RecycleGetNode,
       RecyclePodsUp, RecycleList, RecycleUpdate
<1> QED
  BY <1>3, <1>4, <1>5, <1>6, <1>7, <1>8, <1>10 DEF Next, Cluster, Go

\* A step is a step of one goroutine, or leaves the variables of all of them alone.
LEMMA LocalSteps ==
    ASSUME Typed, Roles, AllSound, Next
    PROVE  \/ UNCHANGED <<pc, loc>>
           \/ \E t \in Threads : Step(t)
  BY RefreshStep, WaitStep, RecycleStep
     DEF Next, MapRace, Assign, Go, Cluster, K8sChurn, PxDown, PxUp, Provision, PickUpNodeId

LEMMA TypedStep ==
    ASSUME Typed, Roles, AllSound, Next
    PROVE  Typed' /\ Roles' /\ AllSound'
<1>1. scene' = scene /\ scene \in Scenes
  BY TypedParts DEF Next
<1>2. /\ Threads' = Threads /\ Refreshers' = Refreshers /\ Waiters' = Waiters /\ Recyclers' = Recyclers
      /\ Nodes' = Nodes /\ PxNodes' = PxNodes /\ Locals' = Locals
  BY <1>1 DEF Threads, Refreshers, Waiters, Recyclers, Nodes, PxNodes, Locals, PxIds
<1>3. /\ RegistryType'
      /\ \A u \in DOMAIN nodeRegistry' : Sound(nodeRegistry[u])'
      /\ \A w \in writing' : SoundUpdate(w)'
      /\ \A n \in Nodes : Sound(n) => Sound(n)'
  BY <1>1, Effects, RegistryStep
<1>4. \A t \in Threads : \A n \in loc[t].nodes \cup {loc[t].node} : Sound(n)
  BY DEF AllSound, Copies
<1>5. /\ pc' \in [Threads -> Locations] /\ loc' \in [Threads -> Locals]
      /\ \A t \in Threads : \A n \in loc'[t].nodes \cup {loc'[t].node} : Sound(n)
      /\ \A t \in Threads : pc'[t] \in {"wait", "pod"} => loc'[t].node.installed
      /\ Roles'
  <2>1. CASE UNCHANGED <<pc, loc>>
    BY <1>2, <1>4, <2>1 DEF Typed, TypeOK, Roles, AllSound
  <2>2. CASE \E t \in Threads : Step(t)
    <3>1. PICK t \in Threads : Step(t)
      BY <2>2
    <3>2. \A s \in Threads : \A n \in loc'[s].nodes \cup {loc'[s].node} : Sound(n)
      BY <1>4, <3>1 DEF Step
    <3>3. \A s \in Threads : pc'[s] \in {"wait", "pod"} => loc'[s].node.installed
      BY <3>1 DEF Step, AllSound
    <3>4. Roles'
      BY <1>2, <3>1 DEF Step, Roles
    <3> QED
      BY <3>1, <3>2, <3>3, <3>4 DEF Step
  <2> QED
    BY <2>1, <2>2, LocalSteps
<1>6. Typed'
  <2>1. ClusterType' /\ scene' \in Scenes
    BY <1>1, ClusterStep
  <2>2. (pc \in [Threads -> Locations])' /\ (loc \in [Threads -> Locals])'
    BY <1>2, <1>5 DEF Locations
  <2>3. \A t \in Threads' : loc'[t].nodes \subseteq Nodes' /\ loc'[t].list \subseteq PxNodes'
    BY <1>2, <1>5 DEF Locals
  <2> QED
    BY <1>3, <2>1, <2>2, <2>3 DEF Typed, TypeOK, RegistryType, ClusterType
<1>7. \A t \in Threads : \A n \in loc'[t].nodes \cup {loc'[t].node} : n \in Nodes
  BY <1>5 DEF Locals
<1>8. \A t \in Threads : \A n \in loc'[t].nodes \cup {loc'[t].node} : Sound(n)'
  BY <1>3, <1>5, <1>7
<1>9. AllSound'
  BY <1>2, <1>3, <1>5, <1>8 DEF AllSound, Copies
<1> QED
  BY <1>5, <1>6, <1>9

----------------------------------------------------------------------------
\* How far a refresh that is alone has got.

\* The entries it has added stay where no other entry appears.
LEMMA AddedKept ==
    ASSUME scene' = scene, NEW F, NEW machines, Added(F, machines),
           F \subseteq DOMAIN nodeRegistry', Reachable' \subseteq Reachable, \A u \in F : given'[u] = given[u]
    PROVE  Added(F, machines)'
<1>1. Waiters' = Waiters
  BY DEF Waiters
<1>2. {given'[u] : u \in F} = {given[u] : u \in F}
  OBVIOUS
<1> QED
  BY <1>1, <1>2 DEF Added

\* Neither half of an update makes an entry reachable that was not.
LEMMA ReachableStays ==
    ASSUME Typed, AllSound, scene' = scene, Kept \/ (\E t \in Threads : Begun(t)) \/ Assigned
    PROVE  /\ Reachable' = Reachable /\ given' = given
           /\ DOMAIN nodeRegistry \subseteq DOMAIN nodeRegistry'
<1>1. CASE Kept
  BY <1>1 DEF Kept, registryVars, entryVars, Reachable
<1>2. CASE \E t \in Threads : Begun(t)
  <2>1. PICK t \in Threads, n \in Nodes : UpdateNode(t, n)
    BY <1>2 DEF Begun
  <2>2. /\ nodeRegistry' = nodeRegistry /\ given' = given /\ n.uuid \in DOMAIN nodeRegistry
        /\ writing = {} /\ writing' = {[by |-> t, node |-> n]}
    BY <2>1 DEF UpdateNode, Unlocked, entryVars
  <2>3. {w.node.uuid : w \in writing'} = {n.uuid} /\ {w.node.uuid : w \in writing} = {}
    BY <2>2
  <2> QED
    BY <2>2, <2>3 DEF Reachable
<1>3. CASE Assigned
  <2>1. PICK w \in writing : AssignNode(w.node)
    BY <1>3 DEF Assigned
  <2>2. /\ writing = {w} /\ writing' = {} /\ given' = given
        /\ DOMAIN nodeRegistry' = DOMAIN nodeRegistry \cup {w.node.uuid}
    BY <2>1, AssignStep
  <2>3. {v.node.uuid : v \in writing'} = {} /\ {v.node.uuid : v \in writing} = {w.node.uuid}
    BY <2>2
  <2> QED
    BY <2>2, <2>3 DEF Reachable
<1> QED
  BY <1>1, <1>2, <1>3

\* A step that leaves the refresh where it is: it has not lost anything.
LEMMA ProgressStays ==
    ASSUME RegistryInv, scene' = scene, NEW t \in Refreshers, Alone(t), Progress(t),
           pc'[t] = pc[t], loc'[t] = loc[t],
           Kept \/ (\E s \in Threads : s # t /\ Begun(s)) \/ Assigned
    PROVE  Progress(t)'
<1>1. Typed /\ AllSound /\ Disabled' = Disabled /\ Recyclers = {}
  BY DEF RegistryInv, Disabled, Alone
<1>2. /\ Reachable' = Reachable /\ given' = given
      /\ DOMAIN nodeRegistry \subseteq DOMAIN nodeRegistry'
  BY <1>1, ReachableStays
<1>3. ASSUME pc[t] \in {"add", "update", "refreshed"}
      PROVE  \E F \in SUBSET DOMAIN nodeRegistry' : Added(F, loc[t].listed \ loc[t].names)'
  <2>1. PICK F \in SUBSET DOMAIN nodeRegistry : Added(F, loc[t].listed \ loc[t].names)
    BY <1>3 DEF Progress
  <2>2. PICK machines : machines = loc[t].listed \ loc[t].names
    OBVIOUS
  <2>3. Added(F, machines)'
    BY <1>2, <2>1, <2>2, AddedKept
  <2>4. (loc[t].listed \ loc[t].names)' = machines
    BY <2>2
  <2> QED
    BY <1>2, <2>1, <2>3, <2>4 DEF Added
<1>4. ASSUME pc[t] \in {"update", "refreshed"}, NEW u \in DOMAIN nodeRegistry', given[u] \notin Disabled
      PROVE  nodeRegistry'[u].installed \/ ToUpdate(t, u)'
  <2>0. u \in DOMAIN nodeRegistry => nodeRegistry[u].installed \/ ToUpdate(t, u)
    BY <1>4 DEF Progress
  <2>1. CASE Kept
    BY <2>0, <2>1, <1>4 DEF Kept, registryVars, entryVars, ToUpdate
  <2>2. CASE \E s \in Threads : s # t /\ Begun(s)
    <3>1. nodeRegistry' = nodeRegistry /\ writing = {}
      BY <2>2 DEF Begun, UpdateNode, entryVars, Unlocked
    <3> QED
      BY <1>4, <2>0, <3>1 DEF ToUpdate
  <2>3. CASE Assigned
    <3>1. PICK w \in writing : AssignNode(w.node)
      BY <2>3 DEF Assigned
    <3>2. /\ writing = {w}
          /\ DOMAIN nodeRegistry' = DOMAIN nodeRegistry \cup {w.node.uuid}
          /\ nodeRegistry'[w.node.uuid] = w.node
          /\ \A v \in DOMAIN nodeRegistry : v # w.node.uuid => nodeRegistry'[v] = nodeRegistry[v]
      BY <1>1, <3>1, AssignStep
    <3>3. w.node.installed
      BY <1>1, <3>1 DEF AllSound, SoundUpdate
    <3>4. CASE u = w.node.uuid
      BY <3>2, <3>3, <3>4
    <3>5. CASE u # w.node.uuid
      BY <1>4, <2>0, <3>2, <3>5 DEF ToUpdate
    <3> QED
      BY <3>4, <3>5
  <2> QED
    BY <2>1, <2>2, <2>3
<1> QED
  BY <1>1, <1>2, <1>3, <1>4 DEF Progress

\* The registry is finite, and so are the machines of a list.
LEMMA FiniteRegistry ==
    ASSUME Typed
    PROVE  /\ IsFiniteSet(DOMAIN nodeRegistry)
           /\ \A S \in SUBSET Names : IsFiniteSet(S)
<1>1. IsFiniteSet(1 .. lastUuid)
  <2>1. 1 \in Int /\ lastUuid \in Int
    BY SMT DEF Typed, TypeOK
  <2> QED
    BY <2>1, FS_Interval
<1>2. DOMAIN nodeRegistry \subseteq 1 .. lastUuid
  BY DEF Typed, TypeOK
<1> QED
  BY <1>1, <1>2, FS_Subset, NodeRegistryAssumption

LEMMA ProgressOfRefresh ==
    ASSUME RegistryInv, NEW t \in Threads, Go(t), Refresh(t), Alone(t), Progress(t), scene' = scene
    PROVE  Progress(t)'
<1>1. loc \in [Threads -> Locals] /\ loc[t] \in Locals /\ pc \in [Threads -> Locations] /\ Typed /\ AllSound
  BY DEF RegistryInv, Typed, TypeOK
<1>2. Disabled' = Disabled /\ Waiters' = Waiters
  BY DEF Disabled, Waiters
<1>3. CASE RefreshList(t)
  <2>1. pc'[t] = "cleanup" /\ loc'[t].names = k8sNodes /\ loc'[t].listed = k8sNodes
    BY <1>1, <1>3 DEF RefreshList, Goto, Locals
  <2> QED
    BY <2>1 DEF Progress
<1>4. CASE RefreshCleanup(t)
  <2>1. pc'[t] = "add" /\ loc' = loc /\ loc[t].names = loc[t].listed
    BY <1>1, <1>4 DEF RefreshCleanup, Goto, Progress
  <2>2. DOMAIN nodeRegistry' = {} /\ writing' = writing
    BY <1>4 DEF RefreshCleanup, CleanupRegistry, Restrict
  <2>3. Reachable' = {w.node.uuid : w \in writing} /\ \A u, v \in Reachable' : u = v
    BY <1>1, <2>2 DEF Reachable, Typed, TypeOK
  <2>4. Waiters = {} => writing = {}
    <3>1. \A w \in writing : w.by \in Threads /\ w.by # t
      BY <1>1 DEF Typed, TypeOK, Go
    <3> QED
      BY <3>1 DEF Alone, Threads
  <2>5. (loc[t].listed \ loc[t].names)' = {}
    BY <2>1
  <2>6. Added({}, {})'
    BY <1>2, <2>2, <2>3, <2>4 DEF Added
  <2> QED
    BY <2>1, <2>2, <2>5, <2>6 DEF Progress
<1>5. CASE RefreshAdd(t)
  <2>1. CASE pc' = [pc EXCEPT ![t] = "failed"]
    <3>1. pc'[t] = "failed"
      BY <1>1, <2>1
    <3> QED
      BY <3>1 DEF Progress
  <2>2. CASE \E name \in loc[t].names : /\ AddNode(NewNode(name))
                                        /\ loc' = [loc EXCEPT ![t].names = @ \ {name}]
                                        /\ UNCHANGED pc
    <3>1. PICK name \in loc[t].names : /\ AddNode(NewNode(name))
                                       /\ loc' = [loc EXCEPT ![t].names = @ \ {name}]
                                       /\ UNCHANGED pc
      BY <2>2
    <3>2. pc[t] = "add" /\ pc'[t] = "add" /\ name \in Names /\ loc[t].listed \subseteq Names
      BY <1>1, <1>5, <3>1 DEF RefreshAdd, Locals
    <3>3. loc'[t].names = loc[t].names \ {name} /\ loc'[t].listed = loc[t].listed
      BY <1>1, <3>1 DEF Locals
    <3> DEFINE L == loc[t].listed
               M == L \ loc[t].names
    <3>4. PICK F \in SUBSET DOMAIN nodeRegistry : Added(F, M)
      BY <3>2 DEF Progress
    <3>5. PICK N : N = M \cup {name}
      OBVIOUS
    <3>6. (L \ loc[t].names)' = N /\ name \notin M /\ loc'[t].names \subseteq L
      BY <3>1, <3>2, <3>3, <3>5 DEF Progress
    <3>7. /\ DOMAIN nodeRegistry' = DOMAIN nodeRegistry \cup {lastUuid'}
          /\ lastUuid' \notin DOMAIN nodeRegistry /\ given'[lastUuid'] = name
          /\ \A u \in DOMAIN nodeRegistry : given'[u] = given[u]
          /\ writing = {} /\ writing' = {}
      BY <1>1, <3>1, <3>2, AddStep DEF History, Unlocked, Typed, TypeOK
    <3>8. PICK G : G = F \cup {lastUuid'}
      OBVIOUS
    <3>9. {given'[u] : u \in G} = N
      <4>1. {given[u] : u \in F} = M
        BY <3>4 DEF Added
      <4> QED
        BY <3>4, <3>5, <3>7, <3>8, <4>1
    <3>10. Cardinality(G) = Cardinality(N)
      <4>1. IsFiniteSet(F) /\ IsFiniteSet(M)
        BY <1>1, <3>2, <3>4, FiniteRegistry, FS_Subset
      <4>2. Cardinality(G) = Cardinality(F) + 1
        BY <3>4, <3>7, <3>8, <4>1, FS_AddElement
      <4>3. Cardinality(N) = Cardinality(M) + 1
        <5>1. name \notin M
          BY <3>6
        <5> HIDE DEF M
        <5> QED
          BY <3>5, <4>1, <5>1, FS_AddElement
      <4> QED
        BY <3>4, <4>2, <4>3 DEF Added
    <3>11. Reachable' \ G \subseteq Reachable \ F /\ (Reachable \subseteq F => Reachable' \subseteq G)
      BY <3>7, <3>8 DEF Reachable
    <3>12. Added(G, N)'
      BY <1>2, <3>4, <3>7, <3>8, <3>9, <3>10, <3>11 DEF Added
    <3>13. G \in SUBSET DOMAIN nodeRegistry'
      BY <3>12 DEF Added
    <3> QED
      BY <3>2, <3>3, <3>6, <3>12, <3>13 DEF Progress
  <2> QED
    BY <1>5, <2>1, <2>2 DEF RefreshAdd, Goto
<1>6. CASE RefreshInspect(t)
  <2>1. CASE PxList = {}
    <3>1. pc'[t] = "failed"
      BY <1>1, <1>6, <2>1 DEF RefreshInspect, Goto
    <3> QED
      BY <3>1 DEF Progress
  <2>2. CASE PxList # {}
    <3>1. pc'[t] = "update" /\ pc[t] = "add" /\ loc[t].names = {} /\ UNCHANGED <<nodeRegistry, given, writing>>
      BY <1>1, <1>6, <2>2 DEF RefreshInspect, Goto, registryVars, entryVars
    <3>2. loc'[t].names = loc[t].names /\ loc'[t].listed = loc[t].listed /\ loc'[t].nodes = GetNodes
      BY <1>1, <1>6, <2>2 DEF RefreshInspect, Locals
    <3>3. \A u \in DOMAIN nodeRegistry : \E n \in GetNodes : n.uuid = u
      BY <1>1 DEF Typed, TypeOK, GetNodes, Range
    <3>4. PICK F \in SUBSET DOMAIN nodeRegistry : Added(F, loc[t].listed \ loc[t].names)
      BY <3>1 DEF Progress
    <3>5. Added(F, loc[t].listed \ loc[t].names)'
      BY <1>2, <3>1, <3>2, <3>4 DEF Added, Reachable
    <3>6. \A u \in DOMAIN nodeRegistry' : ToUpdate(t, u)'
      BY <3>1, <3>2, <3>3 DEF ToUpdate
    <3>7. loc[t].names \subseteq loc[t].listed
      BY <3>1 DEF Progress
    <3> QED
      BY <1>2, <3>1, <3>2, <3>4, <3>5, <3>6, <3>7 DEF Progress
  <2> QED
    BY <2>1, <2>2
<1>7. CASE RefreshUpdate(t)
  <2>1. CASE pc' = [pc EXCEPT ![t] = "failed"]
    <3>1. pc'[t] = "failed"
      BY <1>1, <2>1
    <3> QED
      BY <3>1 DEF Progress
  <2>2. CASE \E n \in loc[t].nodes : /\ updateNode(t, n, loc[t].list)
                                     /\ loc' = [loc EXCEPT ![t].nodes = @ \ {n}]
                                     /\ UNCHANGED pc
    <3>1. PICK n \in loc[t].nodes : /\ updateNode(t, n, loc[t].list)
                                    /\ loc' = [loc EXCEPT ![t].nodes = @ \ {n}]
                                    /\ UNCHANGED pc
      BY <2>2
    <3>2. pc[t] = "update" /\ pc'[t] = "update"
      BY <1>7, <3>1 DEF RefreshUpdate
    <3>3. loc'[t].names = loc[t].names /\ loc'[t].listed = loc[t].listed /\ loc'[t].nodes = loc[t].nodes \ {n}
      BY <1>1, <3>1 DEF Locals
    <3>4. \A m \in loc[t].nodes : Sound(m)
      BY <1>1 DEF AllSound, Copies
    <3>5. Kept \/ Begun(t)
      BY <1>1, <3>1, CopiesType, UpdateBegun DEF Begun
    <3>6. /\ nodeRegistry' = nodeRegistry /\ given' = given /\ Reachable' = Reachable
      <4>1. nodeRegistry' = nodeRegistry
        BY <3>5 DEF Kept, registryVars, entryVars, Begun, UpdateNode
      <4> QED
        BY <1>1, <3>5, <4>1, ReachableStays
    <3>7. \E F \in SUBSET DOMAIN nodeRegistry' : Added(F, loc[t].listed \ loc[t].names)'
      <4>1. PICK F \in SUBSET DOMAIN nodeRegistry : Added(F, loc[t].listed \ loc[t].names)
        BY <3>2 DEF Progress
      <4> QED
        BY <1>2, <3>3, <3>6, <4>1 DEF Added
    <3>8. ASSUME NEW u \in DOMAIN nodeRegistry, given[u] \notin Disabled, ~nodeRegistry[u].installed
          PROVE  ToUpdate(t, u)'
      <4>1. u # 0 /\ \A w \in writing : w.by # t
        BY <1>1 DEF Typed, TypeOK, Go
      <4>2. PICK m \in loc[t].nodes : m.uuid = u
        BY <3>2, <3>8, <4>1 DEF Progress, ToUpdate
      <4>3. CASE n.name \in Disabled /\ Kept
        <5>1. m # n
          BY <3>4, <3>8, <4>1, <4>2, <4>3 DEF Sound
        <5> QED
          BY <3>2, <3>3, <4>2, <5>1 DEF ToUpdate
      <4>4. CASE \E x \in Nodes : x.uuid = n.uuid /\ UpdateNode(t, x)
        <5>1. PICK x \in Nodes : x.uuid = n.uuid /\ UpdateNode(t, x)
          BY <4>4
        <5>2. writing' = {[by |-> t, node |-> x]}
          BY <5>1 DEF UpdateNode
        <5>3. PICK w \in writing' : w.by = t /\ w.node.uuid = n.uuid
          BY <5>1, <5>2
        <5>4. CASE m = n
          BY <3>2, <4>2, <5>3, <5>4 DEF ToUpdate
        <5>5. CASE m # n
          BY <3>2, <3>3, <4>2, <5>5 DEF ToUpdate
        <5> QED
          BY <5>4, <5>5
      <4> QED
        BY <1>1, <3>1, <4>3, <4>4, CopiesType, UpdateBegun
    <3> QED
      BY <1>2, <3>2, <3>3, <3>6, <3>7, <3>8 DEF Progress
  <2> QED
    BY <1>7, <2>1, <2>2 DEF RefreshUpdate, Goto
<1>8. CASE RefreshReturn(t)
  <2>1. /\ pc[t] = "update" /\ pc'[t] = "refreshed" /\ loc[t].nodes = {} /\ loc' = loc
        /\ nodeRegistry' = nodeRegistry /\ given' = given /\ writing' = writing
    BY <1>1, <1>8 DEF RefreshReturn, Goto, registryVars, entryVars
  <2>2. \A u \in DOMAIN nodeRegistry : ~ToUpdate(t, u)
    BY <2>1 DEF ToUpdate, Go
  <2>3. PICK F \in SUBSET DOMAIN nodeRegistry : Added(F, loc[t].listed \ loc[t].names)
    BY <2>1 DEF Progress
  <2>4. Added(F, loc[t].listed \ loc[t].names)'
    BY <1>2, <2>1, <2>3 DEF Added, Reachable
  <2> QED
    BY <1>2, <2>1, <2>2, <2>3, <2>4 DEF Progress
<1>9. CASE RefreshAgain(t)
  <2>1. pc'[t] = "idle"
    BY <1>1, <1>9 DEF RefreshAgain, Goto
  <2> QED
    BY <2>1 DEF Progress
<1> QED
  BY <1>3, <1>4, <1>5, <1>6, <1>7, <1>8, <1>9 DEF Refresh

LEMMA ProgressStep ==
    ASSUME RegistryInv, Next, NEW t \in Refreshers', Alone(t)'
    PROVE  Progress(t)'
<1>1. scene' = scene /\ Typed /\ AllSound /\ Roles
  BY DEF Next, RegistryInv
<1>2. t \in Refreshers /\ t \in Threads /\ Refreshers = {t} /\ Recyclers = {} /\ Alone(t)
  BY <1>1 DEF Alone, Refreshers, Recyclers, Threads
<1>3. Progress(t)
  BY <1>2 DEF RegistryInv
<1>4. CASE Kept /\ UNCHANGED <<pc, loc>>
  BY <1>1, <1>2, <1>3, <1>4, ProgressStays
<1>5. CASE Assign
  <2>1. Assigned /\ UNCHANGED <<pc, loc>>
    BY <1>5 DEF Assign, Assigned
  <2> QED
    BY <1>1, <1>2, <1>3, <2>1, ProgressStays
<1>6. ASSUME NEW s \in Threads, Go(s), Refresh(s) PROVE Progress(t)'
  <2>1. s \in Refreshers
    BY <1>1, <1>6 DEF Refresh, RefreshList, RefreshCleanup, RefreshAdd, RefreshInspect, RefreshUpdate,
       RefreshReturn, RefreshAgain, Roles, RefreshStates
  <2>2. s = t
    BY <1>2, <2>1
  <2> QED
    BY <1>1, <1>2, <1>3, <1>6, <2>2, ProgressOfRefresh
<1>7. ASSUME NEW s \in Threads, Recycle(s) PROVE FALSE
  BY <1>1, <1>2, <1>7 DEF Recycle, RecycleStart, RecycleMachine, RecycleDelete, RecycleGivesUp,
     RecycleAdd, RecycleGetNode, RecyclePodsUp, RecycleList, RecycleUpdate, Roles, RecycleStates
<1>8. ASSUME NEW s \in Threads, Wait(s) PROVE Progress(t)'
  <2>1. CASE s = t
    <3>1. pc'[t] \in {"wait", "pod", "up", "failed"}
      BY <1>1, <1>8, <2>1 DEF Typed, TypeOK, Wait, WaitStart, WaitStatusOk, WaitOffline, WaitPodReady,
         WaitTimeout, Goto
    <3> QED
      BY <3>1 DEF Progress
  <2>2. CASE s # t
    <3>1. pc'[t] = pc[t] /\ loc'[t] = loc[t]
      BY <1>1, <1>2, <1>8, <2>2, WaitStep DEF Step
    <3>2. Kept \/ Begun(s)
      BY <1>1, <1>8, WaitEffect
    <3> QED
      BY <1>1, <1>2, <1>3, <2>2, <3>1, <3>2, ProgressStays
  <2> QED
    BY <2>1, <2>2
<1>9. CASE Cluster \/ MapRace
  <2>1. Kept /\ UNCHANGED <<pc, loc>>
    BY <1>9 DEF MapRace, Cluster, K8sChurn, PxDown, PxUp, Provision, PickUpNodeId, Kept
  <2> QED
    BY <1>4, <2>1
<1> QED
  BY <1>5, <1>6, <1>7, <1>8, <1>9 DEF Next, Go

----------------------------------------------------------------------------
\* The invariant.

LEMMA RegistryInit == Init => RegistryInv
<1>1. SUFFICES ASSUME Init PROVE RegistryInv
  OBVIOUS
<1>2. scene \in Scenes /\ scene.machines \subseteq Names /\ scene.churn \in Nat /\ MaxUuid \in Nat
      /\ IsFiniteSet(Names) /\ Cardinality(Names) \in Nat
  BY <1>1, NodeRegistryAssumption, MaxPxId DEF Init
<1>3. k8sNodes \subseteq Names /\ up \subseteq Names /\ newest \in Names /\ owed \in Nat
  <2>1. k8sNodes \subseteq Names /\ up \subseteq k8sNodes /\ up # {} /\ owed = 0
    BY <1>1, <1>2 DEF Init, Machines
  <2>2. (CHOOSE h \in k8sNodes : TRUE) \in k8sNodes
    BY <2>1
  <2>3. newest \in k8sNodes
    BY <1>1, <2>2 DEF Init
  <2> QED
    BY <2>1, <2>3
<1>4. IsFiniteSet(up) /\ Cardinality(up) \in Nat /\ Cardinality(up) <= Cardinality(Names)
  BY <1>2, <1>3, FS_Subset, FS_CardinalityType
<1> DEFINE C == Cardinality(up)
           ids == CHOOSE f \in [up -> 1 .. C] : IsInjective(f)
<1>5. ids \in [up -> 1 .. C]
  <2>1. ExistsBijection(up, 1 .. C)
    BY <1>4, FS_CardinalityType, Fun_ExistsBijSymmetric
  <2>2. \E f \in [up -> 1 .. C] : IsInjective(f)
    BY <2>1 DEF ExistsBijection, Bijection, Injection
  <2> QED
    BY <2>2
<1>6. 1 .. C \subseteq PxIds /\ C \in PxIds /\ NoId \in PxIds
  BY <1>2, <1>4 DEF PxIds, NoId
<1>7. ClusterType
  <2>1. PICK less \in up :
          px = [h \in Names |-> [id |-> IF h \in up THEN ids[h] ELSE NoId, host |-> h, pools |-> h \in up \ {less}]]
    BY <1>1 DEF Init
  <2>2. \A h \in Names : (IF h \in up THEN ids[h] ELSE NoId) \in PxIds
    BY <1>5, <1>6
  <2> HIDE DEF ids
  <2>3. px \in [Names -> [id : PxIds, host : Names, pools : BOOLEAN]]
    <3> DEFINE id(h) == IF h \in up THEN ids[h] ELSE NoId
               pools(h) == h \in up \ {less}
    <3>1. px = [h \in Names |-> [id |-> id(h), host |-> h, pools |-> pools(h)]]
      BY <2>1
    <3>2. \A h \in Names : id(h) \in PxIds /\ pools(h) \in BOOLEAN
      BY <2>2
    <3> HIDE DEF id, pools
    <3> QED
      BY <3>1, <3>2
  <2>4. lastId = C /\ churn = 0
    BY <1>1 DEF Init
  <2>5. lastId \in PxIds /\ churn \in 0 .. scene.churn
    BY <1>2, <1>6, <2>4
  <2>6. spurious \subseteq Threads /\ halted \in BOOLEAN
    BY <1>1 DEF Init
  <2> QED
    BY <1>3, <2>3, <2>5, <2>6 DEF ClusterType
<1>8. NoLoc \in Locals /\ NoLoc.nodes = {} /\ NoLoc.node = NoNode /\ NoNode.uuid = 0 /\ ~NoNode.installed
  BY <1>2, NodeValues DEF NoLoc, Locals, NoNode
<1>9. RegistryType /\ DOMAIN nodeRegistry = {} /\ writing = {} /\ lastUuid = 0
  <2>1. DOMAIN nodeRegistry = {} /\ writing = {} /\ lastUuid = 0 /\ given = [u \in 1 .. 0 |-> NoNode.name]
    BY <1>1 DEF Init
  <2>2. 1 .. 0 = {}
    OBVIOUS
  <2>3. given \in [1 .. 0 -> Names]
    BY <2>1, <2>2
  <2> QED
    BY <1>2, <2>1, <2>3 DEF RegistryType
<1>10. /\ pc \in [Threads -> Locations] /\ loc \in [Threads -> Locals]
       /\ \A t \in Threads : pc[t] = "idle" /\ loc[t] = NoLoc
  BY <1>1, <1>8 DEF Init, Locations
<1>11. Typed
  BY <1>2, <1>7, <1>9, <1>10, TypedParts
<1>12. Roles
  BY <1>10 DEF Roles, RefreshStates, WaitStates, RecycleStates
<1>13. Sound(NoNode)
  BY <1>8, <1>9 DEF Sound
<1>14. AllSound
  BY <1>8, <1>9, <1>10, <1>13 DEF AllSound, Copies
<1>15. \A t \in Refreshers : Progress(t)
  BY <1>10 DEF Progress, Threads
<1> QED
  BY <1>11, <1>12, <1>14, <1>15 DEF RegistryInv

LEMMA RegistryStutter ==
    ASSUME RegistryInv, UNCHANGED vars
    PROVE  RegistryInv'
<1> USE DEF vars, registryVars, entryVars, clusterVars
<1>1. /\ Refreshers' = Refreshers /\ Waiters' = Waiters /\ Recyclers' = Recyclers /\ Threads' = Threads
      /\ Disabled' = Disabled /\ PxIds' = PxIds
  BY DEF Refreshers, Waiters, Recyclers, Threads, Disabled, PxIds
<1>2. Nodes' = Nodes /\ PxNodes' = PxNodes /\ Locals' = Locals
  BY <1>1 DEF Nodes, PxNodes, Locals
<1>3. Typed'
  BY <1>1, <1>2 DEF RegistryInv, Typed, TypeOK, Locations
<1>4. Roles'
  BY <1>1 DEF RegistryInv, Roles
<1>5. AllSound'
  BY <1>1 DEF RegistryInv, AllSound, Copies, Sound, SoundUpdate
<1>6. ASSUME NEW t \in Refreshers, Alone(t)' PROVE Progress(t)'
  <2>1. Alone(t) /\ Progress(t) /\ Kept /\ UNCHANGED <<pc, loc>>
    BY <1>1, <1>6 DEF RegistryInv, Alone, Kept
  <2> QED
    BY <2>1, ProgressStays
<1> QED
  BY <1>1, <1>3, <1>4, <1>5, <1>6 DEF RegistryInv

LEMMA RegistryInvStep ==
    ASSUME RegistryInv, Next
    PROVE  RegistryInv'
<1>1. Typed' /\ Roles' /\ AllSound'
  BY TypedStep DEF RegistryInv
<1>2. \A t \in Refreshers' : Alone(t)' => Progress(t)'
  BY ProgressStep
<1> QED
  BY <1>1, <1>2 DEF RegistryInv

\* The invariant of the registry and of the copies its users hold: every Node
\* value that AddNode, updateNode, IsPXReadyOnNode or DeleteNode can write back, or
\* that an UpdateNode between its look-up and its assignment holds, belongs to an
\* identity that was handed out and to the machine it was handed out for, and a refresh
\* that is alone has done what its place says, although its map may be given back one
\* older entry.
THEOREM RegistryInvariant == Spec => []RegistryInv
<1>1. RegistryInv /\ [Next]_vars => RegistryInv'
  BY RegistryInvStep, RegistryStutter
<1> QED
  BY RegistryInit, <1>1, PTL DEF Spec

\* Type correctness of the registry, of what the cluster answers and of the goroutines.
THEOREM RegistryTypes == Spec => []TypeOK
<1>1. RegistryInv => TypeOK
  BY DEF RegistryInv, Typed
<1> QED
  BY <1>1, RegistryInvariant, PTL

\* GetStorageNodes and GetStorageLessNodes never follow a nil StorageNode, for
\* any number of concurrent refreshes, waits and recyclings.
THEOREM StorageNodeKnown == Spec => []InstalledHasStorageNode
<1>1. RegistryInv => InstalledHasStorageNode
  BY DEF RegistryInv, AllSound, Sound, InstalledHasStorageNode
<1> QED
  BY <1>1, RegistryInvariant, PTL

\* After RefreshNodeRegistry the registry holds every listed machine exactly once, for any
\* number of goroutines that wait for drivers and write old copies back, and at most one
\* older entry: the one an UpdateNode had found before CleanupRegistry replaced the map.
THEOREM EveryNodeKept == Spec => []RefreshKeepsEveryNode
<1>1. RegistryInv => RefreshKeepsEveryNode
  <2>1. SUFFICES ASSUME RegistryInv, NEW t \in Refreshers, Alone(t), pc[t] \in {"update", "refreshed"}
                 PROVE  \E late \in SUBSET DOMAIN nodeRegistry :
                          /\ Cardinality(late) <= 1 /\ (Waiters = {} => late = {})
                          /\ {nodeRegistry[u].name : u \in DOMAIN nodeRegistry \ late} = loc[t].listed
                          /\ Cardinality(DOMAIN nodeRegistry \ late) = Cardinality(loc[t].listed)
    BY DEF RefreshKeepsEveryNode
  <2>2. Progress(t)
    BY <2>1 DEF RegistryInv
  <2>3. PICK F \in SUBSET DOMAIN nodeRegistry : Added(F, loc[t].listed)
    <3>1. loc[t].listed \ loc[t].names = loc[t].listed
      BY <2>1, <2>2 DEF Progress
    <3> QED
      BY <2>1, <2>2, <3>1 DEF Progress
  <2> DEFINE late == DOMAIN nodeRegistry \ F
  <2>4. DOMAIN nodeRegistry \ late = F
    BY <2>3
  <2>5. Cardinality(late) <= 1
    <3>1. late = {} \/ \E u : late = {u}
      BY <2>3 DEF Added, Reachable
    <3> QED
      BY <3>1, FS_EmptySet, FS_Singleton
  <2>6. Waiters = {} => late = {}
    BY <2>3 DEF Added, Reachable
  <2>7. \A u \in F : nodeRegistry[u].name = given[u]
    BY <2>1, <2>3 DEF RegistryInv, AllSound, Sound, Typed, TypeOK
  <2>8. {nodeRegistry[u].name : u \in F} = loc[t].listed
    BY <2>3, <2>7 DEF Added
  <2> HIDE DEF late
  <2>9. late \in SUBSET DOMAIN nodeRegistry
    BY DEF late
  <2> QED
    BY <2>3, <2>4, <2>5, <2>6, <2>8, <2>9 DEF Added
<1> QED
  BY <1>1, RegistryInvariant, PTL

\* After RefreshDriverEndpoints exactly the nodes with the driver enabled are
\* marked, whatever the waiting goroutines write back meanwhile.
THEOREM EveryDriverFound == Spec => []RefreshFindsEveryDriver
<1>1. RegistryInv => RefreshFindsEveryDriver
  <2>1. SUFFICES ASSUME RegistryInv, NEW t \in Refreshers, Alone(t), pc[t] = "refreshed",
                        NEW u \in DOMAIN nodeRegistry
                 PROVE  nodeRegistry[u].installed <=> nodeRegistry[u].name \notin Disabled
    BY DEF RefreshFindsEveryDriver, GetNodes, Range
  <2>2. Progress(t) /\ Sound(nodeRegistry[u]) /\ nodeRegistry[u] \in Nodes
    BY <2>1 DEF RegistryInv, AllSound, Typed, TypeOK
  <2>3. nodeRegistry[u].installed => nodeRegistry[u].name \notin Disabled
    BY <2>2 DEF Sound
  <2>4. nodeRegistry[u].name \notin Disabled => nodeRegistry[u].installed
    <3>1. nodeRegistry[u].name = given[u] /\ ~ToUpdate(t, u)
      BY <2>1, <2>2 DEF Sound, RegistryInv, Typed, TypeOK, ToUpdate
    <3> QED
      BY <2>1, <2>2, <3>1 DEF Progress
  <2> QED
    BY <2>2, <2>3, <2>4 DEF Nodes
<1> QED
  BY <1>1, RegistryInvariant, PTL

----------------------------------------------------------------------------
\* The refinement.

\* What the directory's variables stand for.
MachineOf == [u \in 1 .. lastUuid |-> IF u \in DOMAIN nodeRegistry THEN nodeRegistry[u].name ELSE given[u]]
Updating == {w.node.uuid : w \in writing}

\* An entry names the machine that its identity was handed out for.
LEMMA MachineGiven ==
    ASSUME RegistryInv
    PROVE  MachineOf = given
<1>1. given \in [1 .. lastUuid -> Names]
  BY DEF RegistryInv, Typed, TypeOK
<1>2. \A u \in DOMAIN nodeRegistry : nodeRegistry[u].name = given[u]
  BY DEF RegistryInv, AllSound, Sound, Typed, TypeOK
<1>3. \A u \in 1 .. lastUuid :
        (IF u \in DOMAIN nodeRegistry THEN nodeRegistry[u].name ELSE given[u]) = given[u]
  BY <1>2
<1>4. MachineOf = [u \in 1 .. lastUuid |-> given[u]]
  BY <1>3 DEF MachineOf
<1> QED
  BY <1>1, <1>4

LEMMA DirectoryStep ==
    ASSUME RegistryInv, Next
    PROVE  [Directory!DirectoryNext]_<<MachineOf, DOMAIN nodeRegistry, Updating>>
<1> DEFINE D == DOMAIN nodeRegistry
<1>1. Typed /\ AllSound /\ Roles /\ scene' = scene
  BY DEF RegistryInv, Next
<1>2. MachineOf = given /\ MachineOf' = given'
  <2>1. RegistryInv'
    BY RegistryInvStep
  <2>2. (MachineOf = given)'
    BY <2>1, MachineGiven, PTL
  <2> QED
    BY <2>2, MachineGiven
<1>3. CASE Kept
  BY <1>2, <1>3 DEF Kept, registryVars, entryVars, Updating
<1>4. CASE NodeAdded
  <2>1. PICK name \in Names : AddNode(NewNode(name))
    BY <1>4 DEF NodeAdded
  <2>2. /\ RegistryType' /\ History /\ writing = {} /\ writing' = {}
        /\ D' = D \cup {lastUuid'}
        /\ lastUuid' \notin 1 .. lastUuid /\ 1 .. lastUuid' = (1 .. lastUuid) \cup {lastUuid'}
        /\ lastUuid' \in Uuids /\ given'[lastUuid'] = name
    BY <1>1, <2>1, AddStep DEF Unlocked
  <2>3. given \in [1 .. lastUuid -> Names] /\ given' \in [1 .. lastUuid' -> Names]
    BY <1>1, <2>2 DEF Typed, TypeOK, RegistryType
  <2>4. given' = [v \in (DOMAIN given) \cup {lastUuid'} |-> IF v = lastUuid' THEN name ELSE given[v]]
    BY <2>2, <2>3 DEF History
  <2>5. Updating = {} /\ Updating' = {}
    BY <2>2 DEF Updating
  <2>6. Directory!Register(lastUuid', name)
    BY <1>2, <2>2, <2>3, <2>4, <2>5 DEF Directory!Register, MachineOf, Updating
  <2> QED
    BY <2>2, <2>6 DEF Directory!DirectoryNext
<1>5. CASE \E t \in Threads : Begun(t)
  <2>1. PICK t \in Threads, n \in Nodes : UpdateNode(t, n)
    BY <1>5 DEF Begun
  <2>2. /\ nodeRegistry' = nodeRegistry /\ given' = given /\ n.uuid \in D
        /\ writing = {} /\ writing' = {[by |-> t, node |-> n]}
    BY <2>1 DEF UpdateNode, Unlocked, entryVars
  <2>3. Updating = {} /\ Updating' = {n.uuid}
    BY <2>2 DEF Updating
  <2>4. Directory!UpdateBegins(n.uuid)
    BY <1>2, <2>2, <2>3 DEF Directory!UpdateBegins, MachineOf, Updating
  <2> QED
    BY <2>2, <2>4 DEF Directory!DirectoryNext
<1>6. CASE Assigned
  <2>1. PICK w \in writing : AssignNode(w.node)
    BY <1>6 DEF Assigned
  <2>2. /\ writing = {w} /\ writing' = {} /\ given' = given
        /\ D' = D \cup {w.node.uuid}
    BY <1>1, <2>1, AssignStep
  <2>3. Updating = {w.node.uuid} /\ Updating' = {}
    BY <2>2 DEF Updating
  <2>4. Directory!UpdateEnds
    BY <1>2, <2>2, <2>3 DEF Directory!UpdateEnds, MachineOf, Updating
  <2> QED
    BY <2>4 DEF Directory!DirectoryNext
<1>7. CASE Removed \/ CleanupRegistry
  <2>1. given' = given /\ D' \subseteq D /\ Updating' = Updating
    BY <1>7, ShrinkSteps DEF Shrinks, Removed, DeleteNode, CleanupRegistry, Updating
  <2>2. D' = D \ (D \ D') /\ (D \ D') \in SUBSET D
    BY <2>1
  <2>3. Directory!Forget(D \ D')
    BY <1>2, <2>1, <2>2 DEF Directory!Forget, MachineOf, Updating
  <2> QED
    BY <2>2, <2>3 DEF Directory!DirectoryNext
<1> QED
  BY <1>1, <1>3, <1>4, <1>5, <1>6, <1>7, Effects

\* The registry implements the directory: no interleaving of refreshes, waits and
\* recyclings reuses an identity or turns one machine into another, and an entry that is
\* gone comes back only with the one UpdateNode that had found it before.
THEOREM RegistryIsDirectory == Spec => ImplementsDirectory
<1>1. Init => Directory!DirectoryInit
  <2>1. SUFFICES ASSUME Init PROVE Directory!DirectoryInit
    OBVIOUS
  <2>2. DOMAIN nodeRegistry = {} /\ lastUuid = 0 /\ writing = {}
    BY <2>1 DEF Init
  <2>3. 1 .. lastUuid = {} /\ Updating = {}
    BY <2>2 DEF Updating
  <2>4. MachineOf = [u \in {} |-> CHOOSE n \in Names : TRUE]
    BY <2>3 DEF MachineOf
  <2> QED
    BY <2>2, <2>3, <2>4 DEF Directory!DirectoryInit, MachineOf, Updating
<1>2. RegistryInv /\ [Next]_vars =>
        [Directory!DirectoryNext]_<<MachineOf, DOMAIN nodeRegistry, Updating>>
  <2>1. ASSUME UNCHANGED vars
        PROVE  UNCHANGED <<MachineOf, DOMAIN nodeRegistry, Updating>>
    BY <2>1 DEF vars, registryVars, entryVars, MachineOf, Updating
  <2> QED
    BY <2>1, DirectoryStep
<1> QED
  BY <1>1, <1>2, RegistryInvariant, PTL
     DEF Spec, ImplementsDirectory, Directory!DirectorySpec, Directory!directoryVars, MachineOf, Updating
=============================================================================
