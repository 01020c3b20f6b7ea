----------------------------- MODULE PxVolumes ------------------------------
(***************************************************************************)
(* The storage cluster as the Portworx volume driver sees it, and the       *)
(* connection of the driver to it, drivers/volume/portworx/portworx.go.  A  *)
(* request of the SDK goes to the endpoint the driver is connected to; a    *)
(* command goes to its node.  Either can fail, and either can be carried out *)
(* without its answer arriving.  Nodes take their time: a command sets what *)
(* a node is to become, and the node gets there by itself.  Then the calls  *)
(* of the driver about volumes: creation, resizing, replication, attachment, *)
(* cleanup, and the validations that poll a volume.                         *)
(***************************************************************************)
EXTENDS Calls, TLC

CONSTANT Workers    \* the worker nodes in the order of the registry

VARIABLES
    px,         \* the nodes of the cluster
    vols,       \* the volumes
    lastId,     \* the last identifier the cluster gave out
    drv,        \* the driver: its endpoint, whether to look for a new one, and what the registry of
                \* nodes holds for it: the nodes it runs on, their identifiers and their pools
    k8s         \* what Kubernetes holds for the cluster

pxVars == <<px, vols, lastId, drv, k8s>>
Nodes == ToSet(Workers)
Service == "svc"

\* A node that runs the driver: its status, its identifier and the ones it had before, whether
\* it is to run, to be in maintenance, to have its pools in maintenance; whether the cluster
\* still knows it; its pool and the size the pool is to grow to; how often it got into
\* maintenance (history).
FreshNode ==
    [st |-> "OK", id |-> 1, old |-> {}, run |-> TRUE, maint |-> FALSE, poolMaint |-> FALSE, member |-> TRUE,
     leaving |-> FALSE, label |-> "none", cordoned |-> FALSE, version |-> 1, context |-> FALSE,
     pool |-> 10, grow |-> 0, drives |-> 0, diags |-> "none", storageless |-> FALSE, wiped |-> FALSE,
     entered |-> 0]
MaxNodeId == 2      \* how often a node without pools comes back as another one
Journal == 3        \* what the journal takes of a pool
FreshK8s ==
    [operator |-> TRUE, configmap |-> FALSE, registry |-> FALSE, opVersion |-> 1, image |-> 1,
     stork |-> 1, talisman |-> {}, defrag |-> {}, pods |-> {}]

Up(n) == px[n].member /\ px[n].st # "OFFLINE"
Target(n) ==
    CASE ~px[n].run -> "OFFLINE" [] px[n].run /\ px[n].maint -> "MAINT"
      [] px[n].run /\ ~px[n].maint /\ px[n].poolMaint -> "POOLMAINT" [] OTHER -> "OK"

----------------------------------------------------------------------------
\* The endpoint

Answers(ep) == IF ep = Service THEN \E n \in Nodes : Up(n) ELSE Up(ep)

\* The cluster client is replaced before the new endpoint is tried, the others after, and an
\* error of the legacy client comes last: "port" fails at once, "legacy" at the end.
testAndSetEndpoint(d, ep, how) ==
    CASE how = "port" -> d
      [] how # "port" /\ ~Answers(ep) -> [d EXCEPT !.cluster = ep]
      [] OTHER -> [d EXCEPT !.cluster = ep, !.ep = ep]

\* The service first; without it any worker that answers (the registry is a map).  "at" is an
\* endpoint where a request on the way fails.  The drivers that can come out of it.
NoFault == [at |-> "nowhere", how |-> "none"]
EndpointFaults ==
    [at : Nodes \cup (IF Scene.skipService THEN {} ELSE {Service}), how : {"port", "legacy"}]
Works(ep, f) == Answers(ep) /\ ep # f.at
setDriver(d, f) ==
    LET started == IF f.at \in {n \in Nodes \cup {Service} : Answers(n)} THEN testAndSetEndpoint(d, f.at, f.how) ELSE d
        good == {n \in Nodes : Works(n, f)}
        last == {n \in Nodes : n = f.at => f.how # "port"}
    IN IF ~Scene.skipService /\ Works(Service, f)
       THEN {[testAndSetEndpoint(d, Service, "none") EXCEPT !.refresh = FALSE]}
       ELSE IF good # {} THEN {[testAndSetEndpoint(d, n, "none") EXCEPT !.refresh = TRUE] : n \in good}
            ELSE {[started EXCEPT !.cluster = n, !.refresh = TRUE] : n \in last}

\* getVolDriver, getNodeManager and the like look for an endpoint when they are told to, and
\* take the client they have if there is none.
getManager(d, f) == IF d.refresh THEN setDriver(d, f) ELSE {d}

\* How a request gets its client: "get" by the getter, "cluster" the same, "raw" from the
\* field, "client" from an earlier request, "fresh" after asking for a new endpoint
\* (GetDriverNode), "once" the same and back (getPxNodes).
Looks(via) == via \in {"fresh", "once"} \/ (via \in {"get", "cluster"} /\ drv.refresh)
Using(via, f) ==
    CASE via \in {"raw", "client"} -> {drv}
      [] via \in {"get", "cluster"} -> getManager(drv, f)
      [] via = "fresh" -> getManager([drv EXCEPT !.refresh = TRUE], f)
      [] via = "once" -> {[d EXCEPT !.refresh = FALSE] : d \in getManager([drv EXCEPT !.refresh = TRUE], f)}
Endpoint(c, via) ==
    CASE via = "client" -> Local(c, "client") [] via = "cluster" -> drv'.cluster [] OTHER -> drv'.ep

----------------------------------------------------------------------------
\* Requests.  "effect" is the state the request leads to, "refused" that the cluster
\* says no; a step that is "final" is not tried again, one that is "panic" crashes.

Failed(c) ==
    CASE "final" \in DOMAIN Step(c) -> Error(c)
      [] "panic" \in DOMAIN Step(c) -> Return(c, "panic")
      [] OTHER -> Retry(c)

\* The search for a client ends somewhere, and a request through it arrives or is lost.
Settles(via) ==
    \/ drv' \in Using(via, NoFault) /\ UNCHANGED faults
    \/ Looks(via) /\ Fault /\ \E f \in EndpointFaults : drv' \in Using(via, f)
Through(c, via, reached, lost) ==
    \/ Settles(via) /\ IF Answers(Endpoint(c, via)) THEN reached ELSE lost
    \/ drv' \in Using(via, NoFault) /\ Fault /\ lost

SdkRequest(c, refused, effect) ==
    LET failed == Failed(c) /\ UNCHANGED <<px, vols, lastId, k8s>>
    IN \/ Through(c, Step(c).via, IF refused THEN failed ELSE effect /\ Proceed(c), failed)
       \/ /\ drv' \in Using(Step(c).via, NoFault) /\ Answers(Endpoint(c, Step(c).via)) /\ ~refused
          /\ effect /\ Fault /\ Failed(c)

\* A question: the closure makes a verdict of the answer, and an error of no answer.
SdkQuestion(c, verdict) ==
    Through(c, Step(c).via, Outcome(c, verdict), Failed(c)) /\ UNCHANGED <<px, vols, lastId, k8s>>

\* A command on a node, or a request to Kubernetes.
Command(c, refused, effect) ==
    \/ ~refused /\ effect /\ Proceed(c) /\ UNCHANGED faults
    \/ ~refused /\ effect /\ Fault /\ Failed(c)
    \/ Fault /\ Failed(c) /\ UNCHANGED pxVars
    \/ refused /\ Failed(c) /\ UNCHANGED <<pxVars, faults>>
Question(c, verdict) ==
    /\ \/ Outcome(c, verdict) /\ UNCHANGED faults
       \/ Fault /\ Failed(c)
    /\ UNCHANGED pxVars

----------------------------------------------------------------------------
\* The cluster by itself

OnNode(n, r) == px' = [px EXCEPT ![n] = r] /\ UNCHANGED <<vols, lastId, drv, k8s>>
\* A node without pools may come back under another identifier; the old one stays listed.
NodeSettles(n) ==
    /\ px[n].member /\ px[n].st # Target(n)
    /\ \E id \in {i \in {px[n].id, px[n].id + 1} :
                  i # px[n].id => px[n].storageless /\ px[n].st = "OFFLINE" /\ i <= MaxNodeId} :
          OnNode(n, [px[n] EXCEPT !.st = Target(n), !.entered = IF Target(n) = "MAINT" THEN @ + 1 ELSE @,
                                  !.id = id, !.old = @ \cup ({px[n].id} \ {id})])
NodeLeaves(n) ==
    px[n].leaving /\ OnNode(n, [px[n] EXCEPT !.leaving = FALSE, !.member = FALSE, !.old = {}])
NodeJoins(n) ==
    /\ ~px[n].member /\ px[n].wiped /\ px[n].run /\ px[n].label = "none"
    /\ OnNode(n, [px[n] EXCEPT !.member = TRUE, !.wiped = FALSE, !.id = @ + 1])
\* A pool grows in its own time, to what was asked for or less the journal.
PoolGrows(n) ==
    /\ px[n].grow # 0
    /\ \E size \in {px[n].grow - Journal, px[n].grow} : OnNode(n, [px[n] EXCEPT !.pool = size, !.grow = 0])
NodeUpgrades(n) == px[n].version # k8s.image /\ OnNode(n, [px[n] EXCEPT !.version = k8s.image])
DiagsEnd(n) ==
    /\ px[n].diags = "running"
    /\ \E end \in {"done", "failed"} : OnNode(n, [px[n] EXCEPT !.diags = end])
NodeCrashes(n) == px[n].st = "OK" /\ OnNode(n, [px[n] EXCEPT !.st = "OFFLINE"])

Changed(v, w) == vols' = (vols \ {v}) \cup {w} /\ UNCHANGED <<px, lastId, drv, k8s>>
ReplicasFollow(v) == v.reps # v.ha /\ Changed(v, [v EXCEPT !.reps = IF v.reps < v.ha THEN @ + 1 ELSE @ - 1])
VolumeComesUp(v) == ~v.up /\ Changed(v, [v EXCEPT !.up = TRUE])
\* The device of a FlashArray volume follows its attachment and its size; it is found first
\* under the name of a disk, then under that of the device mapper.
DeviceFollows(v) ==
    /\ v.kind = "pureblock"
    /\ \/ /\ <<v.devNode, v.devSize>> # <<v.node, v.size>>
          /\ Changed(v, [v EXCEPT !.devNode = v.node, !.devSize = v.size, !.mapper = FALSE])
       \/ v.devNode # "none" /\ ~v.mapper /\ Changed(v, [v EXCEPT !.mapper = TRUE])

ClusterProceeds ==
    /\ \/ \E n \in Nodes : NodeSettles(n) \/ NodeLeaves(n) \/ NodeJoins(n) \/ NodeUpgrades(n) \/ DiagsEnd(n) \/ PoolGrows(n)
       \/ \E v \in vols : ReplicasFollow(v) \/ VolumeComesUp(v) \/ DeviceFollows(v)
    /\ UNCHANGED <<scene, th, faults>>
Crash ==
    /\ Scene.crashes /\ Fault /\ \E n \in Nodes : NodeCrashes(n)
    /\ UNCHANGED <<scene, th>>

----------------------------------------------------------------------------

FreshVolume ==
    [id |-> 0, name |-> "", size |-> 1, ha |-> 1, reps |-> 1, node |-> "none", mounted |-> FALSE,
     up |-> TRUE, parent |-> 0, kind |-> "px", devNode |-> "none", devSize |-> 0, mapper |-> FALSE]

\* A request names its volume, or carries the identifier an earlier lookup found.
Sdk(verb, via) == [do |-> "sdk", verb |-> verb, by |-> "name", via |-> via]
SdkId(verb, via) == [do |-> "sdk", verb |-> verb, by |-> "id", via |-> via]
Cmd(verb, n) == [do |-> "cmd", verb |-> verb, by |-> "name", n |-> n]
Ask(q, via) == [do |-> "ask", q |-> q, via |-> via]
AskOnce(q, via) == [do |-> "ask", q |-> q, via |-> via, final |-> TRUE]
Find(via) == [do |-> "find", via |-> via, up |-> FALSE]
FindUp(via) == [do |-> "find", via |-> via, up |-> TRUE]
GetVolDriver == [do |-> "getter"]
Refresh(value) == [do |-> "refresh", value |-> value]
List(then) == [do |-> "list", via |-> "get", then |-> then]

----------------------------------------------------------------------------
\* The calls as sequences of requests

ListAllVolumes == <<List("ids")>>
CreateVolume == <<Sdk("create", "get")>>
CreateVolumeUsingRequest == <<Sdk("create", "get")>>
CreateVolumeUsingPxctlCmd(k) == <<Cmd("create", k.n)>>
ResizeVolume == <<Find("get"), SdkId("resize", "raw")>>
CloneVolume == <<Find("get"), SdkId("clone", "raw")>>
AttachVolume == <<Sdk("attach", "get")>>
DetachVolume == <<Sdk("detach", "get")>>
DeleteVolume == <<Find("get"), SdkId("delete", "raw")>>
CreateSnapshot == <<Sdk("snap", "get")>>
InspectVolume == <<Find("get")>>
ValidateCreateSnapshot == <<Sdk("snap", "get")>>
ValidateCreateSnapshotUsingPxctl(k) == <<Cmd("snap", k.n)>>
UpdateIOPriority(k) == <<Cmd("spec", k.n)>>
UpdateStickyFlag(k) == <<Cmd("spec", k.n)>>
UpdateSharedv4FailoverStrategyUsingPxctl(k) == <<Cmd("spec", k.n)>>
ValidateCreateCloudsnap == <<Sdk("cloudsnap", "raw")>>
ValidateCreateCloudsnapUsingPxctl(k) == <<Cmd("cloudsnap", k.n)>>
SetIoBandwidth == <<Find("get")>> \o Try(<<Sdk("spec", "raw")>>)
UpdateVolumeSpec == <<Find("get")>> \o Try(<<Sdk("spec", "raw")>>)

\* The volumes are enumerated, and inspected one by one until one has the name.
CleanupVolume == <<List("next")>>

ValidateUpdateVolume == Try(<<Ask("updated", "get")>>)
ValidateDeleteVolume == Try(<<Ask("deleted", "get")>>)
GetReplicationFactor == Try(<<Ask("factor", "get")>>)
GetAggregationLevel == Try(<<Ask("factor", "get")>>)
GetProxySpecForAVolume == Try(<<Ask("factor", "get")>>)
GetReplicaSets == <<Find("get")>>
\* The loop that polls until its own deadline is one question, the last of its kind.
WaitForReplicationToComplete == <<Ask("replicated", "get")>>

\* The closure looks the volume up, asks for the factor and waits; when the wait gives
\* up all three are done again, but a refused update is final.
SetReplicationFactor(k) ==
    Try(<<Find("get"), [final |-> TRUE] @@ SdkId("ha", "raw")>>
        \o (IF k.wait THEN WaitForReplicationToComplete ELSE <<>>))

\* A new endpoint is looked for as long as the call goes on.
GetNodeForVolume ==
    <<Refresh(TRUE)>> \o Guard(Try(<<AskOnce("attached", "get")>>), <<Refresh(FALSE), Fail>>)
        \o <<Refresh(FALSE)>>

\* A parameter says whether to look for an endpoint.  Inspections until the volume is up, its
\* parent if it is a copy, the device of an attached FlashArray volume, its zone, the nodes of
\* its replicas, its parameters.
ValidateCreateVolume(k) ==
    [i \in DOMAIN k.refresh |-> Refresh(k.refresh[i])]
        \o <<GetVolDriver>> \o Try(<<FindUp("raw")>>) \o <<Ask("parent", "raw")>> \o Try(<<Ask("device", "raw")>>)
        \o <<Ask("topology", "raw"), Ask("replicaNodes", "get"), Ask("spec", "raw")>>

\* The devices of every node, then the volumes, in a closure that is tried again.
ValidatePureLocalVolumePaths == Try(<<[do |-> "devices"], List("pure")>>)

VolumeProgram(k) ==
    CASE k.op = "ListAllVolumes" -> ListAllVolumes
      [] k.op = "CreateVolume" -> CreateVolume
      [] k.op = "CreateVolumeUsingRequest" -> CreateVolumeUsingRequest
      [] k.op = "CreateVolumeUsingPxctlCmd" -> CreateVolumeUsingPxctlCmd(k)
      [] k.op = "ResizeVolume" -> ResizeVolume
      [] k.op = "CloneVolume" -> CloneVolume
      [] k.op = "AttachVolume" -> AttachVolume
      [] k.op = "DetachVolume" -> DetachVolume
      [] k.op = "DeleteVolume" -> DeleteVolume
      [] k.op = "CreateSnapshot" -> CreateSnapshot
      [] k.op = "InspectVolume" -> InspectVolume
      [] k.op = "ValidateCreateSnapshot" -> ValidateCreateSnapshot
      [] k.op = "ValidateCreateSnapshotUsingPxctl" -> ValidateCreateSnapshotUsingPxctl(k)
      [] k.op = "UpdateIOPriority" -> UpdateIOPriority(k)
      [] k.op = "UpdateStickyFlag" -> UpdateStickyFlag(k)
      [] k.op = "UpdateSharedv4FailoverStrategyUsingPxctl" -> UpdateSharedv4FailoverStrategyUsingPxctl(k)
      [] k.op = "ValidateCreateCloudsnap" -> ValidateCreateCloudsnap
      [] k.op = "ValidateCreateCloudsnapUsingPxctl" -> ValidateCreateCloudsnapUsingPxctl(k)
      [] k.op = "SetIoBandwidth" -> SetIoBandwidth
      [] k.op = "UpdateVolumeSpec" -> UpdateVolumeSpec
      [] k.op = "CleanupVolume" -> CleanupVolume
      [] k.op = "ValidateUpdateVolume" -> ValidateUpdateVolume
      [] k.op = "ValidateDeleteVolume" -> ValidateDeleteVolume
      [] k.op = "GetReplicationFactor" -> GetReplicationFactor
      [] k.op = "GetAggregationLevel" -> GetAggregationLevel
      [] k.op = "GetProxySpecForAVolume" -> GetProxySpecForAVolume
      [] k.op = "GetReplicaSets" -> GetReplicaSets
      [] k.op = "SetReplicationFactor" -> SetReplicationFactor(k)
      [] k.op = "GetNodeForVolume" -> GetNodeForVolume
      [] k.op = "ValidateCreateVolume" -> ValidateCreateVolume(k)
      [] k.op = "ValidatePureLocalVolumePaths" -> ValidatePureLocalVolumePaths

----------------------------------------------------------------------------
\* What the cluster does with a request about a volume

Named(name) == {v \in vols : v.name = name}
WithId(id) == {v \in vols : v.id = id}

Subject(c) == IF Step(c).by = "id" THEN WithId(Local(c, "id")) ELSE Named(Call(c).name)
CopyName(c) == Call(c).name \o (IF Step(c).verb = "clone" THEN "_clone" ELSE "_snapshot")

VolumeVerbs == {"create", "clone", "snap", "resize", "ha", "spec", "cloudsnap",
                "attach", "detach", "unmount", "delete"}
VolumeRefused(c) ==
    CASE Step(c).verb = "create" -> Named(Call(c).name) # {}
      [] Step(c).verb \in {"clone", "snap"} -> Subject(c) = {} \/ Named(CopyName(c)) # {}
      [] Step(c).verb = "attach" -> \A v \in Subject(c) : v.node # "none"
      [] Step(c).verb = "delete" -> \A v \in Subject(c) : v.node # "none" \/ v.mounted
      [] OTHER -> Subject(c) = {}

VolumeServed(c) ==
    LET verb == Step(c).verb
        new == [FreshVolume EXCEPT !.id = lastId + 1]
        becomes(v, w) == vols' = (vols \ {v}) \cup {w} /\ UNCHANGED lastId
    IN /\ \/ /\ verb = "create" /\ lastId' = lastId + 1
             /\ vols' = vols \cup {[new EXCEPT !.name = Call(c).name, !.up = FALSE]}
          \/ \E v \in Subject(c) :
                \/ /\ verb \in {"clone", "snap"} /\ lastId' = lastId + 1
                   /\ vols' = vols \cup {[new EXCEPT !.name = CopyName(c), !.parent = v.id]}
                \/ verb = "resize" /\ becomes(v, [v EXCEPT !.size = Call(c).v])
                \/ verb = "ha" /\ becomes(v, [v EXCEPT !.ha = Call(c).v])
                \/ verb = "attach" /\ becomes(v, [v EXCEPT !.node = Call(c).n])
                \/ verb = "detach" /\ becomes(v, [v EXCEPT !.node = "none"])
                \/ verb = "unmount" /\ becomes(v, [v EXCEPT !.mounted = FALSE])
                \/ verb = "delete" /\ vols' = vols \ {v} /\ UNCHANGED lastId
                \/ verb \in {"spec", "cloudsnap"} /\ UNCHANGED <<vols, lastId>>
       /\ UNCHANGED <<px, k8s>>

----------------------------------------------------------------------------
\* The lookups

\* What the lookup saw is kept; it is not looked at again.  ValidateCreateVolume wants the
\* volume up, and a device for it when it is attached.
Usable(v) == v.up /\ (v.kind = "pureblock" /\ v.node # "none" => v.devNode # "none")
FindVolume(c) ==
    LET found == Named(Call(c).name)
    IN /\ At(c, "find")
       /\ Through(c, Step(c).via,
             \/ \E v \in found : IF Step(c).up /\ ~Usable(v) THEN Retry(c)
                                ELSE ProceedWith(c, [th[c].lk EXCEPT !.id = v.id, !.seen = v])
             \/ found = {} /\ IF Step(c).up THEN Retry(c) ELSE Error(c),
             Retry(c))
       /\ UNCHANGED <<px, vols, lastId, k8s>>

\* The client is taken once, before the closure that is tried again.
TakeClient(c) ==
    /\ At(c, "getter") /\ Settles("get") /\ Proceed(c)
    /\ UNCHANGED <<px, vols, lastId, k8s>>

\* The volume is unmounted where it is mounted, detached and deleted.
Removal(c, v) ==
    (IF v.mounted THEN <<SdkId("unmount", "get")>> ELSE <<>>)
        \o <<SdkId("detach", "raw"), SdkId("delete", "raw")>>
EnumerateVolumes(c) ==
    LET ids == [th[c].lk EXCEPT !.ids = SetToSortSeq({v.id : v \in vols}, <)]
    IN /\ At(c, "list")
       /\ Through(c, Step(c).via,
                  Become(c, ids, IF Step(c).then = "ids" THEN <<>> ELSE <<[do |-> Step(c).then]>>), Retry(c))
       /\ UNCHANGED <<px, vols, lastId, k8s>>

CleanupNext(c) ==
    LET ids == Local(c, "ids")
        rest == [th[c].lk EXCEPT !.ids = Tail(ids)]
    IN /\ At(c, "next")
       /\ \/ ids = <<>> /\ Proceed(c) /\ UNCHANGED faults
          \/ /\ ids # <<>> /\ Answers(drv.ep) /\ UNCHANGED faults
             /\ \/ WithId(Head(ids)) = {} /\ Retry(c)
                \/ \E v \in WithId(Head(ids)) :
                      IF v.name = Call(c).name THEN Become(c, [rest EXCEPT !.id = v.id], Removal(c, v))
                      ELSE Become(c, rest, <<[do |-> "next"]>>)
          \/ ids # <<>> /\ ~Answers(drv.ep) /\ Retry(c) /\ UNCHANGED faults
          \/ ids # <<>> /\ Fault /\ Retry(c)
       /\ UNCHANGED pxVars

\* collectLocalNodeInfo on every node: the FlashArray devices beside the baseline.
CollectDevices(c) ==
    LET devs == {[id |-> v.id, node |-> v.devNode, size |-> v.devSize] :
                    v \in {w \in vols : w.kind = "pureblock" /\ w.devNode # "none"}}
    IN /\ At(c, "devices")
       /\ \/ ProceedWith(c, [th[c].lk EXCEPT !.devs = devs]) /\ UNCHANGED faults
          \/ Fault /\ Retry(c)
       /\ UNCHANGED pxVars
\* Every attached FlashArray volume must have its device, and nothing may be left over.
MatchDevices(c) ==
    LET ids == Local(c, "ids")
        matched(v) == {d \in Local(c, "devs") : d.id = v.id /\ d.node = v.node /\ d.size = v.size}
        rest(v) == [th[c].lk EXCEPT !.ids = Tail(ids), !.devs = @ \ matched(v)]
    IN /\ At(c, "pure")
       /\ \/ /\ ids = <<>> /\ UNCHANGED <<drv, faults>>
             /\ IF Local(c, "devs") = {} THEN Proceed(c) ELSE Retry(c)
          \/ /\ ids # <<>>
             /\ Through(c, "get",
                  \/ WithId(Head(ids)) = {} /\ Retry(c)
                  \/ \E v \in WithId(Head(ids)) :
                        IF v.kind = "pureblock" /\ v.node # "none" /\ matched(v) = {} THEN Retry(c)
                        ELSE Become(c, rest(v), <<[do |-> "pure"]>>),
                  Retry(c))
       /\ UNCHANGED <<px, vols, lastId, k8s>>

----------------------------------------------------------------------------
\* The questions about a volume and what a closure makes of the answer

ok(b) == IF b THEN "ok" ELSE "retry"

\* A profile the cluster derives from the one that was asked for.
IoProfileAccepted(asked, derived, ha) ==
    \/ asked = derived
    \/ asked \in {"auto", "db", "sequential"} /\ derived \in {"db_remote", "none"}
    \/ asked = "auto_journal" /\ derived \in {"journal", "none"}
    \/ asked = "db_remote" /\ ha < 2
DerivedProfile(ha) == IF ha >= 2 THEN "db_remote" ELSE "none"

\* Mutant: a volume on its way to the factor counts as there.
areRepSetsFinalEarly(v, factor) == v.ha = factor
areRepSetsFinal(v, factor) == v.reps = factor

\* A shared volume is not waited for.
Deleted(there, shared) == IF there /\ ~shared THEN "retry" ELSE "ok"

Parent(v) ==
    CASE v.parent = 0 -> "ok" [] v.parent # 0 /\ WithId(v.parent) = {} -> "error" [] OTHER -> "done"
DevicePath(v, now) ==
    IF v.kind # "pureblock" \/ v.node = "none" \/ v.mapper THEN "ok"
    ELSE ok(\E w \in now : w.devNode # "none" /\ w.mapper)
ValidateVolumeTopology(k, v) ==
    IF k.zone = {} \/ v.kind # "pureblock" \/ v.node \in k.zone THEN "ok" ELSE "error"
Spec_Compared(k, v) ==
    IF v.size = k.v /\ IoProfileAccepted(k.profile, DerivedProfile(v.ha), v.ha) THEN "ok" ELSE "error"
\* FlashBlade volumes and snapshots are attached nowhere.
IsVolumeAttachedOnNode(v) ==
    IF v.kind = "purefile" \/ v.node \in drv.nodes \/ v.parent # 0 THEN "ok" ELSE "retry"

VolumeQuestions == {"parent", "device", "topology", "replicaNodes", "spec", "updated", "deleted",
                    "factor", "replicated", "attached"}
VolumeAnswer(c) ==
    LET k == Call(c)
        q == Step(c).q
        seen == Local(c, "seen")
        now == Named(k.name)
        one == CHOOSE v \in now : TRUE
    IN CASE q = "parent" -> Parent(seen)
         [] q = "device" -> DevicePath(seen, now)
         [] q = "topology" -> ValidateVolumeTopology(k, seen)
         [] q = "replicaNodes" -> "ok"
         [] q = "spec" -> Spec_Compared(k, seen)
         [] q = "updated" -> IF now # {} /\ one.size = k.v THEN "ok" ELSE "retry"
         [] q = "deleted" -> Deleted(WithId(k.id) # {}, k.shared)
         [] q = "factor" -> IF now = {} THEN "error" ELSE "ok"
         [] q = "replicated" -> CASE now = {} -> "error"
                                  [] now # {} /\ areRepSetsFinal(one, k.v) -> "ok"
                                  [] OTHER -> "retry"
         [] q = "attached" -> IF now = {} THEN "error" ELSE IsVolumeAttachedOnNode(one)

VolumeStep(c) ==
    \/ FindVolume(c) \/ TakeClient(c) \/ EnumerateVolumes(c) \/ CleanupNext(c) \/ CollectDevices(c) \/ MatchDevices(c)
============================================================================
