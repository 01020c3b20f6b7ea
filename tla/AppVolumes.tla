----------------------------- MODULE AppVolumes -----------------------------
(***************************************************************************)
(* The volume operations of the Kubernetes scheduler driver on the context *)
(* of one application: getting, validating, resizing and deleting its      *)
(* volumes, and taking, checking, pruning and restoring CSI snapshots of   *)
(* them.  Triggers call them concurrently.  Each operation walks over the  *)
(* claims the spec list of the context leads to: it reads a claim, decides *)
(* from its copy whether to go on, and then acts on the cluster, which may *)
(* have changed.  The API server may fail a request or lose its reply.     *)
(***************************************************************************)
EXTENDS Naturals, Sequences, FiniteSets, FiniteSetsExt, Folds, Functions

CONSTANTS
    Callers,        \* trigger goroutines
    Contexts,       \* the contexts, with the triggers that work on each
    EssentialRetain \* the snapshots an essential licence allows

ASSUME AppVolumesAssumption == \A k \in Contexts : k.faults \in Nat

VARIABLE ctx        \* the context of this behaviour, chosen once

Script == ctx.script            \* the operations each caller's trigger runs, in order
SpecList == ctx.specs           \* ctx.App.SpecList: [kind, claims, grown] in order
Backend == ctx.backend          \* the backend parameter of each claim's storage class
PureVolumes == ctx.pure         \* k.PureVolumes: only Pure volumes are of interest
Essentials == ctx.essentials    \* the licence is EssentialsFaFbSKU
DefaultRetain == ctx.retain     \* DefaultSnapshotRetainCount
SkipClusterScoped == ctx.skip   \* no options, or their SkipClusterScopedObjects
MaxRounds == ctx.rounds         \* bound: triggers of each caller
MaxFaults == ctx.faults         \* bound: failed requests and lost replies

Claims == UNION {Range(SpecList[i].claims) : i \in DOMAIN SpecList}
Ops == {"GetVolumes", "ValidateVolumes", "ResizeVolume", "DeleteVolumes",
        "CreateCsiSnaps", "ValidateCsiSnaps", "DeleteCsiSnaps", "RestoreCsiSnap"}

----------------------------------------------------------------------------
\* Which kinds of spec objects each operation follows to their claims.

GetVolumesKinds ==
    {"PersistentVolumeClaim", "ModelsDeployment", "StatefulSet", "VirtualMachine"}
ValidateVolumesKinds == {"PersistentVolumeClaim", "ModelsDeployment", "StatefulSet"}
\* Mutant: the claims of a stateful set are left alone.
DeleteVolumesOwnKinds == {"PersistentVolumeClaim"}
DeleteVolumesKinds == {"PersistentVolumeClaim", "StatefulSet"}
\* Kinds DeleteVolumes removes that hold no claim.
StorageKinds == {"StorageClass", "VolumeSnapshot", "GroupVolumeSnapshot", "PersistentVolume"}
ResizeVolumeKinds == {"PersistentVolumeClaim", "StatefulSet", "ModelsDeployment"}
CsiKinds == {"PersistentVolumeClaim", "StatefulSet"}

KindsOf(op) ==
    CASE op = "GetVolumes" -> GetVolumesKinds
      [] op = "ValidateVolumes" -> ValidateVolumesKinds
      [] op = "DeleteVolumes" -> DeleteVolumesKinds
      [] op = "ResizeVolume" -> ResizeVolumeKinds
      [] OTHER -> CsiKinds

\* The sequences of a sequence, one after the other.
Joined(ss) == MapThenFoldSet(\o, <<>>, LAMBDA i : ss[i], Min, DOMAIN ss)

\* For a virtual machine every claim of the namespace is looked at.
ClaimsSeenFrom(i) ==
    IF SpecList[i].kind = "VirtualMachine"
    THEN Joined([j \in DOMAIN SpecList |-> SpecList[j].claims])
    ELSE SpecList[i].claims

NoClaim == "none"
Visits(op) ==
    Joined([i \in DOMAIN SpecList |->
        IF SpecList[i].kind \in KindsOf(op)
        THEN [n \in DOMAIN ClaimsSeenFrom(i) |-> [obj |-> i, cl |-> ClaimsSeenFrom(i)[n]]]
        ELSE IF SpecList[i].kind \in StorageKinds /\ op = "DeleteVolumes"
        THEN <<[obj |-> i, cl |-> NoClaim]>>
        ELSE <<>>])

filterPureTypeVolumeIfEnabled(cl, volTypes) == PureVolumes => Backend[cl] \in volTypes
filterPureVolumesIfEnabled(cl) == filterPureTypeVolumeIfEnabled(cl, {"pure_file", "pure_block"})

----------------------------------------------------------------------------
VARIABLES
    claim,      \* external: each claim's phase, size and resource version
    storage,    \* external: the other storage objects of the spec list that exist
    launchers,  \* external: virtual machines whose virt-launcher pod exists
    snaps,      \* external: the volume snapshots [cl, n, ready]
    made,       \* external: how many snapshots of each claim were ever made
    restored,   \* external: the claims "<claim>-restore": phase and source
    classMade,  \* isCsiVolumeSnapshotClassExist
    th,         \* each caller's call
    faults,     \* faults so far
    acked,      \* history: updates of each claim ResizePVC saw succeed
    results     \* history: what each caller's last operation returned

vars == <<ctx, claim, storage, launchers, snaps, made, restored, classMade, th, faults, acked, results>>
apiVars == <<claim, storage, launchers, snaps, made, restored>>

Absent == [phase |-> "absent", size |-> 0, rv |-> 0]
Fresh == [phase |-> "pending", size |-> 1, rv |-> 0]
Idle == [pc |-> "idle", script |-> <<>>, todo |-> <<>>, list |-> <<>>, out |-> <<>>,
         map |-> <<>>, res |-> NoClaim, snap |-> <<>>, retain |-> 0, round |-> 0]
NoResult == [op |-> "none", value |-> "none", out |-> <<>>]
VMs == {i \in DOMAIN SpecList : SpecList[i].kind = "VirtualMachine"}
StorageObjects == {i \in DOMAIN SpecList : SpecList[i].kind \in StorageKinds}

Init ==
    /\ ctx \in Contexts
    /\ claim = [cl \in Claims |-> Fresh]
    /\ storage = StorageObjects
    /\ launchers = {} /\ snaps = {} /\ classMade = FALSE
    /\ made = [cl \in Claims |-> 0]
    /\ restored = [cl \in Claims |-> [phase |-> "absent", src |-> NoClaim]]
    /\ th = [c \in Callers |-> Idle]
    /\ faults = 0
    /\ acked = [cl \in Claims |-> 0]
    /\ results = [c \in Callers |-> NoResult]

Op(c) == Head(th[c].script)
Here(c) == Head(th[c].todo)

----------------------------------------------------------------------------
\* A trigger

\* TriggerCsiSnapShot lowers the count only when it makes the snapshot class, and only
\* for itself: the next trigger keeps the default number again.
RetainCount(licenceRead) == IF Essentials /\ licenceRead THEN EssentialRetain ELSE DefaultRetain

StartOp(t, script) ==
    [t EXCEPT !.pc = "loop", !.script = script, !.todo = Visits(Head(script)),
              !.list = <<>>, !.out = <<>>, !.res = NoClaim]

TriggerBegins(c, retain) ==
    th' = [th EXCEPT ![c] = StartOp([th[c] EXCEPT !.round = th[c].round + 1,
                                                  !.retain = retain, !.map = <<>>],
                                    Script[c])]

\* The first snapshot trigger makes the class and reads the licence.  Without a licence
\* it goes on; without a class it ends, as it logs the name of what it was not given.
TriggerStart(c) ==
    LET first == "CreateCsiSnaps" \in Range(Script[c]) /\ ~classMade
    IN /\ th[c].pc = "idle" /\ th[c].round < MaxRounds[c] /\ Script[c] # <<>>
       /\ \/ /\ TriggerBegins(c, RetainCount(first)) /\ classMade' = (classMade \/ first)
             /\ UNCHANGED <<faults, results>>
          \/ /\ first /\ faults < MaxFaults /\ faults' = faults + 1
             /\ TriggerBegins(c, RetainCount(FALSE)) /\ classMade' = TRUE
             /\ UNCHANGED results
          \/ /\ first /\ faults < MaxFaults /\ faults' = faults + 1
             /\ th' = [th EXCEPT ![c] = [Idle EXCEPT !.round = th[c].round + 1]]
             /\ results' = [results EXCEPT ![c] = [NoResult EXCEPT !.value = "panic"]]
             /\ UNCHANGED classMade
       /\ UNCHANGED <<ctx, apiVars, acked>>

\* The operation returns; its error is recorded and the trigger goes on, a panic
\* ends the trigger.  CreateCsiSnapsForVolumes hands its map to the validation.
Return(c, value) ==
    LET t == th[c]
        map == IF Op(c) # "CreateCsiSnaps" THEN t.map ELSE IF value = "ok" THEN t.out ELSE <<>>
    IN /\ results' = [results EXCEPT ![c] =
                        [op |-> Op(c), value |-> value, out |-> IF value = "ok" THEN t.out ELSE <<>>]]
       /\ th' = [th EXCEPT ![c] =
                   IF Tail(t.script) = <<>> \/ value = "panic"
                   THEN [Idle EXCEPT !.round = t.round]
                   ELSE StartOp([t EXCEPT !.map = map], Tail(t.script))]

OpDone(c) ==
    /\ th[c].pc = "loop" /\ th[c].todo = <<>>
    /\ Return(c, "ok")
    /\ UNCHANGED <<apiVars, classMade, faults, acked>>

\* The next visit; what was restored is forgotten with the spec object.
Advance(c, t) ==
    LET rest == Tail(t.todo)
        same == rest # <<>> /\ Head(rest).obj = Head(t.todo).obj
    IN th' = [th EXCEPT ![c] = [t EXCEPT !.pc = "loop", !.todo = rest,
                                         !.res = IF same THEN @ ELSE NoClaim]]

----------------------------------------------------------------------------
\* Reading the claims of a spec object

\* What becomes of an operation that cannot read a claim of the spec list.
ReadFails(op, absent) ==
    CASE op = "DeleteVolumes" -> IF absent THEN "skip" ELSE "error"
      [] op = "ResizeVolume" -> IF PureVolumes THEN "error" ELSE "panic"
      [] op = "DeleteCsiSnaps" -> IF PureVolumes THEN "error" ELSE "skip"
      [] OTHER -> "error"

Present(cl) == claim[cl].phase # "absent"

\* A claim is read on its own, the claims of any other object with one list.
Read(c) ==
    LET v == Here(c)
        own == SpecList[v.obj].kind = "PersistentVolumeClaim"
        seen == {x \in Claims : x \in Range(ClaimsSeenFrom(v.obj)) /\ Present(x)}
        new == {[obj |-> v.obj, cl |-> x] : x \in seen}
    IN /\ th[c].pc = "loop" /\ th[c].todo # <<>> /\ v.cl # NoClaim /\ v \notin DOMAIN th[c].list
       /\ own => Present(v.cl)
       /\ th' = [th EXCEPT
                   ![c].list = [w \in DOMAIN th[c].list \cup new |->
                                  IF w \in new THEN claim[w.cl] ELSE th[c].list[w]],
                   ![c].todo = SelectSeq(@, LAMBDA w : w.obj = v.obj => w.cl \in seen)]
       /\ UNCHANGED <<apiVars, classMade, faults, acked, results>>

\* "Not found" is passed over by DeleteVolumes, for a claim and for a stateful set's list.
ReadFailed(c) ==
    LET v == Here(c)
        own == SpecList[v.obj].kind = "PersistentVolumeClaim"
        absent == own /\ ~Present(v.cl)
        values == IF own THEN {ReadFails(Op(c), absent)}
                  ELSE {"error"} \cup {x \in {"skip"} : Op(c) = "DeleteVolumes"}
    IN /\ th[c].pc = "loop" /\ th[c].todo # <<>> /\ v.cl # NoClaim /\ v \notin DOMAIN th[c].list
       /\ \/ absent /\ UNCHANGED faults
          \/ faults < MaxFaults /\ faults' = faults + 1
       /\ \E value \in values :
             IF value = "skip"
             THEN /\ th' = [th EXCEPT ![c] =
                              [th[c] EXCEPT !.todo = SelectSeq(@, LAMBDA w : w.obj # v.obj)]]
                  /\ UNCHANGED results
             ELSE Return(c, value)
       /\ UNCHANGED <<apiVars, classMade, acked>>

Visiting(c, op) ==
    /\ th[c].pc = "loop" /\ th[c].todo # <<>> /\ Op(c) = op
    /\ Here(c) \in DOMAIN th[c].list

Fails(c) ==
    /\ faults < MaxFaults /\ faults' = faults + 1
    /\ Return(c, "error")

----------------------------------------------------------------------------
\* GetVolumes, ValidateVolumes, ResizeVolume, DeleteVolumes

Found(c, item) == [th[c] EXCEPT !.out = Append(@, item)]

\* A claim belongs to a machine that owns it, or to any machine that is running.
WantedByVM(v) ==
    \/ v.cl \in Range(SpecList[v.obj].claims)
    \/ v.obj \in launchers
appendVolForPVC(c) ==
    LET v == Here(c)
        want == /\ filterPureVolumesIfEnabled(v.cl)
                /\ v.obj \in VMs => WantedByVM(v)
    IN /\ Visiting(c, "GetVolumes")
       /\ \/ /\ Advance(c, IF want THEN Found(c, v) ELSE th[c])
             /\ UNCHANGED <<faults, results>>
          \/ Fails(c)
       /\ UNCHANGED <<apiVars, classMade, acked>>

\* Replicas beyond the node count of a deployment make its timeout zero, and with
\* it not one attempt is made.
NoTimeLeft(i) == SpecList[i].kind = "ModelsDeployment" /\ SpecList[i].grown
ValidateVolumes(c) ==
    LET v == Here(c)
    IN /\ Visiting(c, "ValidateVolumes")
       /\ \/ /\ claim[v.cl].phase = "bound" /\ ~NoTimeLeft(v.obj)
             /\ Advance(c, th[c]) /\ UNCHANGED results
          \/ /\ claim[v.cl].phase # "bound" \/ NoTimeLeft(v.obj)
             /\ Return(c, "error")
       /\ UNCHANGED <<apiVars, classMade, faults, acked>>

\* Mutant: the copy in the spec list, which has no resource version, is sent.
ResizePVCOfSpec(c) ==
    LET v == Here(c)
    IN /\ Visiting(c, "ResizeVolume") /\ Present(v.cl)
       /\ claim' = [claim EXCEPT ![v.cl].size = Fresh.size + 1, ![v.cl].rv = @ + 1]
       /\ acked' = [acked EXCEPT ![v.cl] = @ + 1]
       /\ Advance(c, Found(c, [cl |-> v.cl, size |-> Fresh.size + 1]))
       /\ UNCHANGED <<storage, launchers, snaps, made, restored, classMade, faults, results>>

\* Mutant: a refused copy is sent again and again.
ResizePVCAgain(c) ==
    LET v == Here(c)
        copy == th[c].list[v]
    IN /\ Visiting(c, "ResizeVolume") /\ copy.rv = claim[v.cl].rv
       /\ claim' = [claim EXCEPT ![v.cl].size = copy.size + 1, ![v.cl].rv = @ + 1]
       /\ Advance(c, th[c])
       /\ UNCHANGED <<storage, launchers, snaps, made, restored, classMade, faults, acked, results>>

\* The copy is sent back one unit larger; the API server refuses one that is stale.
ResizePVC(c) ==
    LET v == Here(c)
        copy == th[c].list[v]
        grown == [claim EXCEPT ![v.cl].size = copy.size + 1, ![v.cl].rv = @ + 1]
        fresh == Present(v.cl) /\ copy.rv = claim[v.cl].rv
    IN /\ Visiting(c, "ResizeVolume")
       /\ \/ /\ ~filterPureVolumesIfEnabled(v.cl)
             /\ Advance(c, th[c]) /\ UNCHANGED <<claim, faults, acked, results>>
          \/ /\ filterPureVolumesIfEnabled(v.cl) /\ fresh
             /\ claim' = grown
             /\ acked' = [acked EXCEPT ![v.cl] = @ + 1]
             /\ Advance(c, Found(c, [cl |-> v.cl, size |-> copy.size + 1]))
             /\ UNCHANGED <<faults, results>>
          \/ /\ filterPureVolumesIfEnabled(v.cl) /\ ~fresh
             /\ Return(c, "error") /\ UNCHANGED <<claim, faults, acked>>
          \/ /\ filterPureVolumesIfEnabled(v.cl) /\ Fails(c)
             /\ claim' \in {claim} \cup {g \in {grown} : fresh}
             /\ UNCHANGED acked
       /\ UNCHANGED <<storage, launchers, snaps, made, restored, classMade>>

\* The claims of a stateful set are read once more, one by one.
ReadAgain(c) ==
    LET v == Here(c)
    IN /\ Visiting(c, "DeleteVolumes") /\ SpecList[v.obj].kind = "StatefulSet"
       /\ \/ /\ Present(v.cl) /\ th' = [th EXCEPT ![c].pc = "destroy"]
             /\ UNCHANGED <<faults, results>>
          \/ ~Present(v.cl) /\ Advance(c, th[c]) /\ UNCHANGED <<faults, results>>
          \/ Fails(c)
       /\ UNCHANGED <<apiVars, classMade, acked>>

\* The claim was read, and is to be deleted now.
Deleting(c) ==
    \/ Visiting(c, "DeleteVolumes") /\ SpecList[Here(c).obj].kind = "PersistentVolumeClaim"
    \/ th[c].pc = "destroy"

\* Mutant: the volumes of a stateful set are not listed.
DeleteVolumesUnlisted(c) ==
    LET v == Here(c)
    IN /\ Deleting(c)
       /\ claim' = [claim EXCEPT ![v.cl] = Absent]
       /\ Advance(c, IF th[c].pc = "loop" THEN Found(c, v.cl) ELSE th[c])
       /\ UNCHANGED <<storage, launchers, snaps, made, restored, classMade, faults, acked, results>>

\* The volume is listed when the claim is read; "not found" is tolerated.
DeleteVolumes(c) ==
    LET v == Here(c)
        gone == [claim EXCEPT ![v.cl] = Absent]
    IN /\ Deleting(c)
       /\ \/ /\ claim' = gone /\ Advance(c, Found(c, v.cl))
             /\ UNCHANGED <<faults, results>>
          \/ claim' \in {claim, gone} /\ Fails(c)
       /\ UNCHANGED <<storage, launchers, snaps, made, restored, classMade, acked>>

\* Storage classes, snapshots and persistent volumes: "not found" is tolerated here too.
DeleteStorage(c) ==
    LET i == Here(c).obj
        kept == SpecList[i].kind = "StorageClass" /\ SkipClusterScoped
    IN /\ th[c].pc = "loop" /\ th[c].todo # <<>> /\ Here(c).cl = NoClaim
       /\ \/ /\ storage' = IF kept THEN storage ELSE storage \ {i}
             /\ Advance(c, th[c]) /\ UNCHANGED <<faults, results>>
          \/ ~kept /\ storage' \in {storage, storage \ {i}} /\ Fails(c)
       /\ UNCHANGED <<claim, launchers, snaps, made, restored, classMade, acked>>

----------------------------------------------------------------------------
\* CSI snapshots: only Pure block volumes are of interest

CsiOkay(cl) == filterPureTypeVolumeIfEnabled(cl, {"pure_block"})
GetCsiSnapshots(cl) == {s \in snaps : s.cl = cl}
\* The name holds the claim's name and the time.
NewSnap(cl) == [cl |-> cl, n |-> made[cl] + 1, ready |-> FALSE]

SkipClaim(c) ==
    /\ Op(c) # "RestoreCsiSnap"
    /\ ~CsiOkay(Here(c).cl)
    /\ Advance(c, th[c]) /\ UNCHANGED <<snaps, faults, results>>

CreateCsiSnapshot(c) ==
    LET v == Here(c)  s == NewSnap(v.cl)
    IN /\ Visiting(c, "CreateCsiSnaps")
       /\ \/ SkipClaim(c) /\ UNCHANGED made
          \/ /\ CsiOkay(v.cl)
             /\ snaps' = snaps \cup {s} /\ made' = [made EXCEPT ![v.cl] = s.n]
             /\ th' = [th EXCEPT ![c].pc = "ready", ![c].snap = <<s.cl, s.n>>]
             /\ UNCHANGED <<faults, results>>
          \/ /\ CsiOkay(v.cl) /\ Fails(c)
             /\ \/ UNCHANGED <<snaps, made>>
                \/ snaps' = snaps \cup {s} /\ made' = [made EXCEPT ![v.cl] = s.n]
       /\ UNCHANGED <<claim, storage, launchers, restored, classMade, acked>>

Ready(c) == \E s \in snaps : <<s.cl, s.n>> = th[c].snap /\ s.ready

waitForCsiSnapToBeReady(c) ==
    /\ th[c].pc = "ready"
    /\ \/ /\ Ready(c)
          /\ Advance(c, Found(c, [cl |-> Here(c).cl, snap |-> th[c].snap]))
          /\ UNCHANGED results
       \/ ~Ready(c) /\ Return(c, "error")
    /\ UNCHANGED <<apiVars, classMade, faults, acked>>

\* The map of the creation must hold a snapshot of this claim that still exists.
validateCsiSnap(c) ==
    LET cl == Here(c).cl
        known == {x \in Range(th[c].map) : x.cl = cl}
        valid == \E x \in known, s \in snaps : x.snap = <<s.cl, s.n>> /\ s.cl = cl
    IN /\ Visiting(c, "ValidateCsiSnaps")
       /\ \/ SkipClaim(c)
          \/ /\ CsiOkay(cl)
             /\ IF valid THEN Advance(c, th[c]) /\ UNCHANGED results ELSE Return(c, "error")
             /\ UNCHANGED <<snaps, faults>>
       /\ UNCHANGED <<claim, storage, launchers, made, restored, classMade, acked>>

\* At most one snapshot of a claim goes, and only when there are more than the count.
TooMany(c, cl) == Cardinality(GetCsiSnapshots(cl)) > th[c].retain

DeleteCsiSnapsForVolumes(c) ==
    LET cl == Here(c).cl
    IN /\ Visiting(c, "DeleteCsiSnaps")
       /\ \/ SkipClaim(c)
          \/ /\ CsiOkay(cl) /\ ~TooMany(c, cl)
             /\ Advance(c, th[c]) /\ UNCHANGED <<snaps, faults, results>>
          \/ /\ CsiOkay(cl) /\ TooMany(c, cl)
             /\ \E s \in GetCsiSnapshots(cl) :
                   th' = [th EXCEPT ![c].pc = "delete", ![c].snap = <<s.cl, s.n>>]
             /\ UNCHANGED <<snaps, faults, results>>
          \/ CsiOkay(cl) /\ Fails(c) /\ UNCHANGED snaps
       /\ UNCHANGED <<claim, storage, launchers, made, restored, classMade, acked>>

\* A snapshot that is already gone is an error all the same.
DeleteCsiSnapshot(c) ==
    LET target == {s \in snaps : <<s.cl, s.n>> = th[c].snap}
    IN /\ th[c].pc = "delete"
       /\ \/ /\ target # {} /\ snaps' = snaps \ target
             /\ Advance(c, th[c]) /\ UNCHANGED <<faults, results>>
          \/ target = {} /\ Return(c, "error") /\ UNCHANGED <<snaps, faults>>
          \/ snaps' \in {snaps, snaps \ target} /\ Fails(c)
       /\ UNCHANGED <<claim, storage, launchers, made, restored, classMade, acked>>

SnapshotsToRestore(cl) == GetCsiSnapshots(cl)

\* A claim that is not restored is mapped to whatever resPvc points to: nothing,
\* or the claim restored before it for the same stateful set.
RestoreSkipped(c) ==
    /\ ~CsiOkay(Here(c).cl)
    /\ IF th[c].res = NoClaim
       THEN Return(c, "panic")
       ELSE /\ Advance(c, Found(c, [cl |-> Here(c).cl, from |-> th[c].res]))
            /\ UNCHANGED results

restoreCsiSnapshot(c) ==
    LET cl == Here(c).cl
    IN /\ Visiting(c, "RestoreCsiSnap")
       /\ \/ RestoreSkipped(c) /\ UNCHANGED <<restored, faults>>
          \/ /\ CsiOkay(cl) /\ SnapshotsToRestore(cl) = {}
             /\ Return(c, "error") /\ UNCHANGED <<restored, faults>>
          \/ /\ CsiOkay(cl)
             /\ \E s \in SnapshotsToRestore(cl) :
                  \/ /\ restored[cl].phase = "absent"
                     /\ restored' = [restored EXCEPT ![cl] = [phase |-> "pending", src |-> s.cl]]
                     /\ th' = [th EXCEPT ![c].pc = "restore", ![c].snap = <<s.cl, s.n>>]
                     /\ UNCHANGED <<faults, results>>
                  \/ /\ restored[cl].phase # "absent" /\ Return(c, "error")
                     /\ UNCHANGED <<restored, faults>>
                  \/ Fails(c) /\ UNCHANGED restored
       /\ UNCHANGED <<claim, storage, launchers, snaps, made, classMade, acked>>

ValidateCsiRestore(c) ==
    LET cl == Here(c).cl
    IN /\ th[c].pc = "restore"
       /\ IF restored[cl].phase # "pending"
          THEN /\ Advance(c, [Found(c, [cl |-> cl, from |-> restored[cl].src]) EXCEPT
                                !.res = restored[cl].src])
               /\ UNCHANGED results
          ELSE Return(c, "error")
       /\ UNCHANGED <<apiVars, classMade, faults, acked>>

----------------------------------------------------------------------------
\* The cluster

Bind(cl) ==
    /\ claim[cl].phase = "pending"
    /\ claim' = [claim EXCEPT ![cl].phase = "bound", ![cl].rv = @ + 1]
    /\ UNCHANGED <<storage, launchers, snaps, made, restored>>

BindRestored(cl) ==
    /\ restored[cl].phase = "pending"
    /\ restored' = [restored EXCEPT ![cl].phase = "bound"]
    /\ UNCHANGED <<claim, storage, launchers, snaps, made>>

SnapReady(s) ==
    /\ ~s.ready /\ Present(s.cl)
    /\ snaps' = (snaps \ {s}) \cup {[s EXCEPT !.ready = TRUE]}
    /\ UNCHANGED <<claim, storage, launchers, made, restored>>

Launch(i) ==
    /\ i \notin launchers /\ launchers' = launchers \cup {i}
    /\ UNCHANGED <<claim, storage, snaps, made, restored>>

Cluster ==
    /\ \/ \E cl \in Claims : Bind(cl) \/ BindRestored(cl)
       \/ \E s \in snaps : SnapReady(s)
       \/ \E i \in VMs : Launch(i)
    /\ UNCHANGED <<ctx, classMade, th, faults, acked, results>>

CallStep(c) ==
    /\ UNCHANGED ctx
    /\ \/ OpDone(c) \/ Read(c) \/ ReadFailed(c)
       \/ appendVolForPVC(c) \/ ValidateVolumes(c) \/ ResizePVC(c)
       \/ ReadAgain(c) \/ DeleteVolumes(c) \/ DeleteStorage(c)
       \/ CreateCsiSnapshot(c) \/ waitForCsiSnapToBeReady(c) \/ validateCsiSnap(c)
       \/ DeleteCsiSnapsForVolumes(c) \/ DeleteCsiSnapshot(c)
       \/ restoreCsiSnapshot(c) \/ ValidateCsiRestore(c)

Next == (\E c \in Callers : TriggerStart(c) \/ CallStep(c)) \/ Cluster

Spec == Init /\ [][Next]_vars /\ \A c \in Callers : WF_vars(CallStep(c))

----------------------------------------------------------------------------
\* Type invariant
TypeOK ==
    /\ \A cl \in Claims :
          /\ claim[cl].phase \in {"absent", "pending", "bound"} /\ claim[cl].size \in Nat
          /\ restored[cl].phase \in {"absent", "pending", "bound"}
          /\ restored[cl].src \in Claims \cup {NoClaim}
    /\ \A s \in snaps : s.cl \in Claims /\ s.n \in 1..made[s.cl]
    /\ launchers \subseteq VMs /\ storage \subseteq StorageObjects /\ faults \in 0..MaxFaults
    /\ \A c \in Callers :
          /\ th[c].pc \in {"idle", "loop", "ready", "delete", "destroy", "restore"}
          /\ results[c].op = "RestoreCsiSnap" =>
                \A n \in DOMAIN results[c].out : results[c].out[n].from \in Claims

\* With PureVolumes the operations touch Pure volumes only: snapshots and restores
\* are made of block volumes, and a volume that is not Pure is never resized.
OnlyPureVolumes ==
    PureVolumes =>
        /\ \A s \in snaps : Backend[s.cl] = "pure_block"
        /\ \A cl \in Claims : Backend[cl] = "none" => claim[cl].size <= Fresh.size

\* ResizePVC adds to the size it read, and concurrent triggers never undo each
\* other: a claim has grown at least by the updates that were acknowledged.
NoLostResize == \A cl \in Claims : Present(cl) => claim[cl].size >= Fresh.size + acked[cl]

\* The sizes ResizeVolume returns, which ValidateUpdateVolume later expects of the
\* volumes, are sizes the claims have really reached.
RequestedSizeReached ==
    \A c \in Callers : results[c].op = "ResizeVolume" =>
        \A n \in DOMAIN results[c].out :
            LET r == results[c].out[n] IN Present(r.cl) => claim[r.cl].size >= r.size

\* ValidateVolumesDeleted waits only for the volumes DeleteVolumes returned: as long
\* as no DeleteVolumes failed, every deleted claim is in some call's list.
DeletedVolumesReported ==
    LET listed(c) == Range(th[c].out) \cup Range(results[c].out)
        deleters == {c \in Callers : Script[c] = <<"DeleteVolumes">>}
    IN faults = 0 => \A cl \in Claims : ~Present(cl) => \E c \in deleters : cl \in listed(c)

\* A DeleteVolumes that returned nil has removed every object of the spec list that it
\* follows, also where another call removed some of them first; a storage class stays if
\* the options say so, and a stateful set whose list was answered with "not found".
DeletedMeansGone ==
    \A c \in Callers : results[c].op = "DeleteVolumes" /\ results[c].value = "ok" =>
        /\ \A i \in DOMAIN SpecList :
              \/ SpecList[i].kind = "PersistentVolumeClaim"
              \/ SpecList[i].kind = "StatefulSet" /\ faults = 0
              => \A cl \in Range(SpecList[i].claims) : ~Present(cl)
        /\ \A i \in storage : SpecList[i].kind = "StorageClass" /\ SkipClusterScoped

\* TriggerCsiSnapShot prunes before it creates: a volume never has more than one
\* snapshot above the default number to retain, plus one for each fault that stopped a
\* prune.  (The lower number of an essential licence bounds nothing: the code applies it
\* in the trigger that makes the snapshot class and in no later one.)
SnapshotsBounded ==
    \A cl \in Claims : Cardinality(GetCsiSnapshots(cl)) <= DefaultRetain + 1 + faults

\* RestoreCsiSnapAndValidate maps each claim to a claim restored from a snapshot of
\* that very claim, as long as no claim of the context is filtered out.
RestoredFromOwnSnapshot ==
    ~PureVolumes => \A c \in Callers : results[c].op = "RestoreCsiSnap" =>
        \A n \in DOMAIN results[c].out : results[c].out[n].from = results[c].out[n].cl

\* Triggers that work on the same volumes do not harm each other: no resize is undone, the
\* sizes a resize returned were reached, every restored claim comes from a snapshot of its own
\* claim, and volumes of another kind are left alone.
VolumesSound ==
    TypeOK /\ NoLostResize /\ RequestedSizeReached /\ RestoredFromOwnSnapshot /\ OnlyPureVolumes

\* The triggers as they are scripted account for what they did: the deleted volumes are
\* listed, what was to be deleted is gone, and the snapshots stay within the default number.
VolumesAccounted == DeletedVolumesReported /\ DeletedMeansGone /\ SnapshotsBounded

\* Whatever the cluster does, no operation waits for ever.
CallsReturn == \A c \in Callers : th[c].pc # "idle" ~> th[c].pc = "idle"
=============================================================================
