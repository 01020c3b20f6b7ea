-------------------------- MODULE AppVolumesProofs --------------------------
(***************************************************************************)
(* Triggers that resize, delete, snapshot and restore the volumes of one   *)
(* context at the same time do not harm each other, for every set of       *)
(* callers, every context and every script.  The argument is that of       *)
(* optimistic locking: a caller's copy of a claim with the claim's own     *)
(* resource version is the claim itself, so that what is sent back is the  *)
(* present size and one more.  A claim that is deleted never comes back,   *)
(* and one that stays never shrinks.                                       *)
(***************************************************************************)
EXTENDS AppVolumes, TLAPS

(* Leaves are first-order for the most part; the others are left to SMT.    *)
USE ZenonT(10), SMTT(30)

ClaimRecord == [phase : {"absent", "pending", "bound"}, size : Nat, rv : Nat]
RestoredRecord(C) == [phase : {"absent", "pending", "bound"}, src : C \cup {NoClaim}]

\* A copy read earlier, against the claim as it is now.
CopyOK(now, copy) ==
    /\ copy \in ClaimRecord
    /\ now.phase # "absent" => /\ copy.rv <= now.rv
                               /\ copy.rv = now.rv => copy.size = now.size

\* What an operation has collected to return, against the claims cm of the set C; p tells
\* whether only Pure volumes are of interest.
ResizedOK(C, cm, out) ==
    /\ out \in Seq([cl : C, size : Nat])
    /\ \A n \in DOMAIN out : cm[out[n].cl].phase # "absent" => cm[out[n].cl].size >= out[n].size
RestoredOK(C, p, out) ==
    /\ out \in Seq([cl : C, from : C])
    /\ ~p => \A n \in DOMAIN out : out[n].from = out[n].cl
OutOK(C, p, cm, op, out) ==
    /\ op = "ResizeVolume" => ResizedOK(C, cm, out)
    /\ op = "RestoreCsiSnap" => RestoredOK(C, p, out)

Fields ==
    {"pc", "script", "todo", "list", "out", "map", "res", "snap", "retain", "round"}
IsThread(t) == t = [f \in Fields |-> t[f]]

\* A caller that waits in the middle of a visit has read the claim it visits.
ThreadOK(C, p, cm, rs, t) ==
    /\ IsThread(t)
    /\ t.pc \in {"idle", "loop", "ready", "delete", "destroy", "restore"}
    /\ t.res \in C \cup {NoClaim}
    /\ \A w \in DOMAIN t.list : w.cl \in C /\ CopyOK(cm[w.cl], t.list[w])
    /\ OutOK(C, p, cm, Head(t.script), t.out)
    /\ t.pc \in {"ready", "delete", "destroy", "restore"} => Head(t.todo) \in DOMAIN t.list
    /\ t.pc = "ready" => Head(t.script) = "CreateCsiSnaps"
    /\ t.pc = "delete" => Head(t.script) = "DeleteCsiSnaps"
    /\ t.pc = "destroy" => Head(t.script) = "DeleteVolumes"
    /\ t.pc = "restore" => /\ Head(t.script) = "RestoreCsiSnap"
                           /\ rs[Head(t.todo).cl].phase # "absent"

\* What may become of the claims and of the restored claims.
Grows(C, cm, cn) ==
    \A cl \in C : cn[cl].phase # "absent" =>
        /\ cm[cl].phase # "absent"
        /\ cm[cl].size <= cn[cl].size /\ cm[cl].rv <= cn[cl].rv
        /\ cm[cl].rv = cn[cl].rv => cm[cl].size = cn[cl].size
Stays(C, rs, rn) == \A cl \in C : rs[cl].phase # "absent" => rn[cl].phase # "absent"

----------------------------------------------------------------------------
\* Lemmas about one record

LEMMA RestoredBound ==
    ASSUME NEW C, NEW k \in RestoredRecord(C)
    PROVE  [k EXCEPT !.phase = "bound"] = [phase |-> "bound", src |-> k.src]
  BY DEF RestoredRecord

----------------------------------------------------------------------------
\* Lemmas about one caller

\* A copy stays sound while the claim grows.
LEMMA CopyGrows ==
    ASSUME NEW now \in ClaimRecord, NEW next \in ClaimRecord, NEW copy, CopyOK(now, copy),
           next.phase # "absent" =>
               /\ now.phase # "absent"
               /\ now.size <= next.size /\ now.rv <= next.rv
               /\ now.rv = next.rv => now.size = next.size
    PROVE  CopyOK(next, copy)
  <1>1. copy.rv \in Nat /\ now.rv \in Nat /\ next.rv \in Nat  BY DEF CopyOK, ClaimRecord
  <1>2. copy \in ClaimRecord  BY DEF CopyOK
  <1>3. SUFFICES ASSUME next.phase # "absent"
                 PROVE  copy.rv <= next.rv /\ (copy.rv = next.rv => copy.size = next.size)
    BY <1>2 DEF CopyOK
  <1>4. copy.rv <= now.rv /\ (copy.rv = now.rv => copy.size = now.size)  BY <1>3 DEF CopyOK
  <1>5. now.rv <= next.rv /\ (now.rv = next.rv => now.size = next.size)  BY <1>3
  <1> QED  BY <1>1, <1>4, <1>5

\* What was collected stays true while the claims grow.
LEMMA OutGrows ==
    ASSUME NEW C, NEW p, NEW cm \in [C -> ClaimRecord], NEW cn \in [C -> ClaimRecord],
           Grows(C, cm, cn), NEW op, NEW out, OutOK(C, p, cm, op, out)
    PROVE  OutOK(C, p, cn, op, out)
  <1> SUFFICES ASSUME op = "ResizeVolume" PROVE ResizedOK(C, cn, out)
    BY DEF OutOK
  <1>1. ResizedOK(C, cm, out)  BY DEF OutOK
  <1>2. out \in Seq([cl : C, size : Nat])  BY <1>1 DEF ResizedOK
  <1>3. ASSUME NEW n \in DOMAIN out, cn[out[n].cl].phase # "absent"
        PROVE  cn[out[n].cl].size >= out[n].size
    <2>1. out[n] \in [cl : C, size : Nat]
      <3> DEFINE S == [cl : C, size : Nat]
      <3>1. out \in Seq(S)  BY <1>2
      <3> HIDE DEF S
      <3>2. out[n] \in S  BY <1>3, <3>1
      <3> QED  BY <3>2 DEF S
    <2>2. PICK cl \in C : cl = out[n].cl  BY <2>1
    <2>3. out[n].size \in Nat  BY <2>1
    <2>4. cm[cl].size \in Nat /\ cn[cl].size \in Nat  BY DEF ClaimRecord
    <2>5. cm[cl].phase # "absent" /\ cm[cl].size <= cn[cl].size  BY <1>3, <2>2 DEF Grows
    <2>6. cm[cl].size >= out[n].size  BY <1>1, <1>3, <2>2, <2>5 DEF ResizedOK
    <2> QED  BY <2>2, <2>3, <2>4, <2>5, <2>6
  <1> QED  BY <1>2, <1>3 DEF ResizedOK

\* Callers that do not move are not disturbed by what the others do.
LEMMA ThreadGrows ==
    ASSUME NEW C, NEW p, NEW cm \in [C -> ClaimRecord], NEW cn \in [C -> ClaimRecord],
           NEW rs, NEW rn, Grows(C, cm, cn), Stays(C, rs, rn),
           NEW t, ThreadOK(C, p, cm, rs, t)
    PROVE  ThreadOK(C, p, cn, rn, t)
  <1>1. OutOK(C, p, cn, Head(t.script), t.out)  BY OutGrows DEF ThreadOK
  <1>2. ASSUME NEW w \in DOMAIN t.list
        PROVE  w.cl \in C /\ CopyOK(cn[w.cl], t.list[w])
    <2>1. w.cl \in C /\ CopyOK(cm[w.cl], t.list[w])  BY <1>2 DEF ThreadOK
    <2>2. PICK cl \in C : cl = w.cl  BY <2>1
    <2>3. cm[cl] \in ClaimRecord /\ cn[cl] \in ClaimRecord  OBVIOUS
    <2>4. CopyOK(cm[cl], t.list[w])  BY <2>1, <2>2
    <2>5. CopyOK(cn[cl], t.list[w])  BY <2>3, <2>4, CopyGrows DEF Grows
    <2> QED  BY <2>1, <2>2, <2>5
  <1>3. ASSUME t.pc = "restore" PROVE rn[Head(t.todo).cl].phase # "absent"
    <2>1. Head(t.todo).cl \in C /\ rs[Head(t.todo).cl].phase # "absent"
      BY <1>3 DEF ThreadOK
    <2> QED  BY <2>1 DEF Stays
  <1> QED  BY <1>1, <1>2, <1>3 DEF ThreadOK

\* A caller that has nothing collected and nothing read is sound.
LEMMA EmptyOut ==
    ASSUME NEW C, NEW p, NEW cm, NEW op
    PROVE  OutOK(C, p, cm, op, <<>>)
  BY DEF OutOK, ResizedOK, RestoredOK

LEMMA IdleOK ==
    ASSUME NEW C, NEW p, NEW cm, NEW rs, NEW n
    PROVE  ThreadOK(C, p, cm, rs, [Idle EXCEPT !.round = n])
  <1> DEFINE t == [Idle EXCEPT !.round = n]
  <1> SUFFICES ThreadOK(C, p, cm, rs, t)  OBVIOUS
  <1>1. IsThread(t) /\ t.pc = "idle" /\ t.res = NoClaim /\ t.list = <<>> /\ t.out = <<>>
    BY DEF Idle, IsThread, Fields
  <1>2. DOMAIN t.list = {}  BY <1>1
  <1> HIDE DEF t
  <1> QED  BY <1>1, <1>2, EmptyOut DEF ThreadOK

LEMMA StartOpOK ==
    ASSUME NEW C, NEW p, NEW cm, NEW rs, NEW t, IsThread(t), NEW s
    PROVE  ThreadOK(C, p, cm, rs, StartOp(t, s))
  <1> DEFINE u == StartOp(t, s)
  <1> SUFFICES ThreadOK(C, p, cm, rs, u)  OBVIOUS
  <1>1. IsThread(u) /\ u.pc = "loop" /\ u.res = NoClaim /\ u.list = <<>> /\ u.out = <<>>
    BY DEF StartOp, IsThread, Fields
  <1>2. DOMAIN u.list = {}  BY <1>1
  <1> HIDE DEF u
  <1> QED  BY <1>1, <1>2, EmptyOut DEF ThreadOK

\* One more item, if it is what the operation collects.
LEMMA FoundOK ==
    ASSUME NEW C, NEW p, NEW cm, NEW rs, NEW t, ThreadOK(C, p, cm, rs, t), NEW item,
           Head(t.script) = "ResizeVolume" =>
               /\ item \in [cl : C, size : Nat]
               /\ cm[item.cl].phase # "absent" => cm[item.cl].size >= item.size,
           Head(t.script) = "RestoreCsiSnap" =>
               /\ item \in [cl : C, from : C]
               /\ ~p => item.from = item.cl
    PROVE  ThreadOK(C, p, cm, rs, [t EXCEPT !.out = Append(@, item)])
  <1> DEFINE u == [t EXCEPT !.out = Append(@, item)]
  <1> SUFFICES ThreadOK(C, p, cm, rs, u)  OBVIOUS
  <1>1. /\ IsThread(u) /\ u.out = Append(t.out, item)
        /\ u.pc = t.pc /\ u.script = t.script /\ u.res = t.res /\ u.list = t.list /\ u.todo = t.todo
    BY DEF ThreadOK, IsThread, Fields
  <1>2. ASSUME Head(t.script) = "ResizeVolume" PROVE ResizedOK(C, cm, u.out)
    <2>1. ResizedOK(C, cm, t.out)  BY <1>2 DEF ThreadOK, OutOK
    <2>2. PICK out \in Seq([cl : C, size : Nat]) : out = t.out  BY <2>1 DEF ResizedOK
    <2>3. PICK it \in [cl : C, size : Nat] : it = item  BY <1>2
    <2>4. Append(out, it) \in Seq([cl : C, size : Nat])  OBVIOUS
    <2>5. ASSUME NEW n \in DOMAIN Append(out, it)
          PROVE  \/ n \in DOMAIN out /\ Append(out, it)[n] = out[n]
                 \/ Append(out, it)[n] = it
      BY <2>5
    <2>6. u.out = Append(out, it)  BY <1>1, <2>2, <2>3
    <2>7. \A n \in DOMAIN out : cm[out[n].cl].phase # "absent" => cm[out[n].cl].size >= out[n].size
      BY <2>1, <2>2 DEF ResizedOK
    <2>8. cm[it.cl].phase # "absent" => cm[it.cl].size >= it.size  BY <1>2, <2>3
    <2> HIDE DEF u
    <2> QED  BY <2>4, <2>5, <2>6, <2>7, <2>8 DEF ResizedOK
  <1>3. ASSUME Head(t.script) = "RestoreCsiSnap" PROVE RestoredOK(C, p, u.out)
    <2>1. RestoredOK(C, p, t.out)  BY <1>3 DEF ThreadOK, OutOK
    <2>2. PICK out \in Seq([cl : C, from : C]) : out = t.out  BY <2>1 DEF RestoredOK
    <2>3. PICK it \in [cl : C, from : C] : it = item  BY <1>3
    <2>4. Append(out, it) \in Seq([cl : C, from : C])  OBVIOUS
    <2>5. ASSUME NEW n \in DOMAIN Append(out, it)
          PROVE  \/ n \in DOMAIN out /\ Append(out, it)[n] = out[n]
                 \/ Append(out, it)[n] = it
      BY <2>5
    <2>6. u.out = Append(out, it)  BY <1>1, <2>2, <2>3
    <2>7. ~p => \A n \in DOMAIN out : out[n].from = out[n].cl  BY <2>1, <2>2 DEF RestoredOK
    <2>8. ~p => it.from = it.cl  BY <1>3, <2>3
    <2> HIDE DEF u
    <2> QED  BY <2>4, <2>5, <2>6, <2>7, <2>8 DEF RestoredOK
  <1> HIDE DEF u
  <1>4. OutOK(C, p, cm, Head(u.script), u.out)  BY <1>1, <1>2, <1>3 DEF OutOK
  <1> QED  BY <1>1, <1>4 DEF ThreadOK

\* The next visit.
Advanced(t, same) ==
    [t EXCEPT !.pc = "loop", !.todo = Tail(t.todo), !.res = IF same THEN @ ELSE NoClaim]

LEMMA AdvancedOK ==
    ASSUME NEW C, NEW p, NEW cm, NEW rs, NEW t, ThreadOK(C, p, cm, rs, t), NEW same
    PROVE  ThreadOK(C, p, cm, rs, Advanced(t, same))
  <1> DEFINE u == Advanced(t, same)
  <1> SUFFICES ThreadOK(C, p, cm, rs, u)  OBVIOUS
  <1>1. /\ IsThread(u) /\ u.pc = "loop" /\ u.res \in {t.res, NoClaim}
        /\ u.script = t.script /\ u.list = t.list /\ u.out = t.out
    BY DEF Advanced, ThreadOK, IsThread, Fields
  <1> HIDE DEF u
  <1> QED  BY <1>1 DEF ThreadOK

----------------------------------------------------------------------------
\* The inductive invariant: the claims, snapshots and restored claims, and every caller.

WorldOK ==
    /\ ctx \in Contexts
    /\ claim \in [Claims -> ClaimRecord]
    /\ acked \in [Claims -> Nat] /\ made \in [Claims -> Nat]
    /\ restored \in [Claims -> RestoredRecord(Claims)]
    /\ \A cl \in Claims : restored[cl].phase # "absent" => restored[cl].src = cl
    /\ snaps \subseteq [cl : Claims, n : Nat, ready : BOOLEAN]
    /\ \A s \in snaps : s.n \in 1 .. made[s.cl]
    /\ launchers \subseteq VMs /\ storage \subseteq StorageObjects /\ faults \in 0 .. MaxFaults
    /\ NoLostResize /\ OnlyPureVolumes

CallersOK ==
    /\ th = [c \in Callers |-> th[c]] /\ results = [c \in Callers |-> results[c]]
    /\ \A c \in Callers :
          /\ ThreadOK(Claims, PureVolumes, claim, restored, th[c])
          /\ OutOK(Claims, PureVolumes, claim, results[c].op, results[c].out)

VolumesInv == WorldOK /\ CallersOK

\* What a step does to the cluster, and to the caller that takes it.
WorldStep ==
    /\ WorldOK' /\ ctx' = ctx
    /\ Grows(Claims, claim, claim') /\ Stays(Claims, restored, restored')
Moves(c) ==
    \E u, r :
        /\ th' = [th EXCEPT ![c] = u] /\ results' = [results EXCEPT ![c] = r]
        /\ ThreadOK(Claims, PureVolumes, claim', restored', u)
        /\ OutOK(Claims, PureVolumes, claim', r.op, r.out)

LEMMA SameContext ==
    ASSUME ctx' = ctx
    PROVE  /\ Claims' = Claims /\ PureVolumes' = PureVolumes /\ Backend' = Backend
           /\ VMs' = VMs /\ StorageObjects' = StorageObjects /\ MaxFaults' = MaxFaults
  BY DEF Claims, PureVolumes, Backend, VMs, StorageObjects, MaxFaults, SpecList

\* Every step of the whole is one of these.
LEMMA CallerStep ==
    ASSUME VolumesInv, WorldStep, NEW c \in Callers, Moves(c)
    PROVE  VolumesInv'
  <1>1. Claims' = Claims /\ PureVolumes' = PureVolumes  BY SameContext DEF WorldStep
  <1>2. claim \in [Claims -> ClaimRecord] /\ claim' \in [Claims -> ClaimRecord]
    BY <1>1 DEF VolumesInv, WorldOK, WorldStep
  <1>3. PICK u, r :
          /\ th' = [th EXCEPT ![c] = u] /\ results' = [results EXCEPT ![c] = r]
          /\ ThreadOK(Claims, PureVolumes, claim', restored', u)
          /\ OutOK(Claims, PureVolumes, claim', r.op, r.out)
    BY DEF Moves
  <1>4. th = [d \in Callers |-> th[d]] /\ results = [d \in Callers |-> results[d]]
    BY DEF VolumesInv, CallersOK
  <1>5. ASSUME NEW d \in Callers
        PROVE  /\ ThreadOK(Claims, PureVolumes, claim', restored', th'[d])
               /\ OutOK(Claims, PureVolumes, claim', results'[d].op, results'[d].out)
    <2>1. CASE d = c
      <3>1. th'[d] = u /\ results'[d] = r  BY <1>3, <1>4, <2>1
      <3> QED  BY <1>3, <3>1
    <2>2. CASE d # c
      <3>1. th'[d] = th[d] /\ results'[d] = results[d]  BY <1>3, <1>4, <2>2
      <3>2. /\ ThreadOK(Claims, PureVolumes, claim, restored, th[d])
            /\ OutOK(Claims, PureVolumes, claim, results[d].op, results[d].out)
        BY DEF VolumesInv, CallersOK
      <3>3. Grows(Claims, claim, claim') /\ Stays(Claims, restored, restored')
        BY DEF WorldStep
      <3>4. ThreadOK(Claims, PureVolumes, claim', restored', th[d])
        BY <1>2, <3>2, <3>3, ThreadGrows
      <3>5. OutOK(Claims, PureVolumes, claim', results[d].op, results[d].out)
        BY <1>2, <3>2, <3>3, OutGrows
      <3> QED  BY <3>1, <3>4, <3>5
    <2> QED  BY <2>1, <2>2
  <1>6. th' = [d \in Callers |-> th'[d]] /\ results' = [d \in Callers |-> results'[d]]
    BY <1>3, <1>4
  <1>7. CallersOK'  BY <1>1, <1>5, <1>6 DEF CallersOK
  <1> QED  BY <1>7 DEF VolumesInv, WorldStep

LEMMA ClusterStep ==
    ASSUME VolumesInv, WorldStep, UNCHANGED <<th, results>>
    PROVE  VolumesInv'
  <1>1. Claims' = Claims /\ PureVolumes' = PureVolumes  BY SameContext DEF WorldStep
  <1>2. claim \in [Claims -> ClaimRecord] /\ claim' \in [Claims -> ClaimRecord]
    BY <1>1 DEF VolumesInv, WorldOK, WorldStep
  <1>3. Grows(Claims, claim, claim') /\ Stays(Claims, restored, restored')
    BY DEF WorldStep
  <1>4. ASSUME NEW d \in Callers
        PROVE  /\ ThreadOK(Claims, PureVolumes, claim', restored', th[d])
               /\ OutOK(Claims, PureVolumes, claim', results[d].op, results[d].out)
    <2>1. /\ ThreadOK(Claims, PureVolumes, claim, restored, th[d])
          /\ OutOK(Claims, PureVolumes, claim, results[d].op, results[d].out)
      BY DEF VolumesInv, CallersOK
    <2>2. ThreadOK(Claims, PureVolumes, claim', restored', th[d])
      BY <1>2, <1>3, <2>1, ThreadGrows
    <2>3. OutOK(Claims, PureVolumes, claim', results[d].op, results[d].out)
      BY <1>2, <1>3, <2>1, OutGrows
    <2> QED  BY <2>2, <2>3
  <1>5. CallersOK'  BY <1>1, <1>4 DEF CallersOK, VolumesInv
  <1> QED  BY <1>5 DEF VolumesInv, WorldStep

----------------------------------------------------------------------------
\* What the caller of a step becomes

LEMMA CallerNow ==
    ASSUME VolumesInv, WorldStep, NEW c \in Callers
    PROVE  /\ ThreadOK(Claims, PureVolumes, claim', restored', th[c])
           /\ OutOK(Claims, PureVolumes, claim', results[c].op, results[c].out)
  <1>1. Claims' = Claims  BY SameContext DEF WorldStep
  <1>2. claim \in [Claims -> ClaimRecord] /\ claim' \in [Claims -> ClaimRecord]
    BY <1>1 DEF VolumesInv, WorldOK, WorldStep
  <1>3. Grows(Claims, claim, claim') /\ Stays(Claims, restored, restored')
    BY DEF WorldStep
  <1>4. /\ ThreadOK(Claims, PureVolumes, claim, restored, th[c])
        /\ OutOK(Claims, PureVolumes, claim, results[c].op, results[c].out)
    BY DEF VolumesInv, CallersOK
  <1>5. ThreadOK(Claims, PureVolumes, claim', restored', th[c])
    BY <1>2, <1>3, <1>4, ThreadGrows
  <1>6. OutOK(Claims, PureVolumes, claim', results[c].op, results[c].out)
    BY <1>2, <1>3, <1>4, OutGrows
  <1> QED  BY <1>5, <1>6

LEMMA BecomesMoves ==
    ASSUME VolumesInv, WorldStep, NEW c \in Callers, NEW u,
           ThreadOK(Claims, PureVolumes, claim', restored', u),
           th' = [th EXCEPT ![c] = u], results' = results
    PROVE  Moves(c)
  <1>1. results' = [results EXCEPT ![c] = results[c]]  BY DEF VolumesInv, CallersOK
  <1>2. OutOK(Claims, PureVolumes, claim', results[c].op, results[c].out)  BY CallerNow
  <1> QED  BY <1>1, <1>2 DEF Moves

LEMMA AdvanceMoves ==
    ASSUME VolumesInv, WorldStep, NEW c \in Callers, NEW t,
           ThreadOK(Claims, PureVolumes, claim', restored', t),
           Advance(c, t), results' = results
    PROVE  Moves(c)
  <1>1. PICK same : th' = [th EXCEPT ![c] = Advanced(t, same)]
    BY DEF Advance, Advanced
  <1>2. ThreadOK(Claims, PureVolumes, claim', restored', Advanced(t, same))  BY AdvancedOK
  <1> QED  BY <1>1, <1>2, BecomesMoves

LEMMA ReturnMoves ==
    ASSUME VolumesInv, WorldStep, NEW c \in Callers, NEW value, Return(c, value)
    PROVE  Moves(c)
  <1> DEFINE r == [op |-> Op(c), value |-> value, out |-> IF value = "ok" THEN th[c].out ELSE <<>>]
             m == IF Op(c) # "CreateCsiSnaps" THEN th[c].map
                  ELSE IF value = "ok" THEN th[c].out ELSE <<>>
             v == StartOp([th[c] EXCEPT !.map = m], Tail(th[c].script))
             u == IF Tail(th[c].script) = <<>> \/ value = "panic"
                  THEN [Idle EXCEPT !.round = th[c].round] ELSE v
  <1>1. th' = [th EXCEPT ![c] = u] /\ results' = [results EXCEPT ![c] = r]  BY DEF Return
  <1>2. ThreadOK(Claims, PureVolumes, claim', restored', th[c])  BY CallerNow
  <1>3. IsThread([th[c] EXCEPT !.map = m])
    <2> HIDE DEF m
    <2> QED  BY <1>2 DEF ThreadOK, IsThread, Fields
  <1>4. ThreadOK(Claims, PureVolumes, claim', restored', v)
    <2> HIDE DEF m
    <2> QED  BY <1>3, StartOpOK
  <1>5. ThreadOK(Claims, PureVolumes, claim', restored', [Idle EXCEPT !.round = th[c].round])
    BY IdleOK
  <1>6. ThreadOK(Claims, PureVolumes, claim', restored', u)
    <2> HIDE DEF v
    <2> QED  BY <1>4, <1>5
  <1>7. r.op = Op(c) /\ r.out \in {th[c].out, <<>>}  OBVIOUS
  <1>8. OutOK(Claims, PureVolumes, claim', r.op, r.out)
    <2> HIDE DEF r
    <2> QED  BY <1>2, <1>7, EmptyOut DEF ThreadOK, Op
  <1> HIDE DEF u, r
  <1> QED  BY <1>1, <1>6, <1>8 DEF Moves

----------------------------------------------------------------------------
\* What the steps do to the cluster

LEMMA FaultsCounted ==
    ASSUME WorldOK, \/ faults' = faults
                    \/ faults < MaxFaults /\ faults' = faults + 1
    PROVE  faults' \in 0 .. MaxFaults
  BY AppVolumesAssumption DEF WorldOK, MaxFaults

LEMMA GrowsSame ==
    ASSUME NEW C, NEW cm \in [C -> ClaimRecord]
    PROVE  Grows(C, cm, cm)
  BY DEF Grows, ClaimRecord

LEMMA StaysSame ==
    ASSUME NEW C, NEW rs
    PROVE  Stays(C, rs, rs)
  BY DEF Stays

LEMMA QuietWorld ==
    ASSUME WorldOK, UNCHANGED <<ctx, claim, launchers, snaps, made, restored, acked>>,
           storage' \subseteq storage, faults' \in 0 .. MaxFaults
    PROVE  WorldStep
  <1>1. /\ Claims' = Claims /\ PureVolumes' = PureVolumes /\ Backend' = Backend
        /\ VMs' = VMs /\ StorageObjects' = StorageObjects /\ MaxFaults' = MaxFaults
    BY SameContext
  <1>2. Grows(Claims, claim, claim') /\ Stays(Claims, restored, restored')
    BY GrowsSame, StaysSame DEF WorldOK
  <1>3. NoLostResize' /\ OnlyPureVolumes'
    BY <1>1 DEF WorldOK, NoLostResize, OnlyPureVolumes, Present
  <1>4. WorldOK'  BY <1>1, <1>3 DEF WorldOK
  <1> QED  BY <1>2, <1>4 DEF WorldStep

\* Claims change one at a time, acknowledged or not.
LEMMA ClaimWorld ==
    ASSUME WorldOK, UNCHANGED <<ctx, storage, launchers, snaps, made, restored>>,
           faults' \in 0 .. MaxFaults,
           NEW cl \in Claims, NEW now \in ClaimRecord, claim' = [claim EXCEPT ![cl] = now],
           NEW more \in Nat, acked' = [acked EXCEPT ![cl] = more],
           now.phase # "absent" =>
               /\ Present(cl)
               /\ claim[cl].size <= now.size /\ claim[cl].rv <= now.rv
               /\ claim[cl].rv = now.rv => claim[cl].size = now.size
               /\ now.size >= Fresh.size + more,
           now.size <= claim[cl].size \/ filterPureVolumesIfEnabled(cl)
    PROVE  WorldStep
  <1>1. /\ Claims' = Claims /\ PureVolumes' = PureVolumes /\ Backend' = Backend
        /\ VMs' = VMs /\ StorageObjects' = StorageObjects /\ MaxFaults' = MaxFaults
    BY SameContext
  <1>2. claim \in [Claims -> ClaimRecord] /\ acked \in [Claims -> Nat]  BY DEF WorldOK
  <1>3. claim' \in [Claims -> ClaimRecord] /\ acked' \in [Claims -> Nat]  BY <1>2
  <1>4. \A x \in Claims : claim[x] \in ClaimRecord /\ claim'[x] = IF x = cl THEN now ELSE claim[x]
    BY <1>2
  <1>5. \A x \in Claims : acked'[x] = IF x = cl THEN more ELSE acked[x]  BY <1>2
  <1>6. \A x \in ClaimRecord : x.size \in Nat /\ x.rv \in Nat  BY DEF ClaimRecord
  <1>7. Grows(Claims, claim, claim')
    <2> SUFFICES ASSUME NEW x \in Claims, claim'[x].phase # "absent"
                 PROVE  /\ claim[x].phase # "absent"
                        /\ claim[x].size <= claim'[x].size /\ claim[x].rv <= claim'[x].rv
                        /\ claim[x].rv = claim'[x].rv => claim[x].size = claim'[x].size
      BY DEF Grows
    <2>1. CASE x = cl  BY <1>4, <2>1 DEF Present
    <2>2. CASE x # cl
      <3>1. claim'[x] = claim[x]  BY <1>4, <2>2
      <3>2. claim[x].size \in Nat /\ claim[x].rv \in Nat  BY <1>4, <1>6
      <3> QED  BY <3>1, <3>2
    <2> QED  BY <2>1, <2>2
  <1>8. NoLostResize'
    <2> SUFFICES ASSUME NEW x \in Claims, claim'[x].phase # "absent"
                 PROVE  claim'[x].size >= Fresh.size + acked'[x]
      BY <1>1 DEF NoLostResize, Present
    <2>1. CASE x = cl  BY <1>4, <1>5, <2>1
    <2>2. CASE x # cl
      <3>1. claim'[x] = claim[x] /\ acked'[x] = acked[x]  BY <1>4, <1>5, <2>2
      <3> QED  BY <3>1 DEF WorldOK, NoLostResize, Present
    <2> QED  BY <2>1, <2>2
  <1>9. OnlyPureVolumes'
    <2> SUFFICES ASSUME PureVolumes
                 PROVE  /\ \A s \in snaps : Backend[s.cl] = "pure_block"
                        /\ \A x \in Claims : Backend[x] = "none" => claim'[x].size <= Fresh.size
      BY <1>1 DEF OnlyPureVolumes
    <2>1. /\ \A s \in snaps : Backend[s.cl] = "pure_block"
          /\ \A x \in Claims : Backend[x] = "none" => claim[x].size <= Fresh.size
      BY DEF WorldOK, OnlyPureVolumes
    <2>2. ASSUME NEW x \in Claims, Backend[x] = "none" PROVE claim'[x].size <= Fresh.size
      <3>1. claim[x].size <= Fresh.size  BY <2>1, <2>2
      <3>2. CASE x # cl  BY <1>4, <3>1, <3>2
      <3>3. CASE x = cl
        <4>1. ~filterPureVolumesIfEnabled(cl)
          BY <2>2, <3>3 DEF filterPureVolumesIfEnabled, filterPureTypeVolumeIfEnabled
        <4>2. now.size <= claim[cl].size  BY <4>1
        <4>3. now.size \in Nat /\ claim[cl].size \in Nat /\ Fresh.size \in Nat
          BY <1>4, <1>6 DEF Fresh
        <4> QED  BY <1>4, <3>1, <3>3, <4>2, <4>3
      <3> QED  BY <3>2, <3>3
    <2> QED  BY <2>1, <2>2
  <1>10. WorldOK'  BY <1>1, <1>3, <1>8, <1>9 DEF WorldOK
  <1> QED  BY <1>7, <1>10, StaysSame DEF WorldStep

\* The snapshots change; what is new is a snapshot of a Pure block volume.
LEMMA SnapWorld ==
    ASSUME WorldOK, UNCHANGED <<ctx, claim, storage, launchers, restored, acked>>,
           faults' \in 0 .. MaxFaults,
           made' \in [Claims -> Nat], \A cl \in Claims : made[cl] <= made'[cl],
           \A s \in snaps' \ snaps :
               /\ s \in [cl : Claims, n : Nat, ready : BOOLEAN]
               /\ s.n \in 1 .. made'[s.cl] /\ (PureVolumes => Backend[s.cl] = "pure_block")
    PROVE  WorldStep
  <1>1. /\ Claims' = Claims /\ PureVolumes' = PureVolumes /\ Backend' = Backend
        /\ VMs' = VMs /\ StorageObjects' = StorageObjects /\ MaxFaults' = MaxFaults
    BY SameContext
  <1>2. Grows(Claims, claim, claim') /\ Stays(Claims, restored, restored')
    BY GrowsSame, StaysSame DEF WorldOK
  <1>3. NoLostResize'  BY <1>1 DEF WorldOK, NoLostResize, Present
  <1>4. OnlyPureVolumes'  BY <1>1 DEF WorldOK, OnlyPureVolumes
  <1>5. snaps' \subseteq [cl : Claims, n : Nat, ready : BOOLEAN]  BY DEF WorldOK
  <1>6. ASSUME NEW s \in snaps' PROVE s.n \in 1 .. made'[s.cl]
    <2>1. CASE s \notin snaps  BY <1>6, <2>1
    <2>2. CASE s \in snaps
      <3>1. s.cl \in Claims /\ s.n \in 1 .. made[s.cl]  BY <2>2 DEF WorldOK
      <3>2. made[s.cl] \in Nat /\ made'[s.cl] \in Nat /\ made[s.cl] <= made'[s.cl]
        BY <3>1 DEF WorldOK
      <3> QED  BY <3>1, <3>2
    <2> QED  BY <2>1, <2>2
  <1>7. WorldOK'  BY <1>1, <1>3, <1>4, <1>5, <1>6 DEF WorldOK
  <1> QED  BY <1>2, <1>7 DEF WorldStep

\* One restored claim changes.
LEMMA RestoredWorld ==
    ASSUME WorldOK, UNCHANGED <<ctx, claim, storage, launchers, snaps, made, acked>>,
           faults' \in 0 .. MaxFaults, NEW cl \in Claims, NEW ph \in {"pending", "bound"},
           restored' = [restored EXCEPT ![cl] = [phase |-> ph, src |-> cl]]
    PROVE  WorldStep
  <1>1. /\ Claims' = Claims /\ PureVolumes' = PureVolumes /\ Backend' = Backend
        /\ VMs' = VMs /\ StorageObjects' = StorageObjects /\ MaxFaults' = MaxFaults
    BY SameContext
  <1>2. restored \in [Claims -> RestoredRecord(Claims)]  BY DEF WorldOK
  <1>3. [phase |-> ph, src |-> cl] \in RestoredRecord(Claims)  BY DEF RestoredRecord
  <1>4. restored' \in [Claims -> RestoredRecord(Claims)]  BY <1>2, <1>3
  <1>5. \A x \in Claims : restored'[x] = IF x = cl THEN [phase |-> ph, src |-> cl] ELSE restored[x]
    BY <1>2
  <1>6. Stays(Claims, restored, restored')  BY <1>5 DEF Stays
  <1>7. \A x \in Claims : restored'[x].phase # "absent" => restored'[x].src = x
    BY <1>5 DEF WorldOK
  <1>8. Grows(Claims, claim, claim')  BY GrowsSame DEF WorldOK
  <1>9. NoLostResize' /\ OnlyPureVolumes'
    BY <1>1 DEF WorldOK, NoLostResize, OnlyPureVolumes, Present
  <1>10. WorldOK'  BY <1>1, <1>4, <1>7, <1>9 DEF WorldOK
  <1> QED  BY <1>6, <1>8, <1>10 DEF WorldStep

----------------------------------------------------------------------------
\* The actions

\* A caller that visits a claim has a copy of it.
LEMMA VisitedClaim ==
    ASSUME VolumesInv, NEW c \in Callers, Here(c) \in DOMAIN th[c].list
    PROVE  Here(c).cl \in Claims /\ CopyOK(claim[Here(c).cl], th[c].list[Here(c)])
  BY DEF VolumesInv, CallersOK, ThreadOK

\* Steps that read the cluster, or that fail before they change it.
LEMMA QuietStep ==
    ASSUME VolumesInv, NEW c \in Callers, UNCHANGED <<ctx, apiVars, acked>>,
           \/ faults' = faults
           \/ faults < MaxFaults /\ faults' = faults + 1
    PROVE  WorldStep
  BY FaultsCounted, QuietWorld DEF VolumesInv, apiVars

LEMMA StartStep ==
    ASSUME VolumesInv, NEW c \in Callers, TriggerStart(c)
    PROVE  WorldStep /\ Moves(c)
  <1>1. WorldStep  BY QuietStep DEF TriggerStart
  <1>2. IsThread(th[c])  BY DEF VolumesInv, CallersOK, ThreadOK
  <1>3. ASSUME NEW retain, TriggerBegins(c, retain), results' = results  PROVE Moves(c)
    <2> DEFINE t == [th[c] EXCEPT !.round = th[c].round + 1, !.retain = retain, !.map = <<>>]
    <2>1. IsThread(t)  BY <1>2 DEF IsThread, Fields
    <2>2. th' = [th EXCEPT ![c] = StartOp(t, Script[c])]  BY <1>3 DEF TriggerBegins
    <2> HIDE DEF t
    <2>3. ThreadOK(Claims, PureVolumes, claim', restored', StartOp(t, Script[c]))  BY <2>1, StartOpOK
    <2> QED  BY <1>1, <1>3, <2>2, <2>3, BecomesMoves
  <1>4. ASSUME NEW n, th' = [th EXCEPT ![c] = [Idle EXCEPT !.round = n]],
               results' = [results EXCEPT ![c] = [NoResult EXCEPT !.value = "panic"]]
        PROVE  Moves(c)
    <2>1. ThreadOK(Claims, PureVolumes, claim', restored', [Idle EXCEPT !.round = n])  BY IdleOK
    <2>2. PICK x : x = [NoResult EXCEPT !.value = "panic"]  OBVIOUS
    <2>3. x.op = "none" /\ x.out = <<>>  BY <2>2 DEF NoResult
    <2>4. OutOK(Claims, PureVolumes, claim', x.op, x.out)  BY <2>3, EmptyOut
    <2> QED  BY <1>4, <2>1, <2>2, <2>4 DEF Moves
  <1>5. \/ \E retain : TriggerBegins(c, retain) /\ results' = results
        \/ \E n : /\ th' = [th EXCEPT ![c] = [Idle EXCEPT !.round = n]]
                  /\ results' = [results EXCEPT ![c] = [NoResult EXCEPT !.value = "panic"]]
    BY DEF TriggerStart
  <1> QED  BY <1>1, <1>3, <1>4, <1>5

LEMMA ReadStep ==
    ASSUME VolumesInv, NEW c \in Callers, UNCHANGED ctx, Read(c)
    PROVE  WorldStep /\ Moves(c)
  <1>1. WorldStep  BY QuietStep DEF Read
  <1>2. ThreadOK(Claims, PureVolumes, claim', restored', th[c])  BY <1>1, CallerNow
  <1> DEFINE v == Here(c)
             seen == {x \in Claims : x \in Range(ClaimsSeenFrom(v.obj)) /\ Present(x)}
             new == {[obj |-> v.obj, cl |-> x] : x \in seen}
             rest == SelectSeq(th[c].todo, LAMBDA w : w.obj = v.obj => w.cl \in seen)
             list == [w \in DOMAIN th[c].list \cup new |->
                        IF w \in new THEN claim[w.cl] ELSE th[c].list[w]]
             u == [th[c] EXCEPT !.list = list, !.todo = rest]
  <1>3. th' = [th EXCEPT ![c] = u]  BY DEF Read, VolumesInv, CallersOK
  <1>4. th[c].pc = "loop"  BY DEF Read
  <1>5. ASSUME NEW w \in DOMAIN list
        PROVE  w.cl \in Claims /\ CopyOK(claim'[w.cl], list[w])
    <2>1. CASE w \in new
      <3>1. PICK x \in seen : w = [obj |-> v.obj, cl |-> x]  BY <2>1
      <3>2. w.cl = x /\ x \in Claims  BY <3>1
      <3>3. list[w] = claim[w.cl]
        <4> HIDE DEF new
        <4> QED  BY <1>5, <2>1
      <3>4. claim' = claim /\ claim[x] \in ClaimRecord
        BY <3>2 DEF Read, apiVars, VolumesInv, WorldOK
      <3>5. CopyOK(claim[x], claim[x])  BY <3>4 DEF CopyOK, ClaimRecord
      <3> HIDE DEF list
      <3> QED  BY <3>2, <3>3, <3>4, <3>5
    <2>2. CASE w \notin new
      <3> HIDE DEF new
      <3>1. w \in DOMAIN th[c].list /\ list[w] = th[c].list[w]  BY <1>5, <2>2
      <3> HIDE DEF list
      <3> QED  BY <1>2, <3>1 DEF ThreadOK
    <2> QED  BY <2>1, <2>2
  <1> HIDE DEF list, rest
  <1>6. /\ IsThread(u) /\ u.pc = "loop" /\ u.script = th[c].script /\ u.res = th[c].res
        /\ u.list = list /\ u.out = th[c].out
    BY <1>2, <1>4 DEF ThreadOK, IsThread, Fields
  <1> HIDE DEF u
  <1>7. ThreadOK(Claims, PureVolumes, claim', restored', u)  BY <1>2, <1>5, <1>6 DEF ThreadOK
  <1>8. results' = results  BY DEF Read
  <1> QED  BY <1>1, <1>3, <1>7, <1>8, BecomesMoves

\* Steps that end a visit, or an operation, without a change of the cluster.
LEMMA PlainSteps ==
    ASSUME VolumesInv, NEW c \in Callers, UNCHANGED ctx,
           OpDone(c) \/ ReadFailed(c) \/ ValidateVolumes(c) \/ validateCsiSnap(c)
    PROVE  WorldStep /\ Moves(c)
  <1>1. CASE OpDone(c)
    <2>1. WorldStep  BY <1>1, QuietStep DEF OpDone
    <2>2. Return(c, "ok")  BY <1>1 DEF OpDone
    <2> QED  BY <2>1, <2>2, ReturnMoves
  <1>2. CASE ReadFailed(c)
    <2>1. WorldStep  BY <1>2, QuietStep DEF ReadFailed
    <2>2. \/ \E rest : th' = [th EXCEPT ![c] = [th[c] EXCEPT !.todo = rest]] /\ results' = results
          \/ \E value : Return(c, value)
      BY <1>2 DEF ReadFailed
    <2>3. ASSUME NEW rest  PROVE ThreadOK(Claims, PureVolumes, claim', restored', [th[c] EXCEPT !.todo = rest])
      <3> DEFINE u == [th[c] EXCEPT !.todo = rest]
      <3> SUFFICES ThreadOK(Claims, PureVolumes, claim', restored', u)  OBVIOUS
      <3>1. ThreadOK(Claims, PureVolumes, claim', restored', th[c])  BY <2>1, CallerNow
      <3>2. th[c].pc = "loop"  BY <1>2 DEF ReadFailed
      <3>3. /\ IsThread(u) /\ u.pc = "loop" /\ u.script = th[c].script /\ u.res = th[c].res
            /\ u.list = th[c].list /\ u.out = th[c].out
        BY <3>1, <3>2 DEF ThreadOK, IsThread, Fields
      <3> HIDE DEF u
      <3> QED  BY <3>1, <3>3 DEF ThreadOK
    <2> QED  BY <2>1, <2>2, <2>3, ReturnMoves, BecomesMoves
  <1>3. CASE ValidateVolumes(c)
    <2>1. WorldStep  BY <1>3, QuietStep DEF ValidateVolumes
    <2>2. \/ Advance(c, th[c]) /\ results' = results
          \/ Return(c, "error")
      BY <1>3 DEF ValidateVolumes
    <2> QED  BY <2>1, <2>2, ReturnMoves, AdvanceMoves, CallerNow
  <1>4. CASE validateCsiSnap(c)
    <2>1. WorldStep  BY <1>4, QuietStep DEF validateCsiSnap, SkipClaim, apiVars
    <2>2. \/ Advance(c, th[c]) /\ results' = results
          \/ Return(c, "error")
      BY <1>4 DEF validateCsiSnap, SkipClaim
    <2> QED  BY <2>1, <2>2, ReturnMoves, AdvanceMoves, CallerNow
  <1> QED  BY <1>1, <1>2, <1>3, <1>4

LEMMA CollectSteps ==
    ASSUME VolumesInv, NEW c \in Callers, UNCHANGED ctx,
           appendVolForPVC(c) \/ waitForCsiSnapToBeReady(c)
    PROVE  WorldStep /\ Moves(c)
  <1>1. WorldStep
    BY QuietStep DEF appendVolForPVC, waitForCsiSnapToBeReady, Fails
  <1>2. ThreadOK(Claims, PureVolumes, claim', restored', th[c])  BY <1>1, CallerNow
  <1>3. ASSUME NEW item, Head(th[c].script) \notin {"ResizeVolume", "RestoreCsiSnap"}
        PROVE  ThreadOK(Claims, PureVolumes, claim', restored', Found(c, item))
    BY <1>2, <1>3, FoundOK DEF Found
  <1>4. CASE appendVolForPVC(c)
    <2>1. Head(th[c].script) = "GetVolumes"  BY <1>4 DEF appendVolForPVC, Visiting, Op
    <2>2. \/ Advance(c, Found(c, Here(c))) /\ results' = results
          \/ Advance(c, th[c]) /\ results' = results
          \/ Return(c, "error")
      BY <1>4 DEF appendVolForPVC, Fails
    <2> QED  BY <1>1, <1>2, <1>3, <2>1, <2>2, ReturnMoves, AdvanceMoves
  <1>5. CASE waitForCsiSnapToBeReady(c)
    <2>1. Head(th[c].script) = "CreateCsiSnaps"
      BY <1>5 DEF waitForCsiSnapToBeReady, VolumesInv, CallersOK, ThreadOK
    <2>2. \/ /\ Advance(c, Found(c, [cl |-> Here(c).cl, snap |-> th[c].snap]))
             /\ results' = results
          \/ Return(c, "error")
      BY <1>5 DEF waitForCsiSnapToBeReady
    <2> QED  BY <1>1, <1>3, <2>1, <2>2, ReturnMoves, AdvanceMoves
  <1> QED  BY <1>4, <1>5

\* The copy that ResizePVC sends back has the resource version of the claim, so it is the
\* claim: the size grows by one, and by no more than one.
LEMMA ResizeStep ==
    ASSUME VolumesInv, NEW c \in Callers, UNCHANGED ctx, ResizePVC(c)
    PROVE  WorldStep /\ Moves(c)
  <1> DEFINE fresh == Present(Here(c).cl) /\ th[c].list[Here(c)].rv = claim[Here(c).cl].rv
             grown == [claim EXCEPT ![Here(c).cl].size = th[c].list[Here(c)].size + 1,
                                    ![Here(c).cl].rv = @ + 1]
  <1>1. PICK cl \in Claims : cl = Here(c).cl
    BY VisitedClaim DEF ResizePVC, Visiting
  <1>2. PICK copy \in ClaimRecord : copy = th[c].list[Here(c)]
    BY VisitedClaim DEF ResizePVC, Visiting, CopyOK
  <1>3. CopyOK(claim[cl], copy)  BY <1>1, <1>2, VisitedClaim DEF ResizePVC, Visiting
  <1>4. claim \in [Claims -> ClaimRecord] /\ acked \in [Claims -> Nat]
    BY DEF VolumesInv, WorldOK
  <1> DEFINE now == [claim[cl] EXCEPT !.size = copy.size + 1, !.rv = claim[cl].rv + 1]
  <1>5. grown = [claim EXCEPT ![cl] = now]  BY <1>1, <1>2, <1>4 DEF ClaimRecord
  <1>6. /\ now \in ClaimRecord /\ now.phase = claim[cl].phase
        /\ now.size = copy.size + 1 /\ now.rv = claim[cl].rv + 1
    <2>1. copy.size + 1 \in Nat /\ claim[cl].rv + 1 \in Nat /\ claim[cl] \in ClaimRecord
      BY <1>2, <1>4 DEF ClaimRecord
    <2>2. PICK k \in ClaimRecord, s \in Nat, r \in Nat :
            k = claim[cl] /\ s = copy.size + 1 /\ r = claim[cl].rv + 1
      BY <2>1
    <2>3. now = [k EXCEPT !.size = s, !.rv = r]  BY <2>2
    <2> HIDE DEF now
    <2>4. now \in ClaimRecord /\ now.phase = k.phase /\ now.size = s /\ now.rv = r
      BY <2>3 DEF ClaimRecord
    <2> QED  BY <2>2, <2>4
  <1>7. claim[cl].size \in Nat /\ claim[cl].rv \in Nat /\ copy.size \in Nat /\ copy.rv \in Nat
    BY <1>2, <1>4 DEF ClaimRecord
  <1> HIDE DEF now, grown
  <1>8. ASSUME fresh, filterPureVolumesIfEnabled(cl), claim' = grown,
               \/ acked' = acked
               \/ acked' = [acked EXCEPT ![cl] = acked[cl] + 1],
               UNCHANGED <<storage, launchers, snaps, made, restored>>,
               \/ faults' = faults
               \/ faults < MaxFaults /\ faults' = faults + 1
        PROVE  WorldStep
    <2>1. Present(cl) /\ copy.rv = claim[cl].rv  BY <1>1, <1>2, <1>8
    <2>2. copy.size = claim[cl].size  BY <1>3, <2>1 DEF CopyOK, Present
    <2>3. acked[cl] \in Nat /\ claim[cl].size >= Fresh.size + acked[cl]
      BY <1>4, <2>1 DEF VolumesInv, WorldOK, NoLostResize
    <2>4. Fresh.size = 1  BY DEF Fresh
    <2>5. PICK more \in {acked[cl], acked[cl] + 1} : acked' = [acked EXCEPT ![cl] = more]
      <3>1. CASE acked' = acked
        <4>1. acked' = [acked EXCEPT ![cl] = acked[cl]]  BY <1>4, <3>1
        <4> QED  BY <4>1
      <3>2. CASE acked' = [acked EXCEPT ![cl] = acked[cl] + 1]  BY <3>2
      <3> QED  BY <1>8, <3>1, <3>2
    <2>8. more \in Nat  BY <2>3
    <2>6. /\ claim[cl].size <= now.size /\ claim[cl].rv <= now.rv
          /\ claim[cl].rv # now.rv
          /\ now.size >= Fresh.size + more
      BY <1>6, <1>7, <2>2, <2>3, <2>4
    <2>7. faults' \in 0 .. MaxFaults  BY <1>8, FaultsCounted DEF VolumesInv
    <2> QED  BY <1>5, <1>6, <1>8, <2>1, <2>5, <2>6, <2>7, <2>8, ClaimWorld DEF VolumesInv
  <1>9. UNCHANGED <<storage, launchers, snaps, made, restored>>  BY DEF ResizePVC
  <1>10. CASE UNCHANGED <<claim, acked>> /\ (Fails(c) \/ faults' = faults)
               /\ (\/ Advance(c, th[c]) /\ results' = results
                   \/ Return(c, "error"))
    <2>1. WorldStep  BY <1>9, <1>10, QuietStep DEF Fails, apiVars
    <2> QED  BY <1>10, <2>1, AdvanceMoves, ReturnMoves, CallerNow
  <1>11. CASE /\ fresh /\ filterPureVolumesIfEnabled(cl) /\ claim' = grown /\ acked' = acked
              /\ Fails(c)
    <2>1. WorldStep  BY <1>8, <1>9, <1>11 DEF Fails
    <2> QED  BY <1>11, <2>1, ReturnMoves DEF Fails
  <1>12. CASE /\ fresh /\ filterPureVolumesIfEnabled(cl) /\ claim' = grown
              /\ acked' = [acked EXCEPT ![cl] = acked[cl] + 1]
              /\ Advance(c, Found(c, [cl |-> cl, size |-> copy.size + 1]))
              /\ UNCHANGED <<faults, results>>
    <2>1. WorldStep  BY <1>8, <1>9, <1>12
    <2>2. ThreadOK(Claims, PureVolumes, claim', restored', th[c])  BY <2>1, CallerNow
    <2> DEFINE item == [cl |-> cl, size |-> copy.size + 1]
    <2>3. item \in [cl : Claims, size : Nat] /\ item.cl = cl /\ item.size = now.size
      BY <1>6, <1>7
    <2>4. claim'[cl] = now  BY <1>4, <1>5, <1>12
    <2>5. claim'[cl].size >= item.size  BY <1>6, <1>7, <2>3, <2>4
    <2>6. Head(th[c].script) = "ResizeVolume"  BY DEF ResizePVC, Visiting, Op
    <2> HIDE DEF item
    <2>7. ThreadOK(Claims, PureVolumes, claim', restored', Found(c, item))
      BY <2>2, <2>3, <2>5, <2>6, FoundOK DEF Found
    <2> QED  BY <1>12, <2>1, <2>7, AdvanceMoves DEF item
  <1> QED
    <2>1. \/ /\ Advance(c, th[c]) /\ UNCHANGED <<claim, faults, acked, results>>
          \/ /\ filterPureVolumesIfEnabled(cl) /\ fresh /\ claim' = grown
             /\ acked' = [acked EXCEPT ![cl] = acked[cl] + 1]
             /\ Advance(c, Found(c, [cl |-> cl, size |-> copy.size + 1]))
             /\ UNCHANGED <<faults, results>>
          \/ Return(c, "error") /\ UNCHANGED <<claim, faults, acked>>
          \/ /\ filterPureVolumesIfEnabled(cl) /\ Fails(c) /\ UNCHANGED acked
             /\ claim' = claim \/ (fresh /\ claim' = grown)
      BY <1>1, <1>2 DEF ResizePVC, grown
    <2> HIDE DEF fresh
    <2> QED  BY <1>10, <1>11, <1>12, <2>1 DEF Fails

LEMMA DeleteStep ==
    ASSUME VolumesInv, NEW c \in Callers, UNCHANGED ctx, DeleteVolumes(c)
    PROVE  WorldStep /\ Moves(c)
  <1>0. Here(c) \in DOMAIN th[c].list /\ Head(th[c].script) = "DeleteVolumes"
    BY DEF DeleteVolumes, Deleting, Visiting, Here, Op, VolumesInv, CallersOK, ThreadOK
  <1>1. PICK cl \in Claims : cl = Here(c).cl  BY <1>0, VisitedClaim
  <1>2. Absent \in ClaimRecord /\ Absent.phase = "absent" /\ Absent.size = 0
    BY DEF Absent, ClaimRecord
  <1>3. claim \in [Claims -> ClaimRecord] /\ acked \in [Claims -> Nat]
    BY DEF VolumesInv, WorldOK
  <1>4. UNCHANGED <<storage, launchers, snaps, made, restored, acked>>  BY DEF DeleteVolumes
  <1>5. faults' = faults \/ (faults < MaxFaults /\ faults' = faults + 1)
    BY DEF DeleteVolumes, Fails
  <1>6. WorldStep
    <2>1. CASE claim' = claim  BY <1>4, <1>5, <2>1, QuietStep DEF apiVars
    <2>2. CASE claim' = [claim EXCEPT ![cl] = Absent]
      <3>1. acked' = [acked EXCEPT ![cl] = acked[cl]] /\ acked[cl] \in Nat  BY <1>3, <1>4
      <3>2. Absent.size <= claim[cl].size  BY <1>2, <1>3 DEF ClaimRecord
      <3>3. faults' \in 0 .. MaxFaults  BY <1>5, FaultsCounted DEF VolumesInv
      <3> QED  BY <1>2, <1>4, <2>2, <3>1, <3>2, <3>3, ClaimWorld DEF VolumesInv
    <2> QED  BY <1>1, <2>1, <2>2 DEF DeleteVolumes
  <1>7. ThreadOK(Claims, PureVolumes, claim', restored', th[c])  BY <1>6, CallerNow
  <1>9. ThreadOK(Claims, PureVolumes, claim', restored', Found(c, cl))
    BY <1>0, <1>7, FoundOK DEF Found
  <1>10. \/ Advance(c, Found(c, cl)) /\ results' = results
         \/ Return(c, "error")
    BY <1>1 DEF DeleteVolumes, Fails
  <1> QED  BY <1>6, <1>9, <1>10, AdvanceMoves, ReturnMoves

\* A caller starts to wait in the middle of a visit.
LEMMA WaitOK ==
    ASSUME NEW C, NEW p, NEW cm, NEW rs, NEW t, ThreadOK(C, p, cm, rs, t),
           Head(t.todo) \in DOMAIN t.list, NEW pc, NEW sn,
           \/ pc = "ready" /\ Head(t.script) = "CreateCsiSnaps"
           \/ pc = "delete" /\ Head(t.script) = "DeleteCsiSnaps"
           \/ pc = "destroy" /\ Head(t.script) = "DeleteVolumes"
           \/ /\ pc = "restore" /\ Head(t.script) = "RestoreCsiSnap"
              /\ rs[Head(t.todo).cl].phase # "absent"
    PROVE  ThreadOK(C, p, cm, rs, [t EXCEPT !.pc = pc, !.snap = sn])
  <1> DEFINE u == [t EXCEPT !.pc = pc, !.snap = sn]
  <1> SUFFICES ThreadOK(C, p, cm, rs, u)  OBVIOUS
  <1>1. /\ IsThread(u) /\ u.pc = pc /\ u.script = t.script /\ u.todo = t.todo
        /\ u.list = t.list /\ u.out = t.out /\ u.res = t.res
    BY DEF ThreadOK, IsThread, Fields
  <1> HIDE DEF u
  <1> QED  BY <1>1 DEF ThreadOK

LEMMA AgainStep ==
    ASSUME VolumesInv, NEW c \in Callers, UNCHANGED ctx, ReadAgain(c)
    PROVE  WorldStep /\ Moves(c)
  <1>1. WorldStep  BY QuietStep DEF ReadAgain, Fails
  <1>2. ThreadOK(Claims, PureVolumes, claim', restored', th[c])  BY <1>1, CallerNow
  <1>3. Head(th[c].script) = "DeleteVolumes" /\ Head(th[c].todo) \in DOMAIN th[c].list
    BY DEF ReadAgain, Visiting, Op, Here
  <1>4. PICK sn : sn = th[c].snap  OBVIOUS
  <1>5. ASSUME th' = [th EXCEPT ![c].pc = "destroy"]
        PROVE  th' = [th EXCEPT ![c] = [th[c] EXCEPT !.pc = "destroy", !.snap = sn]]
    <2>1. th = [d \in Callers |-> th[d]] /\ IsThread(th[c])
      BY DEF VolumesInv, CallersOK, ThreadOK
    <2>2. th' = [th EXCEPT ![c] = [th[c] EXCEPT !.pc = "destroy"]]  BY <1>5, <2>1
    <2>3. [th[c] EXCEPT !.pc = "destroy"] = [th[c] EXCEPT !.pc = "destroy", !.snap = sn]
      BY <1>4, <2>1 DEF IsThread, Fields
    <2> QED  BY <2>2, <2>3
  <1>6. ThreadOK(Claims, PureVolumes, claim', restored', [th[c] EXCEPT !.pc = "destroy", !.snap = sn])
    BY <1>2, <1>3, WaitOK
  <1>7. \/ Advance(c, th[c]) /\ results' = results
        \/ Return(c, "error")
        \/ th' = [th EXCEPT ![c].pc = "destroy"] /\ results' = results
    BY DEF ReadAgain, Fails
  <1> QED  BY <1>1, <1>2, <1>5, <1>6, <1>7, AdvanceMoves, ReturnMoves, BecomesMoves

LEMMA StorageStep ==
    ASSUME VolumesInv, NEW c \in Callers, UNCHANGED ctx, DeleteStorage(c)
    PROVE  WorldStep /\ Moves(c)
  <1>1. faults' = faults \/ (faults < MaxFaults /\ faults' = faults + 1)
    BY DEF DeleteStorage, Fails
  <1>2. faults' \in 0 .. MaxFaults  BY <1>1, FaultsCounted DEF VolumesInv
  <1>3. storage' \subseteq storage  BY DEF DeleteStorage
  <1>4. UNCHANGED <<claim, launchers, snaps, made, restored, acked>>  BY DEF DeleteStorage
  <1>5. WorldStep  BY <1>2, <1>3, <1>4, QuietWorld DEF VolumesInv
  <1>6. \/ Advance(c, th[c]) /\ results' = results
        \/ Return(c, "error")
    BY DEF DeleteStorage, Fails
  <1> QED  BY <1>5, <1>6, AdvanceMoves, ReturnMoves, CallerNow

LEMMA SnapshotStep ==
    ASSUME VolumesInv, NEW c \in Callers, UNCHANGED ctx, CreateCsiSnapshot(c)
    PROVE  WorldStep /\ Moves(c)
  <1>1. PICK cl \in Claims : cl = Here(c).cl
    BY VisitedClaim DEF CreateCsiSnapshot, Visiting
  <1>2. made \in [Claims -> Nat] /\ made[cl] \in Nat  BY DEF VolumesInv, WorldOK
  <1>3. UNCHANGED <<claim, storage, launchers, restored, acked>>  BY DEF CreateCsiSnapshot
  <1>4. faults' = faults \/ (faults < MaxFaults /\ faults' = faults + 1)
    BY DEF CreateCsiSnapshot, SkipClaim, Fails
  <1>5. WorldStep
    <2>1. CASE UNCHANGED <<snaps, made>>  BY <1>3, <1>4, <2>1, QuietStep DEF apiVars
    <2>2. CASE /\ CsiOkay(cl) /\ snaps' = snaps \cup {NewSnap(cl)}
               /\ made' = [made EXCEPT ![cl] = NewSnap(cl).n]
      <3>1. /\ NewSnap(cl) \in [cl : Claims, n : Nat, ready : BOOLEAN]
            /\ NewSnap(cl).n = made[cl] + 1 /\ NewSnap(cl).cl = cl
        BY <1>2 DEF NewSnap
      <3>2. made' \in [Claims -> Nat] /\ made'[cl] = made[cl] + 1  BY <1>2, <2>2, <3>1
      <3>3. \A x \in Claims : made[x] <= made'[x]  BY <1>2, <2>2, <3>1
      <3>4. PureVolumes => Backend[cl] = "pure_block"
        BY <2>2 DEF CsiOkay, filterPureTypeVolumeIfEnabled
      <3>5. NewSnap(cl).n \in 1 .. made'[NewSnap(cl).cl]  BY <1>2, <3>1, <3>2
      <3>6. faults' \in 0 .. MaxFaults  BY <1>4, FaultsCounted DEF VolumesInv
      <3>7. \A s \in snaps' \ snaps : s = NewSnap(cl)  BY <2>2
      <3> QED  BY <1>3, <3>1, <3>2, <3>3, <3>4, <3>5, <3>6, <3>7, SnapWorld DEF VolumesInv
    <2> QED  BY <1>1, <2>1, <2>2 DEF CreateCsiSnapshot, SkipClaim
  <1>6. ThreadOK(Claims, PureVolumes, claim', restored', th[c])  BY <1>5, CallerNow
  <1>7. Head(th[c].script) = "CreateCsiSnaps" /\ Head(th[c].todo) \in DOMAIN th[c].list
    BY DEF CreateCsiSnapshot, Visiting, Op, Here
  <1>8. \/ Advance(c, th[c]) /\ results' = results
        \/ Return(c, "error")
        \/ \E sn : /\ th' = [th EXCEPT ![c] = [th[c] EXCEPT !.pc = "ready", !.snap = sn]]
                   /\ results' = results
    <2>1. th = [d \in Callers |-> th[d]] /\ IsThread(th[c])
      BY DEF VolumesInv, CallersOK, ThreadOK
    <2>2. ASSUME NEW sn, th' = [th EXCEPT ![c].pc = "ready", ![c].snap = sn]
          PROVE  th' = [th EXCEPT ![c] = [th[c] EXCEPT !.pc = "ready", !.snap = sn]]
      BY <2>1, <2>2
    <2> QED  BY <2>2 DEF CreateCsiSnapshot, SkipClaim, Fails
  <1>9. \A sn : ThreadOK(Claims, PureVolumes, claim', restored',
                         [th[c] EXCEPT !.pc = "ready", !.snap = sn])
    BY <1>6, <1>7, WaitOK
  <1> QED  BY <1>5, <1>6, <1>8, <1>9, AdvanceMoves, ReturnMoves, BecomesMoves

LEMMA PruneStep ==
    ASSUME VolumesInv, NEW c \in Callers, UNCHANGED ctx, DeleteCsiSnapsForVolumes(c)
    PROVE  WorldStep /\ Moves(c)
  <1>1. UNCHANGED <<claim, storage, launchers, snaps, made, restored, acked>>
    BY DEF DeleteCsiSnapsForVolumes, SkipClaim
  <1>2. faults' = faults \/ (faults < MaxFaults /\ faults' = faults + 1)
    BY DEF DeleteCsiSnapsForVolumes, SkipClaim, Fails
  <1>3. WorldStep  BY <1>1, <1>2, QuietStep DEF apiVars
  <1>4. ThreadOK(Claims, PureVolumes, claim', restored', th[c])  BY <1>3, CallerNow
  <1>5. Head(th[c].script) = "DeleteCsiSnaps" /\ Head(th[c].todo) \in DOMAIN th[c].list
    BY DEF DeleteCsiSnapsForVolumes, Visiting, Op, Here
  <1>6. \/ Advance(c, th[c]) /\ results' = results
        \/ Return(c, "error")
        \/ \E sn : /\ th' = [th EXCEPT ![c] = [th[c] EXCEPT !.pc = "delete", !.snap = sn]]
                   /\ results' = results
    <2>1. th = [d \in Callers |-> th[d]] /\ IsThread(th[c])
      BY DEF VolumesInv, CallersOK, ThreadOK
    <2>2. ASSUME NEW sn, th' = [th EXCEPT ![c].pc = "delete", ![c].snap = sn]
          PROVE  th' = [th EXCEPT ![c] = [th[c] EXCEPT !.pc = "delete", !.snap = sn]]
      BY <2>1, <2>2
    <2> QED  BY <2>2 DEF DeleteCsiSnapsForVolumes, SkipClaim, Fails
  <1>7. \A sn : ThreadOK(Claims, PureVolumes, claim', restored',
                         [th[c] EXCEPT !.pc = "delete", !.snap = sn])
    BY <1>4, <1>5, WaitOK
  <1> QED  BY <1>3, <1>4, <1>6, <1>7, AdvanceMoves, ReturnMoves, BecomesMoves

LEMMA SnapshotGone ==
    ASSUME VolumesInv, NEW c \in Callers, UNCHANGED ctx, DeleteCsiSnapshot(c)
    PROVE  WorldStep /\ Moves(c)
  <1>1. UNCHANGED <<claim, storage, launchers, made, restored, acked>>  BY DEF DeleteCsiSnapshot
  <1>2. faults' = faults \/ (faults < MaxFaults /\ faults' = faults + 1)
    BY DEF DeleteCsiSnapshot, Fails
  <1>3. snaps' \subseteq snaps  BY DEF DeleteCsiSnapshot
  <1>4. faults' \in 0 .. MaxFaults  BY <1>2, FaultsCounted DEF VolumesInv
  <1>5. made' \in [Claims -> Nat] /\ \A x \in Claims : made[x] <= made'[x]
    BY <1>1 DEF VolumesInv, WorldOK
  <1>6. WorldStep  BY <1>1, <1>3, <1>4, <1>5, SnapWorld DEF VolumesInv
  <1>7. \/ Advance(c, th[c]) /\ results' = results
        \/ Return(c, "error")
    BY DEF DeleteCsiSnapshot, Fails
  <1> QED  BY <1>6, <1>7, AdvanceMoves, ReturnMoves, CallerNow

\* A claim is restored from a snapshot of its own, which the claim it is mapped to shows.
LEMMA RestoreStep ==
    ASSUME VolumesInv, NEW c \in Callers, UNCHANGED ctx, restoreCsiSnapshot(c)
    PROVE  WorldStep /\ Moves(c)
  <1>1. PICK cl \in Claims : cl = Here(c).cl
    BY VisitedClaim DEF restoreCsiSnapshot, Visiting
  <1>2. UNCHANGED <<claim, storage, launchers, snaps, made, acked>>  BY DEF restoreCsiSnapshot
  <1>3. faults' = faults \/ (faults < MaxFaults /\ faults' = faults + 1)
    BY DEF restoreCsiSnapshot, Fails
  <1>4. restored \in [Claims -> RestoredRecord(Claims)]  BY DEF VolumesInv, WorldOK
  <1>5. restored' = restored \/ restored' = [restored EXCEPT ![cl] = [phase |-> "pending", src |-> cl]]
    BY <1>1 DEF restoreCsiSnapshot, SnapshotsToRestore, GetCsiSnapshots
  <1>6. WorldStep
    <2>1. CASE restored' = restored  BY <1>2, <1>3, <2>1, QuietStep DEF apiVars
    <2>2. CASE restored' = [restored EXCEPT ![cl] = [phase |-> "pending", src |-> cl]]
      <3>1. faults' \in 0 .. MaxFaults  BY <1>3, FaultsCounted DEF VolumesInv
      <3> QED  BY <1>2, <2>2, <3>1, RestoredWorld DEF VolumesInv
    <2> QED  BY <1>5, <2>1, <2>2
  <1>7. ThreadOK(Claims, PureVolumes, claim', restored', th[c])  BY <1>6, CallerNow
  <1>8. Head(th[c].script) = "RestoreCsiSnap" /\ Head(th[c].todo) \in DOMAIN th[c].list
    BY DEF restoreCsiSnapshot, Visiting, Op, Here
  <1>9. CASE RestoreSkipped(c)
    <2>1. \/ Return(c, "panic")
          \/ /\ th[c].res # NoClaim /\ results' = results
             /\ Advance(c, Found(c, [cl |-> cl, from |-> th[c].res]))
      BY <1>1, <1>9 DEF RestoreSkipped
    <2>2. PureVolumes  BY <1>9 DEF RestoreSkipped, CsiOkay, filterPureTypeVolumeIfEnabled
    <2>3. ASSUME th[c].res # NoClaim
          PROVE  ThreadOK(Claims, PureVolumes, claim', restored',
                          Found(c, [cl |-> cl, from |-> th[c].res]))
      <3>1. PICK from \in Claims : from = th[c].res  BY <1>7, <2>3 DEF ThreadOK
      <3> DEFINE item == [cl |-> cl, from |-> from]
      <3>2. item \in [cl : Claims, from : Claims]  OBVIOUS
      <3> HIDE DEF item
      <3>3. ThreadOK(Claims, PureVolumes, claim', restored', Found(c, item))
        BY <1>7, <1>8, <2>2, <3>2, FoundOK DEF Found
      <3> QED  BY <3>1, <3>3 DEF item
    <2> QED  BY <1>6, <2>1, <2>3, AdvanceMoves, ReturnMoves
  <1>10. CASE \E sn : /\ restored' = [restored EXCEPT ![cl] = [phase |-> "pending", src |-> cl]]
                      /\ th' = [th EXCEPT ![c].pc = "restore", ![c].snap = sn]
                      /\ results' = results
    <2>1. PICK sn : /\ restored' = [restored EXCEPT ![cl] = [phase |-> "pending", src |-> cl]]
                    /\ th' = [th EXCEPT ![c].pc = "restore", ![c].snap = sn]
                    /\ results' = results
      BY <1>10
    <2>2. th' = [th EXCEPT ![c] = [th[c] EXCEPT !.pc = "restore", !.snap = sn]]
      <3>1. th = [d \in Callers |-> th[d]] /\ IsThread(th[c])
        BY DEF VolumesInv, CallersOK, ThreadOK
      <3> QED  BY <2>1, <3>1
    <2>3. restored'[cl].phase = "pending"  BY <1>4, <2>1
    <2>4. Head(th[c].todo).cl = cl  BY <1>1 DEF Here
    <2>5. ThreadOK(Claims, PureVolumes, claim', restored',
                   [th[c] EXCEPT !.pc = "restore", !.snap = sn])
      BY <1>7, <1>8, <2>3, <2>4, WaitOK
    <2> QED  BY <1>6, <2>1, <2>2, <2>5, BecomesMoves
  <1>11. CASE Return(c, "error")  BY <1>6, <1>11, ReturnMoves
  <1>12. \/ RestoreSkipped(c) \/ Return(c, "error")
         \/ \E sn : /\ restored' = [restored EXCEPT ![cl] = [phase |-> "pending", src |-> cl]]
                    /\ th' = [th EXCEPT ![c].pc = "restore", ![c].snap = sn]
                    /\ results' = results
    BY <1>1 DEF restoreCsiSnapshot, SnapshotsToRestore, GetCsiSnapshots, Fails
  <1> QED  BY <1>9, <1>10, <1>11, <1>12

LEMMA RestoreChecked ==
    ASSUME VolumesInv, NEW c \in Callers, UNCHANGED ctx, ValidateCsiRestore(c)
    PROVE  WorldStep /\ Moves(c)
  <1>1. WorldStep  BY QuietStep DEF ValidateCsiRestore
  <1>2. ThreadOK(Claims, PureVolumes, claim', restored', th[c])  BY <1>1, CallerNow
  <1>3. th[c].pc = "restore"  BY DEF ValidateCsiRestore
  <1>4. ThreadOK(Claims, PureVolumes, claim, restored, th[c])  BY DEF VolumesInv, CallersOK
  <1>5. PICK cl \in Claims : cl = Here(c).cl  BY <1>3, <1>4 DEF ThreadOK, Here
  <1>6. Head(th[c].script) = "RestoreCsiSnap" /\ restored[cl].phase # "absent"
    BY <1>3, <1>4, <1>5 DEF ThreadOK, Here
  <1>7. restored[cl].src = cl  BY <1>6 DEF VolumesInv, WorldOK
  <1> DEFINE item == [cl |-> cl, from |-> cl]
  <1>8. item \in [cl : Claims, from : Claims] /\ item.from = item.cl  OBVIOUS
  <1> HIDE DEF item
  <1>9. ThreadOK(Claims, PureVolumes, claim', restored', Found(c, item))
    BY <1>2, <1>6, <1>8, FoundOK DEF Found
  <1> DEFINE t == Found(c, item)
  <1> HIDE DEF t
  <1>10. ThreadOK(Claims, PureVolumes, claim', restored', [t EXCEPT !.res = cl])
    <2>1. ThreadOK(Claims, PureVolumes, claim', restored', t)  BY <1>9 DEF t
    <2> DEFINE u == [t EXCEPT !.res = cl]
    <2>2. /\ IsThread(u) /\ u.pc = t.pc /\ u.script = t.script /\ u.todo = t.todo
          /\ u.list = t.list /\ u.out = t.out /\ u.res = cl
      BY <2>1 DEF ThreadOK, IsThread, Fields
    <2> HIDE DEF u
    <2>3. ThreadOK(Claims, PureVolumes, claim', restored', u)  BY <2>1, <2>2 DEF ThreadOK
    <2> QED  BY <2>3 DEF u
  <1>11. \/ Advance(c, [t EXCEPT !.res = cl]) /\ results' = results
         \/ Return(c, "error")
    BY <1>5, <1>7 DEF ValidateCsiRestore, t, item
  <1> QED  BY <1>1, <1>10, <1>11, AdvanceMoves, ReturnMoves

LEMMA ClusterSteps ==
    ASSUME VolumesInv, Cluster
    PROVE  WorldStep
  <1>1. UNCHANGED <<ctx, faults, acked>>  BY DEF Cluster
  <1>2. faults' \in 0 .. MaxFaults  BY <1>1 DEF VolumesInv, WorldOK
  <1>3. ASSUME NEW cl \in Claims, Bind(cl) PROVE WorldStep
    <2>1. claim \in [Claims -> ClaimRecord] /\ acked \in [Claims -> Nat]
      BY DEF VolumesInv, WorldOK
    <2> DEFINE now == [claim[cl] EXCEPT !.phase = "bound", !.rv = claim[cl].rv + 1]
    <2>2. claim' = [claim EXCEPT ![cl] = now]  BY <1>3, <2>1 DEF Bind, ClaimRecord
    <2>3. now \in ClaimRecord /\ now.size = claim[cl].size /\ now.rv = claim[cl].rv + 1
      <3>1. claim[cl].rv + 1 \in Nat /\ claim[cl] \in ClaimRecord  BY <2>1 DEF ClaimRecord
      <3>2. PICK k \in ClaimRecord, r \in Nat : k = claim[cl] /\ r = claim[cl].rv + 1
        BY <3>1
      <3>3. now = [k EXCEPT !.phase = "bound", !.rv = r]  BY <3>2
      <3> HIDE DEF now
      <3>4. now \in ClaimRecord /\ now.phase = "bound" /\ now.size = k.size /\ now.rv = r
        BY <3>3 DEF ClaimRecord
      <3> QED  BY <3>2, <3>4
    <2>4. claim[cl].size \in Nat /\ claim[cl].rv \in Nat  BY <2>1 DEF ClaimRecord
    <2> HIDE DEF now
    <2>5. Present(cl)  BY <1>3 DEF Bind, Present
    <2>6. acked[cl] \in Nat /\ claim[cl].size >= Fresh.size + acked[cl]
      BY <2>1, <2>5 DEF VolumesInv, WorldOK, NoLostResize
    <2>7. acked' = [acked EXCEPT ![cl] = acked[cl]]  BY <1>1, <2>1
    <2>8. now.size <= claim[cl].size /\ claim[cl].size <= now.size /\ claim[cl].rv <= now.rv
      BY <2>3, <2>4
    <2>9. UNCHANGED <<storage, launchers, snaps, made, restored>>  BY <1>3 DEF Bind
    <2> QED
      BY <1>1, <1>2, <2>2, <2>3, <2>5, <2>6, <2>7, <2>8, <2>9, ClaimWorld DEF VolumesInv
  <1>4. ASSUME NEW cl \in Claims, BindRestored(cl) PROVE WorldStep
    <2>1. restored \in [Claims -> RestoredRecord(Claims)]  BY DEF VolumesInv, WorldOK
    <2>2. restored[cl].src = cl  BY <1>4 DEF BindRestored, VolumesInv, WorldOK
    <2>3. restored' = [restored EXCEPT ![cl] = [phase |-> "bound", src |-> cl]]
      <3>1. [restored[cl] EXCEPT !.phase = "bound"] = [phase |-> "bound", src |-> cl]
        BY <2>1, <2>2, RestoredBound
      <3>2. restored' = [restored EXCEPT ![cl] = [restored[cl] EXCEPT !.phase = "bound"]]
        BY <1>4, <2>1 DEF BindRestored
      <3> QED  BY <3>1, <3>2
    <2>4. UNCHANGED <<claim, storage, launchers, snaps, made>>  BY <1>4 DEF BindRestored
    <2> QED  BY <1>1, <1>2, <2>3, <2>4, RestoredWorld DEF VolumesInv
  <1>5. ASSUME NEW s \in snaps, SnapReady(s) PROVE WorldStep
    <2>1. s \in [cl : Claims, n : Nat, ready : BOOLEAN] /\ s.n \in 1 .. made[s.cl]
      BY DEF VolumesInv, WorldOK
    <2> DEFINE r == [s EXCEPT !.ready = TRUE]
    <2>2. r \in [cl : Claims, n : Nat, ready : BOOLEAN] /\ r.cl = s.cl /\ r.n = s.n
      BY <2>1
    <2> HIDE DEF r
    <2>3. \A x \in snaps' \ snaps : x = r  BY <1>5 DEF SnapReady, r
    <2>4. PureVolumes => Backend[s.cl] = "pure_block"
      BY DEF VolumesInv, WorldOK, OnlyPureVolumes
    <2>5. UNCHANGED <<claim, storage, launchers, made, restored>>  BY <1>5 DEF SnapReady
    <2>6. made' \in [Claims -> Nat] /\ \A x \in Claims : made[x] <= made'[x]
      BY <2>5 DEF VolumesInv, WorldOK
    <2> QED
      BY <1>1, <1>2, <2>1, <2>2, <2>3, <2>4, <2>5, <2>6, SnapWorld DEF VolumesInv
  <1>6. ASSUME NEW i \in VMs, Launch(i) PROVE WorldStep
    <2>1. /\ Claims' = Claims /\ PureVolumes' = PureVolumes /\ Backend' = Backend
          /\ VMs' = VMs /\ StorageObjects' = StorageObjects /\ MaxFaults' = MaxFaults
      BY <1>1, SameContext
    <2>2. UNCHANGED <<claim, storage, snaps, made, restored>> /\ launchers' = launchers \cup {i}
      BY <1>6 DEF Launch
    <2>3. Grows(Claims, claim, claim') /\ Stays(Claims, restored, restored')
      BY <2>2, GrowsSame, StaysSame DEF VolumesInv, WorldOK
    <2>4. NoLostResize' /\ OnlyPureVolumes'
      BY <1>1, <2>1, <2>2 DEF VolumesInv, WorldOK, NoLostResize, OnlyPureVolumes, Present
    <2>5. WorldOK'  BY <1>1, <1>2, <2>1, <2>2, <2>4 DEF VolumesInv, WorldOK
    <2> QED  BY <1>1, <2>3, <2>5 DEF WorldStep
  <1> QED  BY <1>3, <1>4, <1>5, <1>6 DEF Cluster

----------------------------------------------------------------------------
\* The theorem

LEMMA VolumesInit == Init => VolumesInv
  <1> SUFFICES ASSUME Init PROVE VolumesInv  OBVIOUS
  <1>1. Fresh \in ClaimRecord /\ Fresh.size = 1  BY DEF Fresh, ClaimRecord
  <1>2. [phase |-> "absent", src |-> NoClaim] \in RestoredRecord(Claims)  BY DEF RestoredRecord
  <1>3. NoLostResize  BY <1>1 DEF Init, NoLostResize
  <1>4. OnlyPureVolumes  BY <1>1 DEF Init, OnlyPureVolumes
  <1>5. \A cl \in Claims : restored[cl].phase = "absent"  BY DEF Init
  <1>6. MaxFaults \in Nat  BY AppVolumesAssumption DEF Init, MaxFaults
  <1>7. WorldOK  BY <1>1, <1>2, <1>3, <1>4, <1>5, <1>6 DEF Init, WorldOK
  <1>8. Idle = [Idle EXCEPT !.round = 0]  BY DEF Idle
  <1>9. ThreadOK(Claims, PureVolumes, claim, restored, Idle)  BY <1>8, IdleOK
  <1>10. OutOK(Claims, PureVolumes, claim, NoResult.op, NoResult.out)
    BY EmptyOut DEF NoResult
  <1>11. \A c \in Callers : th[c] = Idle /\ results[c] = NoResult  BY DEF Init
  <1>12. th = [c \in Callers |-> th[c]] /\ results = [c \in Callers |-> results[c]]  BY DEF Init
  <1>13. CallersOK  BY <1>9, <1>10, <1>11, <1>12 DEF CallersOK
  <1> QED  BY <1>7, <1>13 DEF VolumesInv

LEMMA VolumesNext == VolumesInv /\ [Next]_vars => VolumesInv'
  <1> SUFFICES ASSUME VolumesInv, [Next]_vars PROVE VolumesInv'  OBVIOUS
  <1>1. ASSUME NEW c \in Callers, TriggerStart(c) PROVE VolumesInv'
    BY <1>1, StartStep, CallerStep
  <1>2. ASSUME NEW c \in Callers, CallStep(c) PROVE VolumesInv'
    <2>1. UNCHANGED ctx  BY <1>2 DEF CallStep
    <2>2. WorldStep /\ Moves(c)
      BY <1>2, <2>1, PlainSteps, ReadStep, CollectSteps, ResizeStep, AgainStep, DeleteStep,
         StorageStep, SnapshotStep,
         PruneStep, SnapshotGone, RestoreStep, RestoreChecked
      DEF CallStep
    <2> QED  BY <2>2, CallerStep
  <1>3. ASSUME Cluster PROVE VolumesInv'
    <2>1. UNCHANGED <<th, results>>  BY <1>3 DEF Cluster
    <2> QED  BY <1>3, <2>1, ClusterSteps, ClusterStep
  <1>4. ASSUME UNCHANGED vars PROVE VolumesInv'
    <2>1. /\ UNCHANGED <<ctx, claim, storage, launchers, snaps, made, restored, acked>>
          /\ UNCHANGED <<th, results, faults>>
      BY <1>4 DEF vars
    <2>2. faults' \in 0 .. MaxFaults  BY <2>1 DEF VolumesInv, WorldOK
    <2>3. WorldStep  BY <2>1, <2>2, QuietWorld DEF VolumesInv
    <2> QED  BY <2>1, <2>3, ClusterStep
  <1> QED  BY <1>1, <1>2, <1>3, <1>4 DEF Next

LEMMA SoundInside == VolumesInv => VolumesSound
  <1> SUFFICES ASSUME VolumesInv PROVE VolumesSound  OBVIOUS
  <1>1. ASSUME NEW c \in Callers, results[c].op = "RestoreCsiSnap",
               NEW n \in DOMAIN results[c].out
        PROVE  /\ results[c].out[n].from \in Claims
               /\ ~PureVolumes => results[c].out[n].from = results[c].out[n].cl
    <2>1. RestoredOK(Claims, PureVolumes, results[c].out)
      BY <1>1 DEF VolumesInv, CallersOK, OutOK
    <2>2. results[c].out[n] \in [cl : Claims, from : Claims]
      <3> DEFINE S == [cl : Claims, from : Claims]
      <3>1. results[c].out \in Seq(S)  BY <2>1 DEF RestoredOK
      <3> HIDE DEF S
      <3>2. results[c].out[n] \in S  BY <1>1, <3>1
      <3> QED  BY <3>2 DEF S
    <2> QED  BY <1>1, <2>1, <2>2 DEF RestoredOK
  <1>2. TypeOK
    <2>1. \A cl \in Claims :
            /\ claim[cl].phase \in {"absent", "pending", "bound"} /\ claim[cl].size \in Nat
            /\ restored[cl].phase \in {"absent", "pending", "bound"}
            /\ restored[cl].src \in Claims \cup {NoClaim}
      BY DEF VolumesInv, WorldOK, ClaimRecord, RestoredRecord
    <2>2. \A s \in snaps : s.cl \in Claims /\ s.n \in 1 .. made[s.cl]
      BY DEF VolumesInv, WorldOK
    <2>3. \A c \in Callers : th[c].pc \in {"idle", "loop", "ready", "delete", "destroy", "restore"}
      BY DEF VolumesInv, CallersOK, ThreadOK
    <2>4. /\ launchers \subseteq VMs /\ storage \subseteq StorageObjects
          /\ faults \in 0 .. MaxFaults
      BY DEF VolumesInv, WorldOK
    <2> QED  BY <1>1, <2>1, <2>2, <2>3, <2>4 DEF TypeOK
  <1>3. RequestedSizeReached
    BY DEF RequestedSizeReached, VolumesInv, CallersOK, OutOK, ResizedOK, Present
  <1>4. RestoredFromOwnSnapshot  BY <1>1 DEF RestoredFromOwnSnapshot
  <1>5. NoLostResize /\ OnlyPureVolumes  BY DEF VolumesInv, WorldOK
  <1> QED  BY <1>2, <1>3, <1>4, <1>5 DEF VolumesSound

\* Whatever triggers run on a context at the same time, however their requests fail or lose
\* their replies: ResizePVC never undoes the resize of another trigger, the sizes ResizeVolume
\* returned were reached, RestoreCsiSnapAndValidate maps each claim to one restored from its
\* own snapshot unless claims are filtered out, and volumes that are not Pure are left alone
\* when only those are asked for.
THEOREM VolumesStaySound == Spec => []VolumesSound
  BY VolumesInit, VolumesNext, SoundInside, PTL DEF Spec
=============================================================================
