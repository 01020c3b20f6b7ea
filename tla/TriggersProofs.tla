--------------------------- MODULE TriggersProofs ---------------------------
(***************************************************************************)
(* The triggers and the API server run beside the event ring: none of their *)
(* steps touches it, so what holds of the ring holds of the whole test.    *)
(***************************************************************************)
EXTENDS Triggers, EventRingProofs

(* Leaves are first-order for the most part; the others are left to SMT.    *)
USE ZenonT(10), SMTT(30)

(* Every step of the test is a step of the ring or leaves it alone: the triggers *)
(* hand their records over through recordChan only.                              *)
THEOREM TriggersUseRing == TriggersSpec => RingSpec
<1>1. TriggersInit => Init
  BY DEF TriggersInit
<1>2. [TriggersNext]_allVars => [RingNext]_vars
  <2> SUFFICES ASSUME [TriggersNext]_allVars PROVE [RingNext]_vars
    OBVIOUS
  <2>1. ASSUME NEW c \in Callers, Thread(c) PROVE UNCHANGED vars
    BY <2>1 DEF Thread
  <2>2. ASSUME NEW n \in Nodes, Settles(n) PROVE UNCHANGED vars
    BY <2>2 DEF Settles
  <2>3. ASSUME NEW v \in DOMAIN vol, Resync(v) PROVE UNCHANGED vars
    BY <2>3 DEF Resync
  <2>4. ASSUME Ring PROVE RingNext
    BY <2>4 DEF Ring
  <2>5. CASE UNCHANGED allVars
    BY <2>5 DEF allVars
  <2> QED
    BY <2>1, <2>2, <2>3, <2>4, <2>5 DEF TriggersNext
<1> QED
  BY <1>1, <1>2, PTL DEF TriggersSpec, RingSpec

(* The records that the triggers send reach the ring and leave it into an email  *)
(* or because N later records came, as long as the email report never overlaps   *)
(* the collector.                                                                *)
THEOREM NoRecordLost == TriggersSpec => []NoLossWithoutOverlap
  BY TriggersUseRing, RingKeepsRecords, PTL

(* The email reports of the test hold every record once and in order, as long as *)
(* the report never overlaps the collector.                                      *)
THEOREM RecordsInOrder == TriggersSpec => []ReportedOnceInOrder
  BY TriggersUseRing, RingKeepsOrder, PTL
=============================================================================
