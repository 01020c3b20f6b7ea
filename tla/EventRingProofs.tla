-------------------------- MODULE EventRingProofs --------------------------
(***************************************************************************)
(* Proofs about the event ring, for every length of the ring and every     *)
(* number of records and reports.  While the collector and the report do   *)
(* not overlap, record r is in element (r - 1) % N: the collector moves    *)
(* eventRing by one for each record, and a report turns it once around.    *)
(***************************************************************************)
EXTENDS EventRing, TLAPS

(* Leaves are first-order for the most part; the others are left to SMT.    *)
USE ZenonT(10), SMTT(30)

Slot(k) == k % N

(* Division with remainder is unique.  Used for the elements of the ring. *)
LEMMA ModUnique ==
    ASSUME NEW a \in Int, NEW q \in Int, NEW m \in 0 .. N - 1, a = N * q + m
    PROVE  a % N = m
<1> DEFINE p == a \div N
           d == q - p
<1>1. p \in Int /\ a % N \in 0 .. N - 1 /\ a = N * p + (a % N)
  BY EventRingAssumption, SMT
<1> HIDE DEF p
<1>2. d \in Int /\ N * d = (a % N) - m
  BY <1>1, EventRingAssumption, SMT
<1> HIDE DEF d
<1>3. d >= 1 => N * d >= N
  BY <1>2, EventRingAssumption, SMT
<1>4. d <= -1 => N * d <= -N
  BY <1>2, EventRingAssumption, SMT
<1>5. d = 0
  BY <1>1, <1>2, <1>3, <1>4, EventRingAssumption, SMT
<1> QED
  BY <1>1, <1>2, <1>5, EventRingAssumption, SMT

(* N elements further is the same element of the ring. *)
LEMMA ModPlus == ASSUME NEW a \in Int PROVE (a + N) % N = a % N
<1> DEFINE p == a \div N
<1>1. p \in Int /\ a % N \in 0 .. N - 1 /\ a = N * p + (a % N)
  BY EventRingAssumption, SMT
<1> HIDE DEF p
<1>2. a + N \in Int /\ p + 1 \in Int /\ a + N = N * (p + 1) + (a % N)
  BY <1>1, EventRingAssumption, SMT
<1> QED
  BY <1>1, <1>2, ModUnique, Zenon

(* The next element, computed in the ring or before the remainder is taken. *)
LEMMA ModNext == ASSUME NEW a \in Int PROVE ((a % N) + 1) % N = (a + 1) % N
<1> DEFINE p == a \div N
           m == a % N
<1>1. p \in Int /\ m \in 0 .. N - 1 /\ a = N * p + m
  BY EventRingAssumption, SMT
<1> HIDE DEF p, m
<1>2. CASE m + 1 = N
  <2>1. m + 1 \in Int /\ 1 \in Int /\ 0 \in 0 .. N - 1 /\ m + 1 = N * 1 + 0
    BY <1>1, <1>2, EventRingAssumption, SMT
  <2>2. a + 1 \in Int /\ p + 1 \in Int /\ a + 1 = N * (p + 1) + 0
    BY <1>1, <1>2, EventRingAssumption, SMT
  <2>3. (m + 1) % N = 0 /\ (a + 1) % N = 0
    BY <2>1, <2>2, ModUnique, Zenon
  <2> QED
    BY <2>3 DEF m
<1>3. CASE m + 1 # N
  <2>1. /\ m + 1 \in 0 .. N - 1 /\ m + 1 \in Int /\ 0 \in Int /\ m + 1 = N * 0 + (m + 1)
        /\ a + 1 \in Int /\ a + 1 = N * p + (m + 1)
    BY <1>1, <1>3, EventRingAssumption, SMT
  <2>2. (m + 1) % N = m + 1 /\ (a + 1) % N = m + 1
    BY <1>1, <2>1, ModUnique, Zenon
  <2> QED
    BY <2>2 DEF m
<1> QED
  BY <1>2, <1>3

(* Two of N + 1 successive numbers that fall on one element are the first and *)
(* the last. *)
LEMMA ModInj ==
    ASSUME NEW a \in Int, NEW b \in Int, a % N = b % N, 0 < a - b, a - b <= N
    PROVE  a = b + N
<1> DEFINE p == a \div N
           q == b \div N
           d == p - q
<1>1. /\ p \in Int /\ a = N * p + (a % N) /\ a % N \in Int
      /\ q \in Int /\ b = N * q + (b % N)
  BY EventRingAssumption, SMT
<1> HIDE DEF p, q
<1>2. d \in Int /\ N * d = a - b
  BY <1>1, EventRingAssumption, SMT
<1> HIDE DEF d
<1>3. d >= 2 => N * d >= 2 * N
  BY <1>2, EventRingAssumption, SMT
<1>4. d <= 0 => N * d <= 0
  BY <1>2, EventRingAssumption, SMT
<1>5. d = 1
  BY <1>2, <1>3, <1>4, EventRingAssumption, SMT
<1> QED
  BY <1>2, <1>5, EventRingAssumption, SMT

(* The facts about elements of the ring that the proofs below use. *)
LEMMA SlotFacts ==
    ASSUME NEW a \in Int
    PROVE  /\ Slot(a) \in Slots
           /\ Slot(a + N) = Slot(a)
           /\ NextSlot(Slot(a)) = Slot(a + 1)
<1>1. a % N \in 0 .. N - 1
  BY EventRingAssumption, SMT
<1> QED
  BY <1>1, ModPlus, ModNext DEF Slot, Slots, NextSlot

LEMMA SlotInj ==
    ASSUME NEW a \in Int, NEW b \in Int, Slot(a) = Slot(b), 0 < a - b, a - b <= N
    PROVE  a = b + N
  BY ModInj DEF Slot

-----------------------------------------------------------------------------
(* The invariants *)

InBody == epc \in {"load", "read", "loadClear", "clear", "loadNext", "advance"}

\* What holds of the two loops under every interleaving.
Ready ==
    /\ cpc \in {"new", "receive", "load", "store", "loadNext", "advance"}
    /\ epc \in {"idle", "send"} \/ epc = "test" \/ InBody
    /\ cpc = "new" <=> eventRing = NoRing
    /\ cpc = "new" => collected = 0
    /\ Collecting => collected >= 1
    /\ InBody => cpc # "new" /\ i < N
    /\ cpc \in {"store", "advance"} => cptr \in Slots
    /\ epc \in {"read", "clear", "advance"} => eptr \in Slots
    /\ epc = "idle" => mail = <<>>

\* The records the collector has put into the ring, and those it has left behind.
LastStored == IF cpc \in {"load", "store"} THEN collected - 1 ELSE collected
Passed == IF Collecting THEN collected - 1 ELSE collected

\* The elements a report has been through.
Seen == IF epc \in {"loadNext", "advance"} THEN i + 1
        ELSE IF Reporting THEN i
        ELSE 0

\* Where the loops are, while they have not overlapped.
Aligned ==
    /\ ~(Collecting /\ Reporting)
    /\ epc \in {"idle", "send"} => i \in {0, N}
    /\ cpc # "new" => eventRing = Slot(Passed + i)
    /\ cpc = "new" => i = 0
    /\ cpc \in {"store", "advance"} => cptr = eventRing
    /\ epc \in {"read", "clear", "advance"} => eptr = eventRing

\* A buffered record is one of the last N, in the element of its number, and not
\* in an element the report has been through.
Placed ==
    \A s \in Slots : value[s] # Nil =>
        /\ s = Slot(value[s] - 1)
        /\ value[s] <= LastStored
        /\ value[s] > LastStored - N + Seen

\* One of the last N records is still in its element or was mailed.
KeptRecords ==
    /\ \A r \in 1 .. LastStored : r > LastStored - N => r \in Mailed \/ value[Slot(r - 1)] = r
    /\ epc \in {"loadClear", "clear"} => value[eventRing] \in Range(mail)

\* Mailed records are in order, stored, and older than every buffered one but the
\* one that is about to be cleared.
All == reported \o mail
Ordered ==
    /\ \A j, k \in DOMAIN All : j < k => All[j] < All[k]
    /\ \A j \in DOMAIN All : All[j] <= LastStored
    /\ \A j \in DOMAIN All, s \in Slots : value[s] # Nil =>
          All[j] < value[s] \/ (epc \in {"loadClear", "clear"} /\ s = eventRing /\ All[j] <= value[s])

RingInv == TypeOK /\ Ready /\ (~overlapped => Aligned /\ Placed /\ KeptRecords /\ Ordered)

-----------------------------------------------------------------------------
(* Types and control, under every interleaving *)

(* Lists of records, whatever their set is: what append and SendEmail make. *)
LEMMA NoRecords == ASSUME NEW S PROVE <<>> \in Seq(S)
  OBVIOUS

LEMMA RecordLists ==
    ASSUME NEW S, NEW s \in Seq(S), NEW t \in Seq(S), NEW r \in S
    PROVE  Append(s, r) \in Seq(S) /\ s \o t \in Seq(S)
  OBVIOUS

LEMMA RingInit == Init => RingInv
<1> SUFFICES ASSUME Init PROVE RingInv
  OBVIOUS
<1>1. N \in Nat \ {0} /\ MaxRecords \in Nat /\ MaxEmails \in Nat
  BY EventRingAssumption
<1>2. TypeOK
  <2>1. value \in [Slots -> 0 .. collected] /\ collected \in 0 .. MaxRecords /\ i \in 0 .. N /\ emails \in 0 .. MaxEmails
    BY <1>1 DEF Init, Nil
  <2>2. mail \in Seq(1 .. collected) /\ reported \in Seq(1 .. collected)
    BY NoRecords DEF Init
  <2> QED
    BY <2>1, <2>2 DEF Init, TypeOK
<1>3. Ready
  BY <1>1 DEF Init, Ready, InBody, Collecting, NoRing, Slots
<1>4. Aligned /\ Placed
  BY <1>1 DEF Init, Aligned, Placed, Collecting, Reporting, NoRing, Nil
<1>5. KeptRecords
  BY <1>1 DEF Init, KeptRecords, LastStored
<1>6. All = <<>>
  BY DEF Init, All
<1>7. Ordered
  BY <1>6 DEF Ordered
<1> QED
  BY <1>2, <1>3, <1>4, <1>5, <1>7 DEF RingInv

LEMMA TypeStep ==
    ASSUME TypeOK, Ready, RingNext
    PROVE  TypeOK' /\ Ready'
<1>1. N \in Nat \ {0} /\ MaxRecords \in Nat /\ MaxEmails \in Nat
  BY EventRingAssumption
<1>2. overlapped' \in BOOLEAN
  BY DEF RingNext, TypeOK
<1>3. \A a \in Slots : NextSlot(a) \in Slots /\ NextSlot(a) # NoRing
  BY <1>1 DEF Slots, NextSlot, NoRing
<1>4. CASE NewRing
  BY <1>1, <1>2, <1>4 DEF NewRing, TypeOK, Ready, InBody, Collecting, reporterVars, Slots, NoRing, Nil
<1>5. CASE Receive
  <2>1. /\ collected \in Nat /\ collected' = collected + 1 /\ collected' \in 0 .. MaxRecords
        /\ UNCHANGED <<eventRing, value, cptr, epc, eptr, i, mail, emails, reported, dropped>>
        /\ cpc' = "load" /\ cpc = "receive"
    BY <1>1, <1>5 DEF Receive, TypeOK, reporterVars
  <2>2. 1 .. collected \subseteq 1 .. collected' /\ 0 .. collected \subseteq 0 .. collected'
    BY <2>1
  <2>3. mail' \in Seq(1 .. collected') /\ reported' \in Seq(1 .. collected')
    BY <2>1, <2>2 DEF TypeOK
  <2>4. value' \in [Slots -> 0 .. collected'] /\ dropped' \subseteq 1 .. collected'
    BY <2>1, <2>2 DEF TypeOK
  <2> QED
    BY <1>1, <1>2, <2>1, <2>3, <2>4 DEF TypeOK, Ready, InBody, Collecting
<1>6. CASE LoadToStore
  BY <1>1, <1>2, <1>6 DEF LoadToStore, TypeOK, Ready, InBody, Collecting, reporterVars
<1>7. CASE Store
  BY <1>1, <1>2, <1>7 DEF Store, TypeOK, Ready, InBody, Collecting, reporterVars
<1>8. CASE LoadToAdvance
  BY <1>1, <1>2, <1>8 DEF LoadToAdvance, TypeOK, Ready, InBody, Collecting, reporterVars
<1>9. CASE Advance
  BY <1>1, <1>2, <1>3, <1>9 DEF Advance, TypeOK, Ready, InBody, Collecting, reporterVars
<1>10. CASE StartReport
  BY <1>1, <1>2, <1>10 DEF StartReport, TypeOK, Ready, InBody, Collecting, collectorVars
<1>11. CASE TestLen
  BY <1>1, <1>2, <1>11 DEF TestLen, TypeOK, Ready, InBody, Collecting, collectorVars, RingLen, NoRing
<1>12. CASE LoadToRead \/ LoadToClear \/ LoadToMove
  BY <1>1, <1>2, <1>12 DEF LoadToRead, LoadToClear, LoadToMove, TypeOK, Ready, InBody, Collecting, collectorVars
<1>13. CASE ReadValue
  <2>1. value[eptr] # Nil => value[eptr] \in 1 .. collected
    BY <1>13 DEF ReadValue, TypeOK, Ready, Nil
  <2>2. mail' \in Seq(1 .. collected')
    BY <1>13, <2>1, RecordLists DEF ReadValue, TypeOK, collectorVars
  <2> QED
    BY <1>1, <1>2, <1>13, <2>2 DEF ReadValue, TypeOK, Ready, InBody, Collecting, collectorVars
<1>14. CASE Clear
  BY <1>1, <1>2, <1>14 DEF Clear, TypeOK, Ready, InBody, Collecting, collectorVars, Nil
<1>15. CASE Move
  BY <1>1, <1>2, <1>3, <1>15 DEF Move, TypeOK, Ready, InBody, Collecting, collectorVars
<1>16. CASE SendEmail
  <2> DEFINE S == 1 .. collected
  <2>0. mail \in Seq(S) /\ reported \in Seq(S)
    BY DEF TypeOK
  <2> HIDE DEF S
  <2>4. <<>> \in Seq(S) /\ reported \o mail \in Seq(S)
    BY <2>0
  <2>1. mail' \in Seq(1 .. collected') /\ reported' \in Seq(1 .. collected')
    BY <1>16, <2>0, <2>4 DEF SendEmail, collectorVars, S
  <2>2. Range(mail) \subseteq 1 .. collected
    BY DEF TypeOK, Range
  <2>3. dropped' \subseteq 1 .. collected'
    BY <1>16, <2>2 DEF SendEmail, TypeOK, collectorVars
  <2> QED
    BY <1>1, <1>2, <1>16, <2>1, <2>3 DEF SendEmail, TypeOK, Ready, InBody, Collecting, collectorVars
<1> QED
  BY <1>4, <1>5, <1>6, <1>7, <1>8, <1>9, <1>10, <1>11, <1>12, <1>13, <1>14, <1>15, <1>16
     DEF RingNext, Collector, Reporter

-----------------------------------------------------------------------------
(* The loops, while they do not overlap *)

LEMMA AlignedStep ==
    ASSUME TypeOK, Ready, Aligned, RingNext, ~(Collecting' /\ Reporting')
    PROVE  Aligned'
<1>1. N \in Nat \ {0} /\ collected \in Nat /\ i \in Nat /\ i <= N /\ Passed \in Nat
  BY EventRingAssumption DEF TypeOK, Ready, Passed
<1>2. \A a \in Int : Slot(a + N) = Slot(a) /\ NextSlot(Slot(a)) = Slot(a + 1)
  BY SlotFacts
<1>3. Collecting => i \in {0, N}
  BY DEF Aligned, Ready, InBody, Reporting
<1>4. CASE NewRing
  <2>1. Slot(0) = 0
    BY <1>1, SMT DEF Slot
  <2>2. Passed' = 0 /\ i' = 0
    BY <1>4 DEF NewRing, reporterVars, Ready, Aligned, Passed, Collecting
  <2>3. 0 + 0 = 0
    OBVIOUS
  <2> QED
    BY <1>1, <1>4, <2>1, <2>2, <2>3 DEF NewRing, reporterVars, Ready, Aligned, InBody, Reporting, Collecting
<1>5. CASE Receive
  <2>1. Passed' = Passed
    BY <1>1, <1>5 DEF Receive, Passed, Collecting
  <2> QED
    BY <1>5, <2>1 DEF Receive, reporterVars, Aligned
<1>6. CASE LoadToStore \/ LoadToAdvance
  <2>1. Passed' = Passed
    BY <1>6 DEF LoadToStore, LoadToAdvance, Passed, Collecting
  <2> QED
    BY <1>6, <2>1 DEF LoadToStore, LoadToAdvance, reporterVars, Aligned
<1>7. CASE Store
  <2>1. Passed' = Passed
    BY <1>7 DEF Store, Passed, Collecting
  <2> QED
    BY <1>7, <2>1 DEF Store, reporterVars, Aligned
<1>8. CASE Advance
  <2>1. Passed = collected - 1 /\ Passed' = collected
    BY <1>8 DEF Advance, Passed, Collecting
  <2>2. eventRing' = NextSlot(Slot(Passed + i))
    BY <1>8 DEF Advance, Aligned
  <2>3. eventRing' = Slot(Passed + i + 1)
    BY <1>1, <1>2, <2>2
  <2>4. Passed + i + 1 = Passed' + i'
    BY <1>1, <1>8, <2>1 DEF Advance, reporterVars
  <2> QED
    BY <1>8, <2>3, <2>4 DEF Advance, reporterVars, Aligned, Collecting, Reporting
<1>9. CASE StartReport
  <2>1. i' = 0 /\ Passed' = Passed
    BY <1>9 DEF StartReport, collectorVars, Passed, Collecting
  <2>2. i \in {0, N}
    BY <1>9 DEF StartReport, Aligned
  <2>3. Slot(Passed + i) = Slot(Passed' + i')
    BY <1>1, <1>2, <2>1, <2>2
  <2> QED
    BY <1>9, <2>1, <2>3 DEF StartReport, collectorVars, Aligned
<1>10. CASE TestLen
  <2>1. Passed' = Passed
    BY <1>10 DEF TestLen, collectorVars, Passed, Collecting
  <2>2. epc' = "send" => i \in {0, N}
    BY <1>1, <1>10 DEF TestLen, RingLen, Ready, Aligned
  <2> QED
    BY <1>10, <2>1, <2>2 DEF TestLen, collectorVars, Aligned
<1>11. CASE LoadToRead \/ LoadToClear \/ LoadToMove
  <2>1. Passed' = Passed
    BY <1>11 DEF LoadToRead, LoadToClear, LoadToMove, collectorVars, Passed, Collecting
  <2> QED
    BY <1>11, <2>1 DEF LoadToRead, LoadToClear, LoadToMove, collectorVars, Aligned
<1>12. CASE ReadValue \/ Clear \/ SendEmail
  <2>1. Passed' = Passed
    BY <1>12 DEF ReadValue, Clear, SendEmail, collectorVars, Passed, Collecting
  <2> QED
    BY <1>12, <2>1 DEF ReadValue, Clear, SendEmail, collectorVars, Aligned
<1>13. CASE Move
  <2>1. Passed' = Passed /\ i' = i + 1 /\ cpc # "new"
    BY <1>13 DEF Move, collectorVars, Passed, Collecting, Ready, InBody
  <2>2. eventRing' = NextSlot(Slot(Passed + i))
    BY <1>13, <2>1 DEF Move, Aligned
  <2>3. eventRing' = Slot(Passed + i + 1) /\ Passed + i + 1 = Passed' + i'
    BY <1>1, <1>2, <2>1, <2>2
  <2> QED
    BY <1>13, <2>1, <2>3 DEF Move, collectorVars, Aligned, Collecting, Reporting
<1> QED
  BY <1>4, <1>5, <1>6, <1>7, <1>8, <1>9, <1>10, <1>11, <1>12, <1>13 DEF RingNext, Collector, Reporter

(* The element a report looks at holds the oldest record that can still be      *)
(* buffered, or none.                                                           *)
LEMMA Oldest ==
    ASSUME TypeOK, Ready, Aligned, Placed, Reporting, cpc # "new", Seen = i,
           NEW s \in Slots, value[s] # Nil
    PROVE  s = eventRing <=> value[s] = LastStored - N + i + 1
<1>1. N \in Nat \ {0} /\ collected \in Nat /\ i \in Nat /\ i <= N /\ value[s] \in Nat
  BY EventRingAssumption DEF TypeOK
<1>2. LastStored = collected /\ Passed = collected
  BY DEF LastStored, Passed, Aligned, Collecting
<1>3. /\ eventRing = Slot(collected + i) /\ s = Slot(value[s] - 1)
      /\ value[s] <= collected /\ value[s] > collected - N + i
  BY <1>2 DEF Aligned, Placed
<1>4. ASSUME s = eventRing PROVE value[s] = collected - N + i + 1
  <2>1. Slot(collected + i) = Slot(value[s] - 1)
    BY <1>3, <1>4
  <2>2. 0 < (collected + i) - (value[s] - 1) /\ (collected + i) - (value[s] - 1) <= N
    BY <1>1, <1>3
  <2>3. collected + i = (value[s] - 1) + N
    BY <1>1, <2>1, <2>2, SlotInj
  <2> QED
    BY <1>1, <2>3
<1>5. ASSUME value[s] = collected - N + i + 1 PROVE s = eventRing
  <2>1. (value[s] - 1) + N = collected + i
    BY <1>1, <1>5
  <2> QED
    BY <1>1, <1>3, <2>1, SlotFacts
<1> QED
  BY <1>2, <1>4, <1>5

(* The element the collector stores a record in, and which record was there. *)
LEMMA Newest ==
    ASSUME TypeOK, Ready, Aligned, cpc = "store", NEW r \in Int
    PROVE  /\ cptr = Slot(collected - 1) /\ cptr \in Slots
           /\ Slot(r - 1) = cptr /\ r < collected => r <= collected - N
           /\ r = collected - N => Slot(r - 1) = cptr
<1>1. N \in Nat \ {0} /\ collected \in Nat /\ i \in Nat
  BY EventRingAssumption DEF TypeOK
<1>2. i \in {0, N} /\ Passed = collected - 1 /\ cptr = Slot(Passed + i)
  BY DEF Aligned, Ready, InBody, Reporting, Collecting, Passed
<1>3. cptr = Slot(collected - 1) /\ cptr \in Slots
  BY <1>1, <1>2, SlotFacts
<1>4. ASSUME Slot(r - 1) = cptr, r < collected PROVE r <= collected - N
  <2>1. SUFFICES ASSUME r > collected - N PROVE FALSE
    BY <1>1
  <2>2. Slot(collected - 1) = Slot(r - 1) /\ 0 < (collected - 1) - (r - 1) /\ (collected - 1) - (r - 1) <= N
    BY <1>1, <1>3, <1>4, <2>1
  <2>3. collected - 1 = (r - 1) + N
    BY <1>1, <2>2, SlotInj
  <2> QED
    BY <1>1, <2>1, <2>3
<1>5. ASSUME r = collected - N PROVE Slot(r - 1) = cptr
  <2>1. (r - 1) + N = collected - 1
    BY <1>1, <1>5
  <2> QED
    BY <1>1, <1>3, <2>1, SlotFacts
<1> QED
  BY <1>3, <1>4, <1>5

LEMMA PlacedStep ==
    ASSUME TypeOK, Ready, Aligned, Placed, RingNext, ~(Collecting' /\ Reporting')
    PROVE  Placed'
<1>1. N \in Nat \ {0} /\ collected \in Nat /\ i \in Nat /\ i <= N
  BY EventRingAssumption DEF TypeOK
<1>2. \A s \in Slots : value[s] \in Nat
  BY <1>1 DEF TypeOK
<1>3. CASE NewRing
  BY <1>3 DEF NewRing, Placed, Nil
<1>4. CASE Receive \/ LoadToStore \/ LoadToAdvance \/ Advance
  <2>1. LastStored' = LastStored /\ Seen' = Seen /\ value' = value
    BY <1>1, <1>4 DEF Receive, LoadToStore, LoadToAdvance, Advance, LastStored, Seen, Reporting, reporterVars
  <2> QED
    BY <2>1 DEF Placed
<1>5. CASE Store
  <2>1. LastStored = collected - 1 /\ LastStored' = collected /\ Seen = 0 /\ Seen' = 0
    BY <1>5 DEF Store, LastStored, Seen, Aligned, Ready, Collecting, Reporting, reporterVars
  <2>2. cptr = Slot(collected - 1) /\ cptr \in Slots /\ cpc = "store"
    BY <1>1, <1>5, Newest DEF Store
  <2>3. value'[cptr] = collected /\ \A s \in Slots \ {cptr} : value'[s] = value[s]
    BY <1>5, <2>2 DEF Store, TypeOK
  <2>4. ASSUME NEW s \in Slots \ {cptr}, value[s] # Nil
        PROVE  s = Slot(value[s] - 1) /\ value[s] <= collected /\ value[s] > collected - N
    <3>1. s = Slot(value[s] - 1) /\ value[s] <= collected - 1 /\ value[s] > collected - 1 - N
      BY <1>1, <1>2, <2>1, <2>4 DEF Placed
    <3>2. value[s] # collected - N
      BY <1>2, <2>2, <2>4, <3>1, Newest
    <3> QED
      BY <1>1, <1>2, <3>1, <3>2
  <2> QED
    BY <1>1, <2>1, <2>2, <2>3, <2>4 DEF Placed
<1>6. CASE StartReport \/ TestLen \/ LoadToRead \/ LoadToClear \/ LoadToMove \/ SendEmail
  <2>1. LastStored' = LastStored /\ value' = value
    BY <1>6 DEF StartReport, TestLen, LoadToRead, LoadToClear, LoadToMove, SendEmail, collectorVars, LastStored
  <2>2. Seen' \in Nat /\ Seen \in Nat /\ Seen' <= Seen
    BY <1>1, <1>6 DEF StartReport, TestLen, LoadToRead, LoadToClear, LoadToMove, SendEmail, Seen, Reporting
  <2>3. LastStored \in Int
    BY <1>1 DEF LastStored
  <2> QED
    BY <1>1, <1>2, <2>1, <2>2, <2>3 DEF Placed
<1>7. CASE ReadValue \/ Clear
  <2>1. /\ LastStored' = LastStored /\ LastStored \in Int
        /\ Reporting /\ cpc # "new" /\ Seen = i /\ eptr = eventRing /\ eventRing \in Slots
    BY <1>1, <1>7 DEF ReadValue, Clear, collectorVars, LastStored, Reporting, Seen, Ready, InBody, Aligned
  <2>2. \A s \in Slots : value'[s] # Nil => value'[s] = value[s]
    BY <1>7, <2>1 DEF ReadValue, Clear, TypeOK, Nil
  <2>3. Seen' = i \/ (Seen' = i + 1 /\ value'[eventRing] = Nil)
    BY <1>7, <2>1 DEF ReadValue, Clear, TypeOK, Seen, Reporting
  <2>4. ASSUME NEW s \in Slots, value'[s] # Nil PROVE value[s] > LastStored - N + Seen'
    <3>1. value[s] # Nil /\ value[s] > LastStored - N + i
      BY <2>1, <2>2, <2>4 DEF Placed
    <3>2. s = eventRing <=> value[s] = LastStored - N + i + 1
      BY <2>1, <3>1, Oldest
    <3> QED
      BY <1>1, <1>2, <2>1, <2>3, <2>4, <3>1, <3>2
  <2> QED
    BY <2>1, <2>2, <2>4 DEF Placed
<1>8. CASE Move
  <2>1. LastStored' = LastStored /\ value' = value /\ Seen' = Seen
    BY <1>1, <1>8 DEF Move, collectorVars, LastStored, Seen, Reporting
  <2> QED
    BY <2>1 DEF Placed
<1> QED
  BY <1>3, <1>4, <1>5, <1>6, <1>7, <1>8 DEF RingNext, Collector, Reporter

(* The records of the lists that append and SendEmail make. *)
LEMMA ListSets ==
    ASSUME NEW S, NEW s \in Seq(S), NEW t \in Seq(S), NEW r \in S
    PROVE  Range(Append(s, r)) = Range(s) \cup {r} /\ Range(s \o t) = Range(s) \cup Range(t) /\ Range(<<>>) = {}
<1>1. Range(Append(s, r)) = Range(s) \cup {r}
  <2>1. /\ DOMAIN Append(s, r) = 1 .. Len(s) + 1 /\ DOMAIN s = 1 .. Len(s) /\ Len(s) \in Nat
        /\ \A j \in 1 .. Len(s) : Append(s, r)[j] = s[j]
        /\ Append(s, r)[Len(s) + 1] = r
    OBVIOUS
  <2> QED
    BY <2>1 DEF Range
<1>2. Range(s \o t) = Range(s) \cup Range(t)
  <2>1. /\ DOMAIN (s \o t) = 1 .. Len(s) + Len(t) /\ DOMAIN s = 1 .. Len(s) /\ DOMAIN t = 1 .. Len(t)
        /\ Len(s) \in Nat /\ Len(t) \in Nat
        /\ \A j \in 1 .. Len(s) : (s \o t)[j] = s[j]
        /\ \A j \in 1 .. Len(t) : (s \o t)[Len(s) + j] = t[j]
        /\ \A j \in 1 .. Len(s) + Len(t) : j > Len(s) => j - Len(s) \in 1 .. Len(t) /\ (s \o t)[j] = t[j - Len(s)]
    OBVIOUS
  <2>2. ASSUME NEW x \in Range(s \o t) PROVE x \in Range(s) \cup Range(t)
    <3>1. PICK j \in 1 .. Len(s) + Len(t) : x = (s \o t)[j]
      BY <2>1 DEF Range
    <3> QED
      BY <2>1, <3>1 DEF Range
  <2>3. ASSUME NEW x \in Range(t) PROVE x \in Range(s \o t)
    <3>1. PICK j \in 1 .. Len(t) : x = t[j]
      BY <2>1 DEF Range
    <3>2. Len(s) + j \in 1 .. Len(s) + Len(t)
      BY <2>1
    <3> QED
      BY <2>1, <3>1, <3>2 DEF Range
  <2>4. ASSUME NEW x \in Range(s) PROVE x \in Range(s \o t)
    BY <2>1 DEF Range
  <2> QED
    BY <2>2, <2>3, <2>4
<1>3. Range(<<>>) = {}
  BY DEF Range
<1> QED
  BY <1>1, <1>2, <1>3

(* A mailed record stays in the mail, or in an email that was sent or failed. *)
LEMMA MailedStep ==
    ASSUME TypeOK, Ready, RingNext
    PROVE  Mailed \subseteq Mailed' /\ (epc = "read" /\ epc' = "loadClear" => value[eptr] \in Range(mail'))
<1> DEFINE S == 1 .. collected
<1>1. mail \in Seq(S) /\ reported \in Seq(S) /\ (epc = "read" => value[eptr] \in {Nil} \cup S)
  BY DEF TypeOK, Ready, Nil
<1> HIDE DEF S
<1>2. CASE Collector
  BY <1>2 DEF Collector, NewRing, Receive, LoadToStore, Store, LoadToAdvance, Advance, reporterVars, Mailed
<1>3. CASE StartReport \/ TestLen \/ LoadToRead \/ LoadToClear \/ Clear \/ LoadToMove \/ Move
  BY <1>3 DEF StartReport, TestLen, LoadToRead, LoadToClear, Clear, LoadToMove, Move, Mailed, Ready
<1>4. CASE ReadValue
  <2>1. value[eptr] # Nil => Range(Append(mail, value[eptr])) = Range(mail) \cup {value[eptr]}
    BY <1>1, <1>4, ListSets DEF ReadValue
  <2> QED
    BY <1>4, <2>1 DEF ReadValue, Mailed
<1>5. CASE SendEmail
  <2>1. Range(reported \o mail) = Range(reported) \cup Range(mail)
    <3>1. CASE S = {}
      <4>1. mail = <<>> /\ reported = <<>>
        BY <1>1, <3>1
      <4>2. reported \o mail = <<>>
        BY <4>1
      <4> QED
        BY <4>1, <4>2 DEF Range
    <3>2. CASE \E r \in S : TRUE
      BY <1>1, <3>2, ListSets
    <3> QED
      BY <3>1, <3>2
  <2> QED
    BY <1>5, <2>1 DEF SendEmail, Mailed
<1> QED
  BY <1>2, <1>3, <1>4, <1>5 DEF RingNext, Reporter

LEMMA KeptStep ==
    ASSUME TypeOK, Ready, Aligned, Placed, KeptRecords, RingNext, ~(Collecting' /\ Reporting')
    PROVE  KeptRecords'
<1>1. N \in Nat \ {0} /\ collected \in Nat /\ Mailed \subseteq Mailed'
  BY EventRingAssumption, MailedStep DEF TypeOK
<1>2. \A a \in Int : Slot(a) \in Slots
  BY SlotFacts
<1>3. CASE NewRing
  <2>1. LastStored' = 0
    BY <1>3 DEF NewRing, LastStored, Ready
  <2> QED
    BY <1>3, <2>1 DEF NewRing, KeptRecords, Ready, InBody, reporterVars
<1>4. CASE Receive \/ LoadToStore \/ LoadToAdvance
  <2>1. LastStored' = LastStored /\ value' = value /\ Mailed' = Mailed /\ eventRing' = eventRing /\ UNCHANGED <<epc, mail>>
    BY <1>1, <1>4 DEF Receive, LoadToStore, LoadToAdvance, LastStored, reporterVars, Mailed
  <2> QED
    BY <2>1 DEF KeptRecords
<1>5. CASE Advance
  <2>1. LastStored' = LastStored /\ value' = value /\ Mailed' = Mailed /\ epc' = epc
    BY <1>1, <1>5 DEF Advance, LastStored, reporterVars, Mailed
  <2>2. epc \notin {"loadClear", "clear"}
    BY <1>5 DEF Advance, Aligned, Collecting, Reporting
  <2> QED
    BY <2>1, <2>2 DEF KeptRecords
<1>6. CASE Store
  <2>1. LastStored = collected - 1 /\ LastStored' = collected /\ Mailed' = Mailed /\ epc' = epc
        /\ epc \notin {"loadClear", "clear"}
    BY <1>6 DEF Store, LastStored, Aligned, Collecting, Reporting, reporterVars, Mailed
  <2>2. cptr = Slot(collected - 1) /\ cptr \in Slots /\ cpc = "store"
    BY <1>1, <1>6, Newest DEF Store
  <2>3. value'[cptr] = collected /\ \A s \in Slots \ {cptr} : value'[s] = value[s]
    BY <1>6, <2>2 DEF Store, TypeOK
  <2>4. ASSUME NEW r \in 1 .. collected, r > collected - N PROVE r \in Mailed \/ value'[Slot(r - 1)] = r
    <3>1. CASE r = collected
      BY <2>2, <2>3, <3>1
    <3>2. CASE r # collected
      <4>1. r \in 1 .. LastStored /\ r > LastStored - N /\ r < collected /\ r \in Int
        BY <1>1, <2>1, <2>4, <3>2
      <4>2. Slot(r - 1) # cptr /\ Slot(r - 1) \in Slots
        BY <1>1, <1>2, <2>2, <2>4, <4>1, Newest
      <4> QED
        BY <2>3, <4>1, <4>2 DEF KeptRecords
    <3> QED
      BY <3>1, <3>2
  <2> QED
    BY <2>1, <2>4 DEF KeptRecords
<1>7. CASE StartReport \/ TestLen \/ LoadToRead \/ LoadToClear \/ LoadToMove \/ Move \/ SendEmail
  <2>1. LastStored' = LastStored /\ value' = value
    BY <1>7 DEF StartReport, TestLen, LoadToRead, LoadToClear, LoadToMove, Move, SendEmail, collectorVars, LastStored
  <2>2. epc' \in {"loadClear", "clear"} => epc \in {"loadClear", "clear"} /\ UNCHANGED <<eventRing, mail>>
    BY <1>7 DEF StartReport, TestLen, LoadToRead, LoadToClear, LoadToMove, Move, SendEmail
  <2> QED
    BY <1>1, <2>1, <2>2 DEF KeptRecords
<1>8. CASE ReadValue
  <2>1. LastStored' = LastStored /\ value' = value /\ eventRing' = eventRing /\ eptr = eventRing /\ epc = "read"
    BY <1>8 DEF ReadValue, collectorVars, LastStored, Aligned
  <2>2. epc' \in {"loadClear", "clear"} => value[eptr] \in Range(mail')
    BY <1>8, <2>1, MailedStep DEF ReadValue
  <2> QED
    BY <1>1, <2>1, <2>2 DEF KeptRecords
<1>9. CASE Clear
  <2>1. LastStored' = LastStored /\ eptr = eventRing /\ epc' = "loadNext" /\ Mailed' = Mailed
        /\ value[eventRing] \in Mailed /\ eventRing \in Slots
    BY <1>9 DEF Clear, collectorVars, LastStored, Aligned, Mailed, KeptRecords, Ready
  <2>2. \A s \in Slots \ {eventRing} : value'[s] = value[s]
    BY <1>9, <2>1 DEF Clear, TypeOK
  <2>3. ASSUME NEW r \in 1 .. LastStored, r > LastStored - N PROVE r \in Mailed \/ value'[Slot(r - 1)] = r
    <3>1. r \in Mailed \/ value[Slot(r - 1)] = r
      BY <2>3 DEF KeptRecords
    <3>2. Slot(r - 1) \in Slots
      BY <1>1, <1>2 DEF LastStored
    <3> QED
      BY <2>1, <2>2, <3>1, <3>2
  <2> QED
    BY <2>1, <2>3 DEF KeptRecords
<1> QED
  BY <1>3, <1>4, <1>5, <1>6, <1>7, <1>8, <1>9 DEF RingNext, Collector, Reporter

(* A step appends the record it reads to the mailed ones, drops those of an email *)
(* that could not be sent, or leaves them as they are.                            *)
LEMMA AllStep ==
    ASSUME TypeOK, Ready, RingNext
    PROVE  /\ DOMAIN All = 1 .. Len(All) /\ Len(All) \in Nat
           /\ \A j \in DOMAIN All : All[j] \in 1 .. collected
           /\ \A j \in DOMAIN All' :
                 \/ j \in DOMAIN All /\ All'[j] = All[j]
                 \/ epc = "read" /\ epc' = "loadClear" /\ value[eptr] # Nil /\ j = Len(All) + 1 /\ All'[j] = value[eptr]
<1> DEFINE S == 1 .. collected
<1>1. mail \in Seq(S) /\ reported \in Seq(S) /\ (epc = "read" => value[eptr] \in {Nil} \cup S)
  BY DEF TypeOK, Ready, Nil
<1> HIDE DEF S
<1>2. All \in Seq(S)
  BY <1>1 DEF All
<1>3. DOMAIN All = 1 .. Len(All) /\ Len(All) \in Nat /\ \A j \in DOMAIN All : All[j] \in S
  BY <1>2
<1>4. CASE Collector
  <2>1. All' = All
    BY <1>4 DEF Collector, NewRing, Receive, LoadToStore, Store, LoadToAdvance, Advance, reporterVars, All
  <2> QED
    BY <1>3, <2>1 DEF S
<1>5. CASE StartReport \/ TestLen \/ LoadToRead \/ LoadToClear \/ Clear \/ LoadToMove \/ Move
  <2>1. All' = All
    BY <1>5 DEF StartReport, TestLen, LoadToRead, LoadToClear, Clear, LoadToMove, Move, All, Ready
  <2> QED
    BY <1>3, <2>1 DEF S
<1>6. CASE ReadValue
  <2>1. CASE value[eptr] = Nil
    <3>1. All' = All
      BY <1>6, <2>1 DEF ReadValue, All
    <3> QED
      BY <1>3, <3>1 DEF S
  <2>2. CASE value[eptr] # Nil
    <3>1. All' = reported \o Append(mail, value[eptr]) /\ value[eptr] \in S /\ epc = "read" /\ epc' = "loadClear"
      BY <1>1, <1>6, <2>2 DEF ReadValue, All
    <3>2. All' = Append(All, value[eptr])
      BY <1>1, <3>1 DEF All
    <3>3. /\ DOMAIN All' = 1 .. Len(All) + 1 /\ All'[Len(All) + 1] = value[eptr]
          /\ \A j \in 1 .. Len(All) : All'[j] = All[j]
      BY <1>2, <3>1, <3>2
    <3> QED
      BY <1>3, <2>2, <3>1, <3>3, SMTT(30) DEF S
  <2> QED
    BY <2>1, <2>2
<1>7. CASE SendEmail
  <2>1. reported' = reported \o mail \/ reported' = reported
    BY <1>7 DEF SendEmail
  <2>2. mail' = <<>> /\ (reported \o mail) \o <<>> = reported \o mail /\ reported \o <<>> = reported
    BY <1>1, <1>7 DEF SendEmail
  <2>3. All' = All \/ All' = reported
    BY <2>1, <2>2 DEF All
  <2>4. DOMAIN reported \subseteq DOMAIN All /\ \A j \in DOMAIN reported : reported[j] = All[j]
    BY <1>1 DEF All
  <2> QED
    BY <1>3, <2>3, <2>4 DEF S
<1> QED
  BY <1>4, <1>5, <1>6, <1>7 DEF RingNext, Reporter

LEMMA OrderedStep ==
    ASSUME TypeOK, Ready, Aligned, Placed, Ordered, RingNext, ~(Collecting' /\ Reporting')
    PROVE  Ordered'
<1>1. N \in Nat \ {0} /\ collected \in Nat /\ i \in Nat /\ LastStored \in Int
  BY EventRingAssumption DEF TypeOK, LastStored
<1>2. \A s \in Slots : value[s] \in Nat
  BY <1>1 DEF TypeOK
<1>3. /\ DOMAIN All = 1 .. Len(All) /\ Len(All) \in Nat
      /\ \A j \in DOMAIN All : All[j] \in Int
      /\ \A j \in DOMAIN All' :
            \/ j \in DOMAIN All /\ All'[j] = All[j]
            \/ epc = "read" /\ epc' = "loadClear" /\ value[eptr] # Nil /\ j = Len(All) + 1 /\ All'[j] = value[eptr]
  BY AllStep
<1>4. CASE ReadValue
  <2>1. /\ LastStored' = LastStored /\ UNCHANGED <<value, eventRing>> /\ eptr = eventRing /\ eventRing \in Slots
        /\ epc = "read" /\ Reporting /\ cpc # "new" /\ Seen = i
    BY <1>4 DEF ReadValue, collectorVars, LastStored, Aligned, Ready, InBody, Reporting, Seen
  <2>2. \A j \in DOMAIN All, s \in Slots : value[s] # Nil => All[j] < value[s]
    BY <2>1 DEF Ordered
  <2>3. ASSUME NEW s \in Slots, value[s] # Nil, value[eventRing] # Nil, s # eventRing
        PROVE  value[eventRing] < value[s]
    <3>1. value[s] # LastStored - N + i + 1 /\ value[eventRing] = LastStored - N + i + 1
      BY <2>1, <2>3, Oldest
    <3>2. value[s] > LastStored - N + i
      BY <2>1, <2>3 DEF Placed
    <3> QED
      BY <1>1, <1>2, <3>1, <3>2
  <2>4. value[eventRing] # Nil => value[eventRing] <= LastStored
    BY <2>1 DEF Placed
  <2>5. \A j, k \in DOMAIN All' : j < k => All'[j] < All'[k]
    BY <1>3, <2>1, <2>2 DEF Ordered
  <2>6. \A j \in DOMAIN All' : All'[j] <= LastStored
    BY <1>3, <2>1, <2>4 DEF Ordered
  <2>7. \A j \in DOMAIN All', s \in Slots : value[s] # Nil =>
          All'[j] < value[s] \/ (epc' = "loadClear" /\ s = eventRing /\ All'[j] <= value[s])
    BY <1>2, <1>3, <2>1, <2>2, <2>3
  <2> QED
    BY <2>1, <2>5, <2>6, <2>7 DEF Ordered
<1>5. ASSUME ~ReadValue PROVE \A j \in DOMAIN All' : j \in DOMAIN All /\ All'[j] = All[j]
  <2>1. epc = "read" => epc' = epc
    BY <1>5 DEF RingNext, Collector, NewRing, Receive, LoadToStore, Store, LoadToAdvance, Advance, reporterVars,
                Reporter, StartReport, TestLen, LoadToRead, LoadToClear, Clear, LoadToMove, Move, SendEmail
  <2> QED
    BY <1>3, <2>1
<1>6. CASE NewRing
  <2>1. LastStored' = LastStored /\ \A s \in Slots : value'[s] = Nil
    BY <1>6 DEF NewRing, LastStored
  <2>2. ~ReadValue
    BY <1>6 DEF NewRing, ReadValue, reporterVars
  <2> QED
    BY <1>5, <2>1, <2>2 DEF Ordered
<1>7. CASE Receive \/ LoadToStore \/ LoadToAdvance \/ Advance
  <2>1. LastStored' = LastStored /\ UNCHANGED <<value, epc>> /\ ~ReadValue
    BY <1>1, <1>7 DEF Receive, LoadToStore, LoadToAdvance, Advance, ReadValue, LastStored, reporterVars
  <2>2. epc \in {"loadClear", "clear"} => eventRing' = eventRing
    BY <1>7 DEF Receive, LoadToStore, LoadToAdvance, Advance, Aligned, Collecting, Reporting
  <2> QED
    BY <1>5, <2>1, <2>2 DEF Ordered
<1>8. CASE Store
  <2>1. LastStored = collected - 1 /\ LastStored' = collected /\ UNCHANGED <<epc, eventRing>> /\ ~ReadValue
        /\ epc \notin {"loadClear", "clear"} /\ cptr \in Slots
    BY <1>8 DEF Store, ReadValue, LastStored, reporterVars, Aligned, Collecting, Reporting, Ready
  <2>2. value'[cptr] = collected /\ \A s \in Slots \ {cptr} : value'[s] = value[s]
    BY <1>8, <2>1 DEF Store, TypeOK
  <2> QED
    BY <1>1, <1>3, <1>5, <2>1, <2>2, SMTT(30) DEF Ordered
<1>9. CASE StartReport \/ TestLen \/ LoadToRead \/ LoadToClear \/ LoadToMove \/ Move \/ SendEmail
  <2>1. LastStored' = LastStored /\ value' = value /\ ~ReadValue
    BY <1>9 DEF StartReport, TestLen, LoadToRead, LoadToClear, LoadToMove, Move, SendEmail, ReadValue, collectorVars, LastStored
  <2>2. epc \in {"loadClear", "clear"} => epc' \in {"loadClear", "clear"} /\ eventRing' = eventRing
    BY <1>9 DEF StartReport, TestLen, LoadToRead, LoadToClear, LoadToMove, Move, SendEmail
  <2> QED
    BY <1>5, <2>1, <2>2 DEF Ordered
<1>10. CASE Clear
  <2>1. LastStored' = LastStored /\ eptr = eventRing /\ eventRing \in Slots /\ ~ReadValue
    BY <1>10 DEF Clear, ReadValue, collectorVars, LastStored, Aligned, Ready
  <2>2. value'[eventRing] = Nil /\ \A s \in Slots \ {eventRing} : value'[s] = value[s]
    BY <1>10, <2>1 DEF Clear, TypeOK
  <2> QED
    BY <1>5, <2>1, <2>2 DEF Ordered
<1> QED
  BY <1>4, <1>6, <1>7, <1>8, <1>9, <1>10 DEF RingNext, Collector, Reporter

-----------------------------------------------------------------------------
(* RingInv is an invariant of the ring.                                       *)
THEOREM RingInvariant == RingSpec => []RingInv
<1>1. RingInv /\ [RingNext]_vars => RingInv'
  <2> SUFFICES ASSUME RingInv, [RingNext]_vars PROVE RingInv'
    OBVIOUS
  <2>1. CASE RingNext
    <3>1. TypeOK' /\ Ready'
      BY <2>1, TypeStep DEF RingInv
    <3>2. ASSUME ~overlapped' PROVE ~overlapped /\ ~(Collecting' /\ Reporting')
      BY <2>1, <3>2 DEF RingNext, RingInv, TypeOK
    <3>3. ASSUME ~overlapped' PROVE Aligned' /\ Placed' /\ KeptRecords' /\ Ordered'
      BY <2>1, <3>2, <3>3, AlignedStep, PlacedStep, KeptStep, OrderedStep DEF RingInv
    <3> QED
      BY <3>1, <3>3 DEF RingInv
  <2>2. CASE UNCHANGED vars
    <3>1. UNCHANGED <<eventRing, value, cpc, cptr, collected, epc, eptr, i, mail, emails, reported, dropped, overlapped>>
      BY <2>2 DEF vars, collectorVars, reporterVars
    <3>2. TypeOK' /\ Ready'
      BY <3>1 DEF RingInv, TypeOK, Ready, InBody, Collecting
    <3>3. LastStored' = LastStored /\ Passed' = Passed /\ Seen' = Seen /\ Mailed' = Mailed /\ All' = All
      BY <3>1 DEF LastStored, Passed, Collecting, Seen, Reporting, Mailed, All
    <3>4. Aligned' <=> Aligned
      BY <3>1, <3>3 DEF Aligned, Collecting, Reporting
    <3>5. (Placed' <=> Placed) /\ (KeptRecords' <=> KeptRecords) /\ (Ordered' <=> Ordered)
      BY <3>1, <3>3 DEF Placed, KeptRecords, Ordered
    <3> QED
      BY <3>1, <3>2, <3>4, <3>5 DEF RingInv
  <2> QED
    BY <2>1, <2>2
<1> QED
  BY RingInit, <1>1, PTL DEF RingSpec

(* What the invariant says about the reports.  A stored record that is not among  *)
(* the last N has a successor N records later; the others are kept.               *)
LEMMA RingInvImplies == RingInv => NoLossWithoutOverlap /\ ReportedOnceInOrder
<1> SUFFICES ASSUME RingInv PROVE NoLossWithoutOverlap /\ ReportedOnceInOrder
  OBVIOUS
<1>1. N \in Nat \ {0} /\ collected \in Nat /\ Stored = 1 .. LastStored /\ LastStored \in Int
  BY EventRingAssumption DEF RingInv, TypeOK, Stored, LastStored
<1>2. ASSUME ~overlapped, NEW r \in Stored PROVE r \in Buffered \cup Mailed \/ r + N \in Stored
  <2>1. CASE r > LastStored - N
    <3>1. r \in Mailed \/ value[Slot(r - 1)] = r
      BY <1>1, <1>2, <2>1 DEF RingInv, KeptRecords
    <3>2. Slot(r - 1) \in Slots /\ r # Nil
      BY <1>1, <1>2, SlotFacts DEF Nil
    <3> QED
      BY <3>1, <3>2 DEF Buffered
  <2>2. CASE ~(r > LastStored - N)
    BY <1>1, <2>2
  <2> QED
    BY <2>1, <2>2
<1> QED
  BY <1>2 DEF NoLossWithoutOverlap, ReportedOnceInOrder, RingInv, Ordered, All

(* Whatever the interleaving of CollectEventRecords and TriggerEmailReporter,   *)
(* their pointers stay in the ring and its values are received records.         *)
THEOREM RingTypes == RingSpec => []TypeOK
<1>1. RingInv => TypeOK
  BY DEF RingInv
<1> QED
  BY <1>1, RingInvariant, PTL

(* While CollectEventRecords and TriggerEmailReporter have not overlapped, no    *)
(* record is lost but to N later ones, for every length N of the ring.          *)
THEOREM RingKeepsRecords == RingSpec => []NoLossWithoutOverlap
<1>1. RingInv => NoLossWithoutOverlap
  BY RingInvImplies
<1> QED
  BY <1>1, RingInvariant, PTL

(* While they have not overlapped, a record is in one email at most, and the     *)
(* emails hold the records in the order in which they were collected.           *)
THEOREM RingKeepsOrder == RingSpec => []ReportedOnceInOrder
<1>1. RingInv => ReportedOnceInOrder
  BY RingInvImplies
<1> QED
  BY <1>1, RingInvariant, PTL
=============================================================================
