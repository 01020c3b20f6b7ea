-------------------------- MODULE TestTriggerProofs --------------------------
(***************************************************************************)
(* What the steps of the trigger goroutines, the collector and the clock   *)
(* keep, whichever longevity program they run in: the types, the locks     *)
(* held inside a trigger function, the number of goroutines the wait group *)
(* counts, and the balance between calls and records.                      *)
(***************************************************************************)
EXTENDS TestTrigger, TLAPS, FiniteSetTheorems

(* Leaves are first-order for the most part; the others are left to SMT.    *)
USE ZenonT(10), SMTT(30)

(* What Append does to a channel, and what a receive leaves.                *)
LEMMA AppendFacts ==
    ASSUME NEW S, NEW s \in Seq(S), NEW e \in S
    PROVE  /\ Append(s, e) \in Seq(S)
           /\ Len(s) \in Nat
           /\ Len(Append(s, e)) = Len(s) + 1
           /\ \A i \in 1 .. Len(s) : Append(s, e)[i] = s[i]
           /\ Append(s, e)[Len(s) + 1] = e
OBVIOUS

LEMMA HeadTailFacts ==
    ASSUME NEW S, NEW s \in Seq(S), s # <<>>
    PROVE  /\ Head(s) \in S
           /\ Tail(s) \in Seq(S)
           /\ Len(s) \in Nat
           /\ Len(Tail(s)) = Len(s) - 1
           /\ \A i \in 1 .. Len(Tail(s)) : Tail(s)[i] = s[i + 1]
OBVIOUS

(* Every step of a trigger goroutine keeps the types of the shared state.   *)
LEMMA GoroutineType ==
    ASSUME TriggerTypeOK, NEW g \in Goroutines, GoroutineStep(g)
    PROVE  TriggerTypeOK'
<1> USE DEF TriggerTypeOK, Goto, States
<1>0. Email \in Goroutines /\ Email \notin Tests
    BY TestTriggerAssumption DEF Goroutines
<1>1. CASE Select(g)
    <2>1. wg' \in Int
        BY <1>1 DEF Select
    <2>2. \/ pc' = [pc EXCEPT ![g] = "done"]
          \/ pc' = [pc EXCEPT ![g] = "decide"]
        BY <1>1 DEF Select
    <2>3. /\ pc' \in [Goroutines -> States]
          /\ pc'[Email] \notin {"wrap", "send", "runAgain", "sendAgain", "unwrap"}
        BY <1>0, <2>2
    <2> QED
        BY <1>1, <2>1, <2>3 DEF Select
<1>2. CASE TimeOut(g)
    BY <1>0, <1>2 DEF TimeOut
<1>3. CASE Decide(g)
    BY <1>0, <1>3 DEF Decide, LoopTop
<1>4. CASE Lock(g)
    BY <1>0, <1>4 DEF Lock, Acquire, LoopLock, Locks, Tests
<1>5. CASE WrapLock(g)
    BY <1>0, <1>5 DEF WrapLock, Acquire, Locks
<1>6. CASE TriggerBody(g)
    <2>1. \/ g = Email /\ pc' = [pc EXCEPT ![g] = "unlock"]
          \/ g # Email /\ pc' = [pc EXCEPT ![g] = "send"]
          \/ g # Email /\ pc' = [pc EXCEPT ![g] = "sendAgain"]
        BY <1>6 DEF TriggerBody
    <2>2. /\ pc' \in [Goroutines -> States]
          /\ pc'[Email] \notin {"wrap", "send", "runAgain", "sendAgain", "unwrap"}
        BY <1>0, <2>1
    <2> QED
        BY <1>6, <2>2 DEF TriggerBody
<1>7. CASE SendRecord(g)
    <2>1. g \in EventTypes
        BY <1>0, <1>7 DEF SendRecord, EventTypes, Goroutines
    <2>2. /\ Append(triggerEventsChan, g) \in Seq(EventTypes)
          /\ Len(Append(triggerEventsChan, g)) = Len(triggerEventsChan) + 1
        BY <2>1, AppendFacts
    <2>3. triggerEventsChan' \in Seq(EventTypes) /\ Len(triggerEventsChan') <= ChanCap
        BY <1>7, <2>2, TestTriggerAssumption DEF SendRecord, CanSend
    <2>4. g # Email /\ AfterSend(g) \in States
        BY <1>7 DEF SendRecord, AfterSend
    <2> QED
        BY <1>0, <1>7, <2>3, <2>4 DEF SendRecord
<1>8. CASE Unwrap(g)
    BY <1>0, <1>8 DEF Unwrap, Release, Locks
<1>9. CASE Unlock(g)
    BY <1>0, <1>9 DEF Unlock, Release, LoopLock, Locks, LoopTop
<1> QED
    BY <1>1, <1>2, <1>3, <1>4, <1>5, <1>6, <1>7, <1>8, <1>9 DEF GoroutineStep

LEMMA TriggerStutter ==
    ASSUME TriggerTypeOK, UNCHANGED triggerVars
    PROVE  TriggerTypeOK'
BY DEF TriggerTypeOK, triggerVars

(* The collector keeps them.                                                *)
LEMMA CollectType ==
    ASSUME TriggerTypeOK, CollectEventRecord
    PROVE  TriggerTypeOK'
<1>1. /\ Head(triggerEventsChan) \in EventTypes
      /\ Tail(triggerEventsChan) \in Seq(EventTypes)
      /\ Len(Tail(triggerEventsChan)) = Len(triggerEventsChan) - 1
    BY HeadTailFacts DEF CollectEventRecord, TriggerTypeOK
<1>2. triggerEventsChan' \in Seq(EventTypes) /\ Len(triggerEventsChan') <= ChanCap
    BY <1>1, TestTriggerAssumption DEF CollectEventRecord, TriggerTypeOK
<1>3. executions' \in [EventTypes -> Nat]
    BY <1>1 DEF CollectEventRecord, TriggerTypeOK
<1> QED
    BY <1>2, <1>3 DEF CollectEventRecord, TriggerTypeOK

(* The clock keeps them.                                                    *)
LEMMA TimeType ==
    ASSUME TriggerTypeOK, RunTimeOver \/ \E g \in Goroutines : IntervalOver(g)
    PROVE  TriggerTypeOK'
<1>1. CASE RunTimeOver
    <2>1. runTimeOver' \in BOOLEAN
        BY <1>1 DEF RunTimeOver
    <2> QED
        BY <1>1, <2>1 DEF RunTimeOver, TriggerTypeOK
<1>2. CASE \E g \in Goroutines : IntervalOver(g)
    BY <1>2 DEF IntervalOver, TriggerTypeOK
<1> QED
    BY <1>1, <1>2

-----------------------------------------------------------------------------
(* What a goroutine's control point says about the mutexes: where it is     *)
(* inside a trigger function it holds triggerLock, and a disruptive trigger *)
(* also disruptiveTriggerLock from Lock to Unlock.                          *)
TestsHoldLocks ==
    \A g \in Tests :
        /\ pc[g] \in {"run", "send", "runAgain", "sendAgain", "unwrap"} => holder["triggerLock"] = g
        /\ pc[g] = "unlock" /\ g \notin DisruptiveTriggerFunctions => holder["triggerLock"] = g
        /\ pc[g] \in {"wrap", "run", "send", "unwrap", "unlock"} /\ g \in DisruptiveTriggerFunctions
              => holder["disruptiveTriggerLock"] = g
        /\ pc[g] \in {"wrap", "unwrap"} => g \in DisruptiveTriggerFunctions
        /\ pc[g] \in {"runAgain", "sendAgain"} => g \in BackupFunctions

(* The steps of the trigger goroutines keep it, and never take the upgrade   *)
(* goroutine's lock.                                                        *)
LEMMA GoroutineHolds ==
    ASSUME TriggerTypeOK, TestsHoldLocks, NEW g \in Goroutines, GoroutineStep(g)
    PROVE  /\ TestsHoldLocks'
           /\ holder["disruptiveTriggerLock"] = Upgrader
                 => holder'["disruptiveTriggerLock"] = Upgrader
<1> USE DEF TestsHoldLocks, Goto
<1>0. /\ pc \in [Goroutines -> States]
      /\ holder \in [Locks -> Goroutines \cup {Upgrader, Nobody}]
      /\ Tests \subseteq Goroutines
      /\ Nobody \notin Tests /\ Upgrader \notin Tests /\ Nobody # Upgrader
      /\ \A t \in BackupFunctions : t \in Tests /\ t \notin DisruptiveTriggerFunctions
      /\ DisruptiveTriggerFunctions \subseteq Tests
      /\ g \in Tests \/ g = Email
      /\ Email \notin Tests /\ pc[Email] # "unwrap"
    BY TestTriggerAssumption DEF TriggerTypeOK, Goroutines, Tests, Nobody, Upgrader
<1>1. CASE Select(g)
    BY <1>0, <1>1 DEF Select
<1>2. CASE TimeOut(g)
    BY <1>0, <1>2 DEF TimeOut
<1>3. CASE Decide(g)
    BY <1>0, <1>3 DEF Decide, LoopTop
<1>4. CASE Lock(g)
    BY <1>0, <1>4 DEF Lock, Acquire, LoopLock, Locks
<1>5. CASE WrapLock(g)
    BY <1>0, <1>5 DEF WrapLock, Acquire, Locks
<1>6. CASE TriggerBody(g)
    BY <1>0, <1>6 DEF TriggerBody
<1>7. CASE SendRecord(g)
    BY <1>0, <1>7 DEF SendRecord, AfterSend
<1>8. CASE Unwrap(g)
    BY <1>0, <1>8 DEF Unwrap, Release, Locks
<1>9. CASE Unlock(g)
    BY <1>0, <1>9 DEF Unlock, Release, LoopLock, LoopTop, Locks
<1> QED
    BY <1>1, <1>2, <1>3, <1>4, <1>5, <1>6, <1>7, <1>8, <1>9 DEF GoroutineStep

-----------------------------------------------------------------------------
(* A goroutine's step leaves the number of running goroutines as it is, or  *)
(* it is the return of one of them.                                         *)
LEMMA GoroutineRunning ==
    ASSUME TriggerTypeOK, NEW g \in Goroutines, GoroutineStep(g)
    PROVE  /\ pc[g] \notin {"none", "done"}
           /\ pc'[g] # "none"
           /\ \A h \in Goroutines : h # g => pc'[h] = pc[h]
           /\ \/ pc'[g] # "done" /\ wg' = wg
              \/ pc'[g] = "done" /\ wg' = wg - 1
           /\ chanClosed' = chanClosed
<1>0. pc \in [Goroutines -> States]
    BY DEF TriggerTypeOK
<1> USE DEF Goto
<1>1. CASE Select(g)
    BY <1>0, <1>1 DEF Select
<1>2. CASE TimeOut(g)
    BY <1>0, <1>2 DEF TimeOut
<1>3. CASE Decide(g)
    BY <1>0, <1>3 DEF Decide, LoopTop
<1>4. CASE Lock(g)
    BY <1>0, <1>4 DEF Lock
<1>5. CASE WrapLock(g)
    BY <1>0, <1>5 DEF WrapLock
<1>6. CASE TriggerBody(g)
    BY <1>0, <1>6 DEF TriggerBody
<1>7. CASE SendRecord(g)
    BY <1>0, <1>7 DEF SendRecord, AfterSend
<1>8. CASE Unwrap(g)
    BY <1>0, <1>8 DEF Unwrap
<1>9. CASE Unlock(g)
    BY <1>0, <1>9 DEF Unlock, LoopTop
<1> QED
    BY <1>1, <1>2, <1>3, <1>4, <1>5, <1>6, <1>7, <1>8, <1>9 DEF GoroutineStep

-----------------------------------------------------------------------------
(* Counting the records of a type: in no record, ...                        *)
LEMMA CountType ==
    ASSUME NEW S, NEW s \in Seq(S), NEW t
    PROVE  /\ IsFiniteSet({i \in 1 .. Len(s) : s[i] = t})
           /\ Count(t, s) \in Nat
<1>1. Len(s) \in Nat
    OBVIOUS
<1>2. IsFiniteSet(1 .. Len(s))
    BY <1>1, FS_Interval
<1>3. {i \in 1 .. Len(s) : s[i] = t} \in SUBSET (1 .. Len(s))
    OBVIOUS
<1> QED
    BY <1>2, <1>3, FS_Subset, FS_CardinalityType DEF Count

LEMMA CountEmpty ==
    ASSUME NEW t
    PROVE  Count(t, <<>>) = 0
<1>1. {i \in 1 .. Len(<<>>) : <<>>[i] = t} = {}
    OBVIOUS
<1> QED
    BY <1>1, FS_EmptySet DEF Count

(* ... in one more than before, ...                                         *)
LEMMA CountAppend ==
    ASSUME NEW S, NEW s \in Seq(S), NEW e \in S, NEW t
    PROVE  Count(t, Append(s, e)) = Count(t, s) + (IF e = t THEN 1 ELSE 0)
<1> DEFINE P == {i \in 1 .. Len(s) : s[i] = t}
           Q == {i \in 1 .. Len(Append(s, e)) : Append(s, e)[i] = t}
<1>1. /\ Len(s) \in Nat
      /\ Len(Append(s, e)) = Len(s) + 1
      /\ \A i \in 1 .. Len(s) : Append(s, e)[i] = s[i]
      /\ Append(s, e)[Len(s) + 1] = e
    BY AppendFacts
<1>2. IsFiniteSet(P) /\ Cardinality(P) \in Nat
    BY CountType DEF Count
<1>3. Len(s) + 1 \notin P
    BY <1>1
<1>4. Count(t, s) = Cardinality(P) /\ Count(t, Append(s, e)) = Cardinality(Q)
    BY DEF Count
<1>5. CASE e = t
    <2>1. Q = P \cup {Len(s) + 1}
        BY <1>1, <1>5
    <2> HIDE DEF P, Q
    <2>2. Cardinality(Q) = Cardinality(P) + 1
        BY <1>2, <1>3, <2>1, FS_AddElement
    <2> QED
        BY <1>5, <1>4, <2>2
<1>6. CASE e # t
    <2>1. Q = P
        BY <1>1, <1>6
    <2> HIDE DEF P, Q
    <2> QED
        BY <1>2, <1>6, <1>4, <2>1
<1> QED
    BY <1>5, <1>6

(* ... and in what is left when the first is received.                      *)
LEMMA CountTail ==
    ASSUME NEW S, NEW s \in Seq(S), s # <<>>, NEW t
    PROVE  Count(t, s) = Count(t, Tail(s)) + (IF Head(s) = t THEN 1 ELSE 0)
<1> DEFINE P == {i \in 1 .. Len(s) : s[i] = t}
           Q == {i \in 1 .. Len(Tail(s)) : Tail(s)[i] = t}
           R == P \ {1}
           f == [i \in Q |-> i + 1]
<1>1. /\ Len(s) \in Nat
      /\ Tail(s) \in Seq(S)
      /\ Len(Tail(s)) = Len(s) - 1
      /\ \A i \in 1 .. Len(Tail(s)) : Tail(s)[i] = s[i + 1]
    BY HeadTailFacts
<1>2. Len(s) # 0 /\ Head(s) = s[1]
    OBVIOUS
<1>3. IsFiniteSet(P) /\ Cardinality(P) \in Nat
    BY CountType DEF Count
<1>4. IsFiniteSet(Q) /\ Cardinality(Q) \in Nat
    BY <1>1, CountType DEF Count
<1>5. \A i \in Q : i \in Nat /\ i + 1 \in R
    BY <1>1
<1>6. \A j \in R : j - 1 \in Q /\ (j - 1) + 1 = j
    BY <1>1
<1>7. \A i, j \in Q : i + 1 = j + 1 => i = j
    BY <1>5
<1>8. Count(t, s) = Cardinality(P) /\ Count(t, Tail(s)) = Cardinality(Q)
    BY DEF Count
<1>9. 1 \in P <=> Head(s) = t
    BY <1>1, <1>2
<1> HIDE DEF P, Q
<1>10. f \in Bijection(Q, R)
    <2>1. f \in [Q -> R]
        BY <1>5
    <2>2. \A i, j \in Q : f[i] = f[j] => i = j
        BY <1>7
    <2>3. \A j \in R : \E i \in Q : f[i] = j
        BY <1>6
    <2> QED
        BY <2>1, <2>2, <2>3 DEF Bijection, Injection, Surjection, IsInjective
<1>11. Cardinality(R) = Cardinality(Q)
    BY <1>4, <1>10, FS_Bijection DEF ExistsBijection
<1>12. Cardinality(R) = IF 1 \in P THEN Cardinality(P) - 1 ELSE Cardinality(P)
    BY <1>3, FS_RemoveElement
<1> QED
    BY <1>3, <1>4, <1>11, <1>12, <1>8, <1>9

-----------------------------------------------------------------------------
(* What the collector has counted of a trigger, what waits in the channel   *)
(* and what is about to be sent, less the calls of the trigger function.    *)
Sending(t) == IF pc[t] \in {"send", "sendAgain"} THEN 1 ELSE 0
Balance(t) ==
    executions[t] + Count(t, triggerEventsChan) + Sending(t) - invocations[t]

LEMMA BalanceType ==
    ASSUME TriggerTypeOK, NEW t \in Tests
    PROVE  /\ executions[t] \in Nat
           /\ Count(t, triggerEventsChan) \in Nat
           /\ Sending(t) \in Nat
           /\ invocations[t] \in Nat
<1>1. t \in EventTypes /\ t \in Goroutines
    BY DEF EventTypes, Goroutines
<1> QED
    BY <1>1, CountType DEF TriggerTypeOK, Sending

(* A trigger goroutine calls its function and sends its record: the balance *)
(* of every trigger stays as it is.                                         *)
LEMMA GoroutineBalance ==
    ASSUME TriggerTypeOK, NEW g \in Goroutines, GoroutineStep(g), NEW t \in Tests
    PROVE  Balance(t)' = Balance(t)
<1>0. /\ pc \in [Goroutines -> States]
      /\ invocations \in [Goroutines -> Nat]
      /\ t \in Goroutines /\ t # Email
      /\ g \in Tests \/ g = Email
    BY TestTriggerAssumption DEF TriggerTypeOK, Goroutines
<1>1. /\ executions[t] \in Nat /\ Count(t, triggerEventsChan) \in Nat /\ Sending(t) \in Nat
      /\ invocations[t] \in Nat
    BY BalanceType
<1> USE DEF Goto
<1>2. CASE TriggerBody(g)
    <2>1. executions' = executions /\ triggerEventsChan' = triggerEventsChan
        BY <1>2 DEF TriggerBody
    <2>2. CASE g = t
        <3>1. Sending(t) = 0 /\ Sending(t)' = 1
            BY <1>0, <1>2, <2>2 DEF TriggerBody, Sending
        <3>2. invocations'[t] = invocations[t] + 1
            BY <1>0, <1>2, <2>2 DEF TriggerBody
        <3> QED
            BY <1>1, <2>1, <3>1, <3>2 DEF Balance
    <2>3. CASE g # t
        <3>1. pc'[t] = pc[t] /\ invocations'[t] = invocations[t]
            BY <1>0, <1>2, <2>3 DEF TriggerBody
        <3> QED
            BY <2>1, <3>1 DEF Balance, Sending
    <2> QED
        BY <2>2, <2>3
<1>3. CASE SendRecord(g)
    <2>1. executions' = executions /\ invocations' = invocations
        BY <1>3 DEF SendRecord
    <2>2. g \in EventTypes
        BY <1>0, <1>3 DEF SendRecord, EventTypes, TriggerTypeOK
    <2>3. Count(t, triggerEventsChan)'
            = Count(t, triggerEventsChan) + (IF g = t THEN 1 ELSE 0)
        BY <1>3, <2>2, CountAppend DEF SendRecord, TriggerTypeOK
    <2>4. CASE g = t
        <3>1. Sending(t) = 1 /\ Sending(t)' = 0
            BY <1>0, <1>3, <2>4 DEF SendRecord, Sending, AfterSend
        <3> QED
            BY <1>1, <2>1, <2>3, <2>4, <3>1 DEF Balance
    <2>5. CASE g # t
        <3>1. pc'[t] = pc[t]
            BY <1>0, <1>3, <2>5 DEF SendRecord
        <3> QED
            BY <1>1, <2>1, <2>3, <2>5, <3>1 DEF Balance, Sending
    <2> QED
        BY <2>4, <2>5
<1>4. ASSUME Select(g) \/ TimeOut(g) \/ Decide(g) \/ Lock(g) \/ WrapLock(g) \/ Unwrap(g) \/ Unlock(g)
      PROVE  Balance(t)' = Balance(t)
    <2>1. /\ executions' = executions /\ invocations' = invocations
          /\ triggerEventsChan' = triggerEventsChan
        BY <1>4 DEF Select, TimeOut, Decide, Lock, WrapLock, Unwrap, Unlock
    <2>2. Sending(t)' = Sending(t)
        <3>1. CASE Select(g) \/ TimeOut(g) \/ Decide(g)
            BY <1>0, <3>1 DEF Select, TimeOut, Decide, LoopTop, Sending
        <3>2. CASE Lock(g) \/ WrapLock(g) \/ Unwrap(g) \/ Unlock(g)
            BY <1>0, <3>2 DEF Lock, WrapLock, Unwrap, Unlock, LoopTop, Sending
        <3> QED
            BY <1>4, <3>1, <3>2
    <2> QED
        BY <2>1, <2>2 DEF Balance
<1> QED
    BY <1>2, <1>3, <1>4 DEF GoroutineStep

(* The collector receives what it counts.                                   *)
LEMMA CollectBalance ==
    ASSUME TriggerTypeOK, CollectEventRecord, NEW t \in Tests
    PROVE  Balance(t)' = Balance(t)
<1>1. /\ executions[t] \in Nat /\ Count(t, triggerEventsChan) \in Nat /\ Sending(t) \in Nat
      /\ invocations[t] \in Nat
    BY BalanceType
<1>2. /\ pc' = pc /\ invocations' = invocations
      /\ triggerEventsChan \in Seq(EventTypes) /\ triggerEventsChan # <<>>
      /\ triggerEventsChan' = Tail(triggerEventsChan)
      /\ executions' = [executions EXCEPT ![Head(triggerEventsChan)] = @ + 1]
      /\ executions \in [EventTypes -> Nat]
    BY DEF CollectEventRecord, TriggerTypeOK
<1>3. Head(triggerEventsChan) \in EventTypes /\ t \in EventTypes
      /\ Tail(triggerEventsChan) \in Seq(EventTypes)
    BY <1>2, HeadTailFacts DEF EventTypes
<1>4. Count(t, triggerEventsChan)
        = Count(t, triggerEventsChan)' + (IF Head(triggerEventsChan) = t THEN 1 ELSE 0)
    BY <1>2, CountTail
<1>5. Count(t, triggerEventsChan)' \in Nat
    BY <1>2, <1>3, CountType
<1>6. executions'[t] = executions[t] + (IF Head(triggerEventsChan) = t THEN 1 ELSE 0)
    BY <1>2, <1>3
<1>7. Sending(t)' = Sending(t)
    BY <1>2 DEF Sending
<1> QED
    BY <1>1, <1>2, <1>4, <1>5, <1>6, <1>7 DEF Balance
=============================================================================
