--------------------------- MODULE LongevityProofs ---------------------------
(***************************************************************************)
(* Proofs about {Longevity} and {BackupLongevity} for every set of         *)
(* triggers, every channel capacity and every edit of the ConfigMap.       *)
(***************************************************************************)
EXTENDS Longevity, TestTriggerProofs

(* Leaves are first-order for the most part; the others are left to SMT.    *)
USE ZenonT(10), SMTT(30)

LEMMA InitType == Init => TypeOK
<1> SUFFICES ASSUME Init PROVE TypeOK
    OBVIOUS
<1>1. /\ pc \in [Goroutines -> States]
      /\ pc[Email] \notin {"wrap", "send", "runAgain", "sendAgain", "unwrap"}
      /\ holder \in [Locks -> Goroutines \cup {Upgrader, Nobody}]
      /\ executions \in [EventTypes -> Nat]
      /\ invocations \in [Goroutines -> Nat]
    BY DEF Init, States, Goroutines
<1>2. triggerEventsChan \in Seq(EventTypes) /\ Len(triggerEventsChan) <= ChanCap
    BY TestTriggerAssumption DEF Init
<1>3. /\ chanClosed \in BOOLEAN /\ stopClosed \in BOOLEAN /\ exited \in BOOLEAN
      /\ runTimeOver \in BOOLEAN /\ appsDeployed \in BOOLEAN
      /\ due \subseteq Goroutines /\ chaosMap \subseteq Goroutines
    BY LongevityAssumption, Zenon DEF Init
<1>4. wg \in Int /\ configUpdates \in 0 .. MaxConfigUpdates
    BY LongevityAssumption DEF Init
<1>5. mainPc \in {"deploy", "register", "collect"} /\ started \in Goroutines \cup {Nobody}
    BY DEF Init
<1> QED
    BY <1>1, <1>2, <1>3, <1>4, <1>5 DEF TypeOK, TriggerTypeOK

(* The steps of main keep the types.                                        *)
LEMMA MainType ==
    ASSUME TypeOK, MainStep
    PROVE  TypeOK'
<1> USE DEF TypeOK
<1>1. CASE DeployApps
    <2>1. triggerEventsChan' \in Seq(EventTypes) /\ Len(triggerEventsChan') <= ChanCap
        BY <1>1, TestTriggerAssumption DEF DeployApps, EventTypes
    <2>2. TriggerTypeOK'
        BY <1>1, <2>1 DEF DeployApps, TriggerTypeOK
    <2>3. appsDeployed' \in BOOLEAN /\ mainPc' = "register"
        BY <1>1 DEF DeployApps
    <2> QED
        BY <1>1, <2>2, <2>3 DEF DeployApps
<1>2. CASE AddTrigger
    <2>1. TriggerTypeOK'
        BY <1>2 DEF AddTrigger, TriggerTypeOK
    <2> QED
        BY <1>2, <2>1 DEF AddTrigger
<1>3. CASE CollectRecord
    <2>1. TriggerTypeOK'
        BY <1>3, CollectType DEF CollectRecord
    <2> QED
        BY <1>3, <2>1 DEF CollectRecord, mainVars
<1>4. CASE \E g \in Goroutines : GoTrigger(g)
    <2>1. PICK g \in Goroutines : GoTrigger(g)
        BY <1>4
    <2>2. Email \in Goroutines /\ LoopTop(g) \in {"select", "decide"}
        BY DEF Goroutines, LoopTop
    <2>3. TriggerTypeOK'
        BY <2>1, <2>2 DEF GoTrigger, TriggerTypeOK, Goto, States
    <2> QED
        BY <2>1, <2>3 DEF GoTrigger
<1> QED
    BY <1>1, <1>2, <1>3, <1>4 DEF MainStep

(* A ConfigMap callback keeps the types.                                    *)
LEMMA WatchType ==
    ASSUME TypeOK, WatchConfigMap
    PROVE  TypeOK'
<1>1. PICK cm \in ConfigMaps :
         \E keys \in IF cm.malformed THEN SUBSET cm.keys ELSE {cm.keys} :
            /\ PopulateTriggers(keys, cm.enabled)
            /\ \E kept \in SUBSET (due \cap keys) : due' = (due \ keys) \cup kept
    BY DEF WatchConfigMap
<1>2. PICK keys \in IF cm.malformed THEN SUBSET cm.keys ELSE {cm.keys} :
         /\ PopulateTriggers(keys, cm.enabled)
         /\ \E kept \in SUBSET (due \cap keys) : due' = (due \ keys) \cup kept
    BY <1>1, Zenon
<1>3. keys \subseteq Goroutines /\ cm.enabled \subseteq Goroutines
    BY LongevityAssumption
<1>4. due \subseteq Goroutines /\ chaosMap \subseteq Goroutines
    BY DEF TypeOK, TriggerTypeOK
<1>5. chaosMap' \subseteq Goroutines
    BY <1>2, <1>3, <1>4 DEF PopulateTriggers
<1>6. due' \subseteq Goroutines
    BY <1>2, <1>4
<1>7. TriggerTypeOK'
    BY <1>5, <1>6 DEF WatchConfigMap, TypeOK, TriggerTypeOK
<1>8. configUpdates' \in 0 .. MaxConfigUpdates
    BY LongevityAssumption DEF WatchConfigMap, TypeOK
<1> QED
    BY <1>7, <1>8 DEF WatchConfigMap, TypeOK, mainVars

LEMMA NextType == TypeOK /\ [Next]_vars => TypeOK'
<1> SUFFICES ASSUME TypeOK, [Next]_vars PROVE TypeOK'
    OBVIOUS
<1>1. CASE \E g \in Goroutines : TestStep(g)
    <2>1. TriggerTypeOK'
        BY <1>1, GoroutineType DEF TestStep, TypeOK
    <2> QED
        BY <1>1, <2>1 DEF TestStep, TypeOK, mainVars
<1>2. CASE Time
    <2>1. TriggerTypeOK'
        BY <1>2, TimeType DEF Time, TypeOK
    <2> QED
        BY <1>2, <2>1 DEF Time, TypeOK, mainVars
<1>3. CASE UNCHANGED vars
    BY <1>3, TriggerStutter DEF TypeOK, vars, mainVars
<1> QED
    BY <1>1, <1>2, <1>3, MainType, WatchType DEF Next, Exited

(* In every reachable state of {Longevity} and {BackupLongevity} the state  *)
(* has its type; the channel never holds more than its capacity.            *)
THEOREM TypeCorrect == Spec => []TypeOK
    BY InitType, NextType, PTL DEF Spec

-----------------------------------------------------------------------------
(* A step that leaves pc and the mutexes alone, or starts a goroutine.      *)
LEMMA NextHolds == TypeOK /\ TestsHoldLocks /\ [Next]_vars => TestsHoldLocks'
<1> SUFFICES ASSUME TypeOK, TestsHoldLocks, [Next]_vars PROVE TestsHoldLocks'
    OBVIOUS
<1>1. CASE \E g \in Goroutines : TestStep(g)
    BY <1>1, GoroutineHolds DEF TestStep, TypeOK
<1>2. CASE \E g \in Goroutines : GoTrigger(g)
    <2>1. PICK g \in Goroutines : GoTrigger(g)
        BY <1>2
    <2>2. /\ pc' = [pc EXCEPT ![g] = LoopTop(g)] /\ pc \in [Goroutines -> States]
          /\ holder' = holder /\ Tests \subseteq Goroutines
          /\ LoopTop(g) \in {"select", "decide"}
        BY <2>1 DEF GoTrigger, Goto, TypeOK, TriggerTypeOK, Goroutines, LoopTop
    <2> QED
        BY <2>2 DEF TestsHoldLocks
<1>3. ASSUME DeployApps \/ AddTrigger \/ CollectRecord \/ WatchConfigMap \/ Time \/ Exited
             \/ UNCHANGED vars
      PROVE  TestsHoldLocks'
    <2>1. pc' = pc /\ holder' = holder
        BY <1>3 DEF DeployApps, AddTrigger, CollectRecord, CollectEventRecord, WatchConfigMap,
           Time, RunTimeOver, IntervalOver, Exited, vars, triggerVars
    <2> QED
        BY <2>1 DEF TestsHoldLocks
<1> QED
    BY <1>1, <1>2, <1>3 DEF Next, MainStep

(* triggerLock does its work in {Longevity} and in {BackupLongevity}, whose *)
(* goroutines call two trigger functions under one lock: no two trigger     *)
(* functions ever run at once.                                              *)
THEOREM Exclusion == Spec => []TriggersExclusive
<1>1. Init => TestsHoldLocks
    BY DEF Init, TestsHoldLocks, Goroutines
<1>2. TestsHoldLocks => TriggersExclusive
    BY DEF TestsHoldLocks, TriggersExclusive, Testing
<1> QED
    BY <1>1, <1>2, NextHolds, TypeCorrect, PTL DEF Spec

(* Between the first call of a turn and its last record no other trigger    *)
(* function is called, for any triggers, channel capacity and edits: a      *)
(* goroutine keeps triggerLock while it waits for room in the channel.      *)
THEOREM TurnsStayUnbroken == Spec => TurnsUnbroken
<1>1. ASSUME TypeOK, TriggersExclusive, [Next]_vars
      PROVE  [\A g, h \in Tests : g # h /\ Testing(g) => invocations'[h] = invocations[h]]_vars
    <2> SUFFICES ASSUME NEW g \in Tests, NEW h \in Tests, g # h, Testing(g)
                 PROVE  invocations'[h] = invocations[h]
        OBVIOUS
    <2>1. /\ invocations \in [Goroutines -> Nat] /\ Tests \subseteq Goroutines
          /\ ~Testing(h)
        BY <1>1 DEF TypeOK, TriggerTypeOK, TriggersExclusive, Goroutines
    <2>2. ASSUME NEW k \in Goroutines, TriggerBody(k) PROVE invocations'[h] = invocations[h]
        <3>1. k # h
            BY <2>1, <2>2 DEF TriggerBody, Testing
        <3> QED
            BY <2>1, <2>2, <3>1 DEF TriggerBody
    <2>3. ASSUME ~\E k \in Goroutines : TriggerBody(k) PROVE invocations' = invocations
        BY <1>1, <2>3 DEF Next, MainStep, DeployApps, AddTrigger, CollectRecord, CollectEventRecord,
           GoTrigger, WatchConfigMap, Time, RunTimeOver, IntervalOver, Exited, vars, triggerVars,
           TestStep, GoroutineStep, Select, TimeOut, Decide, Lock, WrapLock, SendRecord, Unwrap,
           Unlock
    <2> QED
        BY <2>2, <2>3
<1> QED
    BY <1>1, TypeCorrect, Exclusion, PTL DEF Spec, TurnsUnbroken

-----------------------------------------------------------------------------
(* Nothing runs and nothing was sent before main has deployed; from then on *)
(* every trigger's records and calls balance up to the records main left.   *)
Accounted ==
    /\ mainPc = "deploy" => /\ triggerEventsChan = <<>> /\ started = Nobody
                            /\ \A g \in Goroutines : pc[g] = "none"
    /\ \A t \in Tests : Balance(t) = IF mainPc = "deploy" THEN 0 ELSE Count(t, InitialEvents)

LEMMA InitAccounted == Init => Accounted
<1> SUFFICES ASSUME Init PROVE Accounted
    OBVIOUS
<1>1. ASSUME NEW t \in Tests PROVE Balance(t) = 0
    <2>1. t \in EventTypes /\ t \in Goroutines
        BY DEF EventTypes, Goroutines
    <2>2. executions[t] = 0 /\ invocations[t] = 0 /\ Sending(t) = 0
        BY <2>1 DEF Init, Sending
    <2>3. Count(t, triggerEventsChan) = 0
        BY CountEmpty DEF Init
    <2> QED
        BY <2>2, <2>3 DEF Balance
<1> QED
    BY <1>1 DEF Init, Accounted

LEMMA NextAccounted == TypeOK /\ Accounted /\ [Next]_vars => Accounted'
<1> SUFFICES ASSUME TypeOK, Accounted, [Next]_vars PROVE Accounted'
    OBVIOUS
<1>0. TriggerTypeOK /\ pc \in [Goroutines -> States] /\ Tests \subseteq Goroutines
    BY DEF TypeOK, TriggerTypeOK, Goroutines
<1>1. CASE \E g \in Goroutines : TestStep(g)
    <2>1. PICK g \in Goroutines : TestStep(g)
        BY <1>1
    <2>2. GoroutineStep(g) /\ mainPc' = mainPc
        BY <2>1 DEF TestStep, mainVars
    <2>3. mainPc # "deploy"
        BY <1>0, <2>2, GoroutineRunning DEF Accounted
    <2>4. \A t \in Tests : Balance(t)' = Balance(t)
        BY <1>0, <2>2, GoroutineBalance
    <2> QED
        BY <2>2, <2>3, <2>4 DEF Accounted
<1>2. CASE CollectRecord
    <2>1. CollectEventRecord /\ mainPc = "collect" /\ mainPc' = mainPc
        BY <1>2 DEF CollectRecord, mainVars
    <2>2. \A t \in Tests : Balance(t)' = Balance(t)
        BY <1>0, <2>1, CollectBalance
    <2> QED
        BY <2>1, <2>2 DEF Accounted
<1>3. CASE DeployApps
    <2>1. /\ mainPc = "deploy" /\ mainPc' = "register" /\ triggerEventsChan = <<>>
          /\ triggerEventsChan' = InitialEvents
          /\ executions' = executions /\ invocations' = invocations /\ pc' = pc
        BY <1>3 DEF DeployApps, Accounted
    <2>2. ASSUME NEW t \in Tests PROVE Balance(t)' = Count(t, InitialEvents)
        <3>1. /\ executions[t] \in Nat /\ invocations[t] \in Nat /\ Sending(t) \in Nat
              /\ Sending(t)' = Sending(t)
            BY <1>0, <2>1, BalanceType DEF Sending
        <3>2. Count(t, InitialEvents) \in Nat
            BY TestTriggerAssumption, CountType
        <3>3. Count(t, triggerEventsChan) = 0
            BY <2>1, CountEmpty
        <3>4. executions[t] + 0 + Sending(t) - invocations[t] = 0
            BY <2>1, <3>3 DEF Accounted, Balance
        <3>5. Balance(t)' = executions[t] + Count(t, InitialEvents) + Sending(t) - invocations[t]
            BY <2>1, <3>1 DEF Balance
        <3>6. PICK e \in Nat, n \in Nat, k \in Nat, i \in Nat :
                /\ e = executions[t] /\ n = Count(t, InitialEvents)
                /\ k = Sending(t) /\ i = invocations[t]
            BY <3>1, <3>2
        <3>7. e + 0 + k - i = 0
            BY <3>4, <3>6
        <3>8. Balance(t)' = e + n + k - i
            BY <3>5, <3>6
        <3>9. e + n + k - i = n
            BY <3>7
        <3> QED
            BY <3>6, <3>8, <3>9
    <2> QED
        BY <2>1, <2>2 DEF Accounted
<1>4. CASE \E g \in Goroutines : GoTrigger(g)
    <2>1. PICK g \in Goroutines : GoTrigger(g)
        BY <1>4
    <2>2. /\ pc[g] = "none" /\ pc' = [pc EXCEPT ![g] = LoopTop(g)]
          /\ LoopTop(g) \in {"select", "decide"}
          /\ executions' = executions /\ invocations' = invocations
          /\ triggerEventsChan' = triggerEventsChan
          /\ mainPc = "register" /\ mainPc' = mainPc
        BY <2>1 DEF GoTrigger, Goto, LoopTop
    <2>3. ASSUME NEW t \in Tests PROVE Balance(t)' = Balance(t)
        <3>1. Sending(t)' = Sending(t)
            BY <1>0, <2>2 DEF Sending
        <3> QED
            BY <2>2, <3>1 DEF Balance
    <2> QED
        BY <2>2, <2>3 DEF Accounted
<1>5. ASSUME AddTrigger \/ WatchConfigMap \/ Time \/ Exited \/ UNCHANGED vars
      PROVE  Accounted'
    <2>1. /\ pc' = pc /\ executions' = executions /\ invocations' = invocations
          /\ triggerEventsChan' = triggerEventsChan
        BY <1>5 DEF AddTrigger, WatchConfigMap, Time, RunTimeOver, IntervalOver, Exited, vars,
           triggerVars
    <2>2. \A t \in Tests : Balance(t)' = Balance(t)
        BY <2>1 DEF Balance, Sending
    <2>3. CASE mainPc' = mainPc
        <3>1. mainPc = "deploy" => started' = started
            BY <1>5 DEF AddTrigger, Accounted, WatchConfigMap, Time, Exited, vars, mainVars
        <3> QED
            BY <2>1, <2>2, <2>3, <3>1 DEF Accounted
    <2>4. CASE mainPc' # mainPc
        <3>1. mainPc' = "collect" /\ started = Email /\ AddTrigger
            BY <1>5, <2>4 DEF AddTrigger, WatchConfigMap, Time, Exited, vars, mainVars
        <3>2. mainPc # "deploy"
            BY <3>1 DEF AddTrigger, Accounted
        <3> QED
            BY <2>2, <3>1, <3>2 DEF Accounted
    <2> QED
        BY <2>3, <2>4
<1> QED
    BY <1>1, <1>2, <1>3, <1>4, <1>5 DEF Next, MainStep

LEMMA AccountedInvariant == Spec => []Accounted
    BY InitAccounted, NextAccounted, TypeCorrect, PTL DEF Spec

(* Every call of a trigger function, by any number of goroutines and with   *)
(* any capacity of the channel, leaves exactly one record: it was counted   *)
(* by CollectEventRecords, waits in the channel or is about to be sent.     *)
THEOREM EveryCallAccounted == Spec => []RecordsAccounted
<1>1. TypeOK /\ Accounted => RecordsAccounted
    <2> SUFFICES ASSUME TypeOK, Accounted, NEW t \in Tests
                 PROVE  executions[t] + Count(t, triggerEventsChan) + Sending(t)
                          = invocations[t] + (IF mainPc = "deploy" THEN 0 ELSE Count(t, InitialEvents))
        BY DEF RecordsAccounted, Sending
    <2>1. /\ executions[t] \in Nat /\ Count(t, triggerEventsChan) \in Nat /\ Sending(t) \in Nat
          /\ invocations[t] \in Nat
        BY BalanceType DEF TypeOK
    <2>2. Count(t, InitialEvents) \in Nat
        BY TestTriggerAssumption, CountType
    <2>3. executions[t] + Count(t, triggerEventsChan) + Sending(t) - invocations[t]
            = IF mainPc = "deploy" THEN 0 ELSE Count(t, InitialEvents)
        BY DEF Accounted, Balance
    <2> QED
        BY <2>1, <2>2, <2>3
<1> QED
    BY <1>1, AccountedInvariant, TypeCorrect, PTL

=============================================================================
