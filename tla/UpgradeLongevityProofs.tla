----------------------- MODULE UpgradeLongevityProofs -----------------------
(***************************************************************************)
(* Proofs about UpgradeLongevity for every set of triggers, every channel  *)
(* capacity, every list of hops and every ConfigMap edit.                  *)
(***************************************************************************)
EXTENDS UpgradeLongevity, TestTriggerProofs

(* Leaves are first-order for the most part; the others are left to SMT.    *)
USE ZenonT(10), SMTT(30)

(* What the assumption says of the numbers and of the lists.                *)
LEMMA ConstantTypes == Threshold \in Int /\ MaxConfigUpdates \in Nat
BY UpgradeLongevityAssumption

LEMMA ListTypes ==
    /\ InitialEndpoints \in Seq(HopNames) /\ InitialHops \in Seq(HopNames)
    /\ EmptyHop \notin HopNames
BY UpgradeLongevityAssumption

LEMMA IndexTypes ==
    ASSUME TypeOK
    PROVE  TriggerTypeOK /\ currentUpgradeIndex \in Nat /\ configUpdates \in Nat
<1>1. TriggerTypeOK /\ currentUpgradeIndex \in Nat /\ configUpdates \in 0 .. MaxConfigUpdates
    BY DEF TypeOK
<1> QED
    BY <1>1, ConstantTypes

(* A list without an empty element is a list.                               *)
LEMMA HopsSubset ==
    ASSUME NEW s \in Seq(HopNames)
    PROVE  s \in Hops
BY DEF Hops

(* strings.Split and strings.Join map lists to lists.                       *)
LEMMA SplitJoinType ==
    ASSUME NEW s \in Hops
    PROVE  Split(s) \in Hops /\ Join(s) \in Hops
<1>1. <<EmptyHop>> \in Hops
    <2> DEFINE S == HopNames \cup {EmptyHop}
    <2>1. EmptyHop \in S
        OBVIOUS
    <2> HIDE DEF S
    <2>2. <<EmptyHop>> \in Seq(S)
        BY <2>1
    <2> QED
        BY <2>2 DEF Hops, S
<1>2. <<>> \in Hops
    BY DEF Hops
<1> QED
    BY <1>1, <1>2 DEF Split, Join

(* The value of configMap between two callbacks.                            *)
LEMMA NoConfigMapType == NoConfigMap \in ConfigMapType
<1>1. <<>> \in Seq(HopNames)
    OBVIOUS
<1> QED
    BY <1>1 DEF NoConfigMap, ConfigMapType

LEMMA InitType == Init => TypeOK
<1> SUFFICES ASSUME Init PROVE TypeOK
    OBVIOUS
<1>1. InitialEndpoints \in Hops /\ InitialHops \in Hops
    BY HopsSubset, UpgradeLongevityAssumption
<1>2. <<>> \in Hops /\ <<>> \in Seq(EventTypes) /\ Len(<<>>) <= ChanCap
    BY TestTriggerAssumption DEF Hops
<1>3. /\ pc \in [Goroutines -> States]
      /\ pc[Email] \notin {"wrap", "send", "runAgain", "sendAgain", "unwrap"}
      /\ holder \in [Locks -> Goroutines \cup {Upgrader, Nobody}]
      /\ executions \in [EventTypes -> Nat]
      /\ invocations \in [Goroutines -> Nat]
      /\ upgradeCounter \in [UpgradeTypes -> Nat]
      /\ applied \in [UpgradeTypes -> Hops]
    BY <1>2 DEF Init, States, Goroutines
<1>4. /\ mainPc \in MainStates /\ upc \in UpgradeStates
      /\ triggerType \in UpgradeTypes \cup {NoUpgrade}
      /\ triggerType = NoUpgrade <=> upc \notin {"lock", "run", "send", "unlock", "restore"}
      /\ upc = "none" <=> mainPc \in {"deploy", "register"}
      /\ watch \in {"idle", "endpoints", "hops", "triggers"}
    BY DEF Init, MainStates, UpgradeStates
<1>5. /\ chanClosed \in BOOLEAN /\ stopClosed \in BOOLEAN /\ exited \in BOOLEAN
      /\ runTimeOver \in BOOLEAN /\ collecting \in BOOLEAN /\ appsDeployed \in BOOLEAN
      /\ due \subseteq Goroutines /\ chaosMap \subseteq Goroutines
    BY UpgradeLongevityAssumption DEF Init
<1>6. wg \in Int /\ currentUpgradeIndex \in Nat /\ configUpdates \in 0..MaxConfigUpdates
    BY UpgradeLongevityAssumption DEF Init
<1>7. configMap \in ConfigMapType
    BY NoConfigMapType DEF Init
<1>8. /\ triggerEventsChan \in Seq(EventTypes) /\ Len(triggerEventsChan) <= ChanCap
      /\ endpointList \in Hops /\ schedUpgradeHops \in Hops
      /\ upgradeEndpoints \in Hops /\ upgradeSchedHops \in Hops
    BY <1>1, <1>2 DEF Init
<1> QED
    BY <1>3, <1>4, <1>5, <1>6, <1>7, <1>8 DEF TypeOK, TriggerTypeOK

-----------------------------------------------------------------------------
(* The steps of main keep the types.                                        *)
LEMMA MainType ==
    ASSUME TypeOK, MainStep
    PROVE  TypeOK'
<1> USE DEF TypeOK, mainVars, listVars, upgradeVars, watchVars
<1>1. CASE DeployNewApps
    <2>1. triggerEventsChan' \in Seq(EventTypes) /\ Len(triggerEventsChan') <= ChanCap
        BY <1>1, TestTriggerAssumption DEF DeployNewApps, EventTypes
    <2>2. TriggerTypeOK'
        BY <1>1, <2>1 DEF DeployNewApps, TriggerTypeOK
    <2>3. appsDeployed' \in BOOLEAN /\ mainPc' \in MainStates
        BY <1>1 DEF DeployNewApps, MainStates
    <2> QED
        BY <1>1, <2>2, <2>3 DEF DeployNewApps
<1>2. CASE RegisterUpgrade
    <2>1. TriggerTypeOK'
        BY <1>2 DEF RegisterUpgrade, TriggerTypeOK
    <2>2. mainPc' \in MainStates /\ upc' \in UpgradeStates
        BY <1>2 DEF RegisterUpgrade, MainStates, UpgradeStates
    <2>3. triggerType' = NoUpgrade <=> upc' \notin {"lock", "run", "send", "unlock", "restore"}
        BY <1>2 DEF RegisterUpgrade
    <2> QED
        BY <1>2, <2>1, <2>2, <2>3 DEF RegisterUpgrade
<1>3. CASE GoCollect
    <2>1. collecting' \in BOOLEAN /\ mainPc' \in MainStates
        BY <1>3 DEF GoCollect, MainStates
    <2> QED
        BY <1>3, <2>1, TriggerStutter DEF GoCollect
<1>4. CASE WaitAndClose
    <2>1. chanClosed' \in BOOLEAN /\ mainPc' \in MainStates
        BY <1>4 DEF WaitAndClose, MainStates
    <2>2. TriggerTypeOK'
        BY <1>4, <2>1 DEF WaitAndClose, TriggerTypeOK
    <2> QED
        BY <1>4, <2>1, <2>2 DEF WaitAndClose
<1>5. CASE TearDown
    <2>1. appsDeployed' \in BOOLEAN /\ mainPc' \in MainStates
        BY <1>5 DEF TearDown, MainStates
    <2> QED
        BY <1>5, <2>1, TriggerStutter DEF TearDown
<1>6. CASE \E g \in Goroutines : RegisterTrigger(g)
    <2>1. PICK g \in Goroutines : RegisterTrigger(g)
        BY <1>6
    <2>2. Email \in Goroutines
        BY DEF Goroutines
    <2>3. TriggerTypeOK'
        BY <2>1, <2>2 DEF RegisterTrigger, TriggerTypeOK, Goto, States
    <2> QED
        BY <2>1, <2>3 DEF RegisterTrigger
<1> QED
    BY <1>1, <1>2, <1>3, <1>4, <1>5, <1>6 DEF MainStep

(* The steps of the ConfigMap watch keep the types.                         *)
LEMMA WatchType ==
    ASSUME TypeOK, WatchStep
    PROVE  TypeOK'
<1> USE DEF TypeOK, mainVars, listVars, upgradeVars, watchVars
<1>1. configMap.endpoints \in Hops /\ configMap.hops \in Hops
    BY HopsSubset DEF ConfigMapType
<1>2. CASE WatchEvent
    BY <1>2, UpgradeLongevityAssumption, TriggerStutter DEF WatchEvent
<1>3. CASE SetUpgradeStorageDriverEndpointList
    BY <1>1, <1>3, TriggerStutter DEF SetUpgradeStorageDriverEndpointList
<1>4. CASE SetSchedUpgradeHops
    BY <1>1, <1>4, TriggerStutter DEF SetSchedUpgradeHops
<1>5. CASE SetTrigger
    <2>0. PICK k \in configMap.keys :
             /\ PopulateTriggers({k}, configMap.enabled)
             /\ due' \in {due, due \ {k}}
             /\ configMap' = [configMap EXCEPT !.keys = @ \ {k}]
        BY <1>5 DEF SetTrigger
    <2>1. configMap' \in ConfigMapType
        <3>1. configMap \in ConfigMapType
            OBVIOUS
        <3> HIDE DEF TypeOK
        <3> QED
            BY <2>0, <3>1 DEF ConfigMapType
    <2>2. due' \subseteq Goroutines /\ chaosMap' \subseteq Goroutines
        <3>1. configMap.enabled \subseteq Goroutines
            BY DEF ConfigMapType
        <3>2. k \in Goroutines
            BY DEF ConfigMapType
        <3>3. due \subseteq Goroutines /\ chaosMap \subseteq Goroutines
            BY DEF TriggerTypeOK
        <3> HIDE DEF TypeOK
        <3> QED
            BY <2>0, <3>1, <3>2, <3>3 DEF PopulateTriggers
    <2>3. TriggerTypeOK'
        BY <1>5, <2>2 DEF SetTrigger, TriggerTypeOK
    <2> QED
        BY <1>5, <2>1, <2>3 DEF SetTrigger
<1>6. CASE TriggersSet
    <2>1. configMap' \in ConfigMapType
        BY <1>6, NoConfigMapType DEF TriggersSet
    <2> QED
        BY <1>6, <2>1, TriggerStutter DEF TriggersSet
<1> QED
    BY <1>2, <1>3, <1>4, <1>5, <1>6 DEF WatchStep, WatchCallback

(* The steps of the upgrade goroutine keep the types.                       *)
LEMMA UpgradeType ==
    ASSUME TypeOK, UpgradeStep
    PROVE  TypeOK'
<1> USE DEF TypeOK, mainVars, listVars, upgradeVars, watchVars
<1>0. /\ UpgradeStates = {"none", "split", "splitHops", "check", "lock", "run", "send", "unlock",
                          "restore", "done"}
      /\ UpgradeTypes = {UpgradeVolumeDriver, UpgradeCluster}
      /\ UpgradeTypes \subseteq EventTypes
      /\ NoUpgrade \notin UpgradeTypes
    BY UpgradeLongevityAssumption DEF UpgradeStates, UpgradeTypes, EventTypes, NoUpgrade,
       UpgradeVolumeDriver, UpgradeCluster
<1>1. CASE SplitEndpoints
    BY <1>0, <1>1, SplitJoinType, TriggerStutter DEF SplitEndpoints
<1>2. CASE SplitHops
    BY <1>0, <1>2, SplitJoinType, TriggerStutter DEF SplitHops
<1>3. CASE UpgradeTimeOut
    BY <1>0, <1>3 DEF UpgradeTimeOut, TriggerTypeOK
<1>4. CASE UpgradesCompleted
    <2>1. wg' \in Int /\ stopClosed' \in BOOLEAN /\ upc' \in {"split", "done"}
        <3>1. CASE Threshold = 0
            BY <1>4, <3>1 DEF UpgradesCompleted, TriggerTypeOK
        <3>2. CASE Threshold # 0
            BY <1>4, <3>2 DEF UpgradesCompleted, TriggerTypeOK
        <3> QED
            BY <3>1, <3>2
    <2>2. TriggerTypeOK'
        BY <1>4, <2>1 DEF UpgradesCompleted, TriggerTypeOK
    <2> QED
        BY <1>0, <1>4, <2>1, <2>2 DEF UpgradesCompleted
<1>5. CASE UpgradeNotYet
    BY <1>0, <1>5, TriggerStutter DEF UpgradeNotYet
<1>6. CASE SkipUpgrade
    BY <1>0, <1>6, TriggerStutter DEF SkipUpgrade, UpgradeIsDue
<1>7. CASE ChooseUpgrade
    <2> DEFINE n == upgradeCounter[UpgradeTurn]
               hop == HopsOf(UpgradeTurn)[n + 1]
    <2>1. UpgradeTurn \in UpgradeTypes
        BY <1>0 DEF UpgradeTurn
    <2>2. n \in Nat /\ n < Len(HopsOf(UpgradeTurn)) /\ HopsOf(UpgradeTurn) \in Hops
        BY <1>7, <2>1 DEF ChooseUpgrade, HopsOf
    <2>3. hop \in HopNames \cup {EmptyHop}
        BY <2>2 DEF Hops
    <2>4. Join(<<hop>>) \in Hops
        <3> HIDE DEF hop
        <3>1. <<hop>> \in Seq(HopNames \cup {EmptyHop})
            BY <2>3
        <3> QED
            BY <3>1, SplitJoinType DEF Hops
    <2>5. endpointList' \in Hops /\ schedUpgradeHops' \in Hops
        BY <1>7, <2>4 DEF ChooseUpgrade
    <2>6. TriggerTypeOK'
        BY <1>7, TriggerStutter DEF ChooseUpgrade
    <2> QED
        BY <1>0, <1>7, <2>1, <2>5, <2>6 DEF ChooseUpgrade, UpgradeIsDue
<1>8. CASE UpgradeLock
    BY <1>0, <1>8 DEF UpgradeLock, Acquire, TriggerTypeOK, Locks
<1>9. CASE RunUpgrade
    <2>1. triggerType \in UpgradeTypes
        BY <1>9 DEF RunUpgrade
    <2>2. HopsOfTrigger(triggerType) \in Hops
        BY SplitJoinType DEF HopsOfTrigger
    <2>3. applied[triggerType] \o HopsOfTrigger(triggerType) \in Hops
        BY <2>1, <2>2 DEF Hops
    <2>4. applied' \in [UpgradeTypes -> Hops]
        BY <1>9, <2>1, <2>3 DEF RunUpgrade
    <2> QED
        BY <1>0, <1>9, <2>4, TriggerStutter DEF RunUpgrade
<1>10. CASE UpgradeSend
    <2>1. triggerType \in EventTypes
        BY <1>0, <1>10 DEF UpgradeSend
    <2>2. /\ Append(triggerEventsChan, triggerType) \in Seq(EventTypes)
          /\ Len(Append(triggerEventsChan, triggerType)) = Len(triggerEventsChan) + 1
        BY <2>1, AppendFacts DEF TriggerTypeOK
    <2>3. triggerEventsChan' \in Seq(EventTypes) /\ Len(triggerEventsChan') <= ChanCap
        BY <1>10, <2>2, TestTriggerAssumption DEF UpgradeSend, CanSend, TriggerTypeOK
    <2> QED
        BY <1>0, <1>10, <2>3 DEF UpgradeSend, TriggerTypeOK
<1>11. CASE UpgradeUnlock
    <2>1. /\ holder' = [holder EXCEPT !["disruptiveTriggerLock"] = Nobody] /\ upc' = "restore"
          /\ UNCHANGED <<pc, triggerEventsChan, chanClosed, wg, stopClosed, exited, runTimeOver,
                         due, chaosMap, executions, invocations>>
        BY <1>11 DEF UpgradeUnlock, Release
    <2>2. holder' \in [Locks -> Goroutines \cup {Upgrader, Nobody}]
        BY <2>1 DEF TriggerTypeOK, Locks
    <2>3. TriggerTypeOK'
        BY <2>1, <2>2 DEF TriggerTypeOK
    <2> QED
        BY <1>0, <1>11, <2>1, <2>3 DEF UpgradeUnlock
<1>12. CASE RestoreLists
    BY <1>0, <1>12, SplitJoinType, TriggerStutter DEF RestoreLists
<1> QED
    BY <1>1, <1>2, <1>3, <1>4, <1>5, <1>6, <1>7, <1>8, <1>9, <1>10, <1>11, <1>12 DEF UpgradeStep

(* The collector, the clock and the idle steps keep the types.              *)
LEMMA OtherType ==
    ASSUME TypeOK, Collect \/ CollectorEnds \/ Time \/ Finished
    PROVE  TypeOK'
<1> USE DEF TypeOK, mainVars, listVars, upgradeVars, watchVars
<1>1. CASE Collect
    <2>1. TriggerTypeOK'
        BY <1>1, CollectType DEF Collect
    <2> QED
        BY <1>1, <2>1 DEF Collect
<1>2. CASE CollectorEnds
    <2>1. collecting' \in BOOLEAN /\ TriggerTypeOK'
        BY <1>2, TriggerStutter DEF CollectorEnds
    <2> QED
        BY <1>2, <2>1 DEF CollectorEnds
<1>3. CASE Time
    <2>1. TriggerTypeOK'
        BY <1>3, TimeType DEF Time
    <2> QED
        BY <1>3, <2>1 DEF Time
<1>4. CASE Finished
    BY <1>4, TriggerStutter DEF Finished, vars
<1> QED
    BY <1>1, <1>2, <1>3, <1>4

LEMMA NextType == TypeOK /\ [Next]_vars => TypeOK'
<1> SUFFICES ASSUME TypeOK, [Next]_vars PROVE TypeOK'
    OBVIOUS
<1>1. CASE \E g \in Goroutines : TestStep(g)
    <2>1. TriggerTypeOK'
        BY <1>1, GoroutineType DEF TestStep, TypeOK
    <2> QED
        BY <1>1, <2>1 DEF TestStep, TypeOK, mainVars, listVars, upgradeVars, watchVars
<1>2. CASE UNCHANGED vars
    BY <1>2, TriggerStutter DEF TypeOK, vars, mainVars, listVars, upgradeVars, watchVars
<1> QED
    BY <1>1, <1>2, MainType, UpgradeType, WatchType, OtherType DEF Next

(* In every reachable state of the {UpgradeLongevity} test the state has    *)
(* its type; in particular triggerEventsChan never holds more than its      *)
(* capacity, and an upgrade is chosen exactly from lock to restore.         *)
THEOREM TypeCorrect == Spec => []TypeOK
    BY InitType, NextType, PTL DEF Spec

-----------------------------------------------------------------------------
(* The locks of the trigger goroutines, and the one the upgrade goroutine   *)
(* holds while it upgrades.                                                 *)
HoldsLocks ==
    /\ TestsHoldLocks
    /\ upc \in {"run", "send", "unlock"} => holder["disruptiveTriggerLock"] = Upgrader

(* The steps of the upgrade goroutine keep it.                              *)
LEMMA UpgradeHolds ==
    ASSUME TypeOK, HoldsLocks, UpgradeStep
    PROVE  HoldsLocks'
<1>0. /\ holder \in [Locks -> Goroutines \cup {Upgrader, Nobody}]
      /\ Nobody \notin Tests /\ Upgrader \notin Tests /\ Nobody # Upgrader
    BY TestTriggerAssumption DEF TypeOK, TriggerTypeOK, Nobody, Upgrader
<1>1. CASE UpgradeLock
    BY <1>0, <1>1 DEF UpgradeLock, Acquire, HoldsLocks, TestsHoldLocks, Locks
<1>2. CASE UpgradeUnlock
    BY <1>0, <1>2 DEF UpgradeUnlock, Release, HoldsLocks, TestsHoldLocks, Locks
<1>3. CASE RunUpgrade \/ UpgradeSend
    BY <1>0, <1>3 DEF RunUpgrade, UpgradeSend, HoldsLocks, TestsHoldLocks, triggerVars
<1>4. ASSUME SplitEndpoints \/ SplitHops \/ UpgradeTimeOut \/ UpgradesCompleted \/ UpgradeNotYet
              \/ SkipUpgrade \/ ChooseUpgrade \/ RestoreLists
      PROVE  HoldsLocks'
    <2>1. pc' = pc /\ holder' = holder /\ upc' \notin {"run", "send", "unlock"}
        <3> USE DEF triggerVars
        <3>1. CASE SplitEndpoints \/ SplitHops \/ UpgradeTimeOut
            BY <3>1 DEF SplitEndpoints, SplitHops, UpgradeTimeOut
        <3>2. CASE UpgradesCompleted
            BY <3>2 DEF UpgradesCompleted
        <3>3. CASE UpgradeNotYet \/ SkipUpgrade
            BY <3>3 DEF UpgradeNotYet, SkipUpgrade
        <3>4. CASE ChooseUpgrade
            BY <3>4 DEF ChooseUpgrade
        <3>5. CASE RestoreLists
            BY <3>5 DEF RestoreLists
        <3> QED
            BY <1>4, <3>1, <3>2, <3>3, <3>4, <3>5
    <2> QED
        BY <1>0, <2>1 DEF HoldsLocks, TestsHoldLocks
<1> QED
    BY <1>1, <1>2, <1>3, <1>4 DEF UpgradeStep

LEMMA NextHolds == TypeOK /\ HoldsLocks /\ [Next]_vars => HoldsLocks'
<1> SUFFICES ASSUME TypeOK, HoldsLocks, [Next]_vars PROVE HoldsLocks'
    OBVIOUS
<1>1. CASE \E g \in Goroutines : TestStep(g)
    BY <1>1, GoroutineHolds DEF TestStep, TypeOK, HoldsLocks, upgradeVars, Locks
<1>2. CASE UpgradeStep
    BY <1>2, UpgradeHolds
<1>3. CASE \E g \in Goroutines : RegisterTrigger(g)
    <2>1. PICK g \in Goroutines : RegisterTrigger(g)
        BY <1>3
    <2>2. /\ pc' = [pc EXCEPT ![g] = "select"] /\ pc \in [Goroutines -> States]
          /\ holder' = holder /\ upc' = upc /\ Tests \subseteq Goroutines
        BY <2>1 DEF RegisterTrigger, Goto, upgradeVars, TypeOK, TriggerTypeOK, Goroutines
    <2> QED
        BY <2>2 DEF HoldsLocks, TestsHoldLocks
<1>4. CASE RegisterUpgrade
    BY <1>4 DEF RegisterUpgrade, HoldsLocks, TestsHoldLocks
<1>5. ASSUME \/ DeployNewApps \/ GoCollect \/ WaitAndClose \/ TearDown \/ WatchStep
             \/ Collect \/ CollectorEnds \/ Time \/ Finished \/ UNCHANGED vars
      PROVE  HoldsLocks'
    <2>1. pc' = pc /\ holder' = holder /\ upc' = upc
        <3> USE DEF triggerVars, upgradeVars
        <3>1. CASE DeployNewApps \/ GoCollect \/ WaitAndClose \/ TearDown
            BY <3>1 DEF DeployNewApps, GoCollect, WaitAndClose, TearDown
        <3>2. CASE WatchStep
            BY <3>2 DEF WatchStep, WatchCallback, WatchEvent,
               SetUpgradeStorageDriverEndpointList, SetSchedUpgradeHops, SetTrigger,
               TriggersSet
        <3>3. CASE Collect \/ CollectorEnds \/ Finished \/ UNCHANGED vars
            BY <3>3 DEF Collect, CollectEventRecord, CollectorEnds, Finished, vars
        <3>4. CASE Time
            BY <3>4 DEF Time, RunTimeOver, IntervalOver
        <3> QED
            BY <1>5, <3>1, <3>2, <3>3, <3>4
    <2> QED
        BY <2>1 DEF HoldsLocks, TestsHoldLocks
<1> QED
    BY <1>1, <1>2, <1>3, <1>4, <1>5 DEF Next, MainStep

(* The locks the {UpgradeLongevity} goroutines hold, in every reachable     *)
(* state: the inductive fact under the two theorems that follow.            *)
THEOREM LocksHeld == Spec => []HoldsLocks
<1>1. Init => HoldsLocks
    BY DEF Init, HoldsLocks, TestsHoldLocks, Goroutines
<1> QED
    BY <1>1, NextHolds, TypeCorrect, PTL DEF Spec

(* disruptiveTriggerWrapper does its work: with any set of plain, backup    *)
(* and disruptive triggers, no two trigger functions ever run at once.      *)
THEOREM Exclusion == Spec => []TriggersExclusive
<1>1. HoldsLocks => TriggersExclusive
    BY DEF HoldsLocks, TestsHoldLocks, TriggersExclusive, Testing
<1> QED
    BY <1>1, LocksHeld, PTL

(* The upgrade goroutine takes only disruptiveTriggerLock, and that is      *)
(* enough: an upgrade never overlaps a disruptive trigger.                  *)
THEOREM UpgradeExclusion == Spec => []UpgradeExcludesDisruptive
<1>1. HoldsLocks => UpgradeExcludesDisruptive
    <2> SUFFICES ASSUME HoldsLocks, Upgrading, NEW g \in DisruptiveTriggerFunctions, Testing(g)
                 PROVE  FALSE
        BY DEF UpgradeExcludesDisruptive
    <2>1. g \in Tests /\ g \notin BackupFunctions /\ Upgrader \notin Tests
        BY TestTriggerAssumption DEF Tests
    <2>2. holder["disruptiveTriggerLock"] = g
        BY <2>1 DEF HoldsLocks, TestsHoldLocks, Testing
    <2>3. holder["disruptiveTriggerLock"] = Upgrader
        BY DEF HoldsLocks, TestsHoldLocks, Upgrading
    <2> QED
        BY <2>1, <2>2, <2>3
<1> QED
    BY <1>1, LocksHeld, PTL

-----------------------------------------------------------------------------
(* The wait group counts what main waits for, main has registered everybody *)
(* when it waits, and it closes the channel only after the wait.            *)
WaitInv ==
    /\ WaitGroupCounts
    /\ mainPc \notin {"deploy", "register"} => \A g \in Goroutines : pc[g] # "none"
    /\ chanClosed => mainPc \in {"teardown", "done"}
    /\ NoSendOnClosedChannel

LEMMA RunningFinite == IsFiniteSet(Running) /\ Cardinality(Running) \in Nat
<1>1. IsFiniteSet(Goroutines)
    BY FS_AddElement, TestTriggerAssumption DEF Goroutines
<1>2. Running \in SUBSET Goroutines
    BY DEF Running
<1> QED
    BY <1>1, <1>2, FS_Subset, FS_CardinalityType

LEMMA GoroutineWait ==
    ASSUME TypeOK, WaitInv, NEW g \in Goroutines, TestStep(g)
    PROVE  WaitInv'
<1>1. /\ pc[g] \notin {"none", "done"}
      /\ pc'[g] # "none"
      /\ \A h \in Goroutines : h # g => pc'[h] = pc[h]
      /\ \/ pc'[g] # "done" /\ wg' = wg
         \/ pc'[g] = "done" /\ wg' = wg - 1
      /\ chanClosed' = chanClosed
    BY GoroutineRunning DEF TestStep, TypeOK
<1>2. mainPc' = mainPc /\ upc' = upc
    BY DEF TestStep, mainVars, upgradeVars
<1>3. WaitGroupCounts'
    <2>1. CASE pc'[g] # "done"
        <3>1. Running' = Running
            BY <1>1, <2>1 DEF Running
        <3> QED
            BY <1>1, <1>2, <2>1, <3>1 DEF WaitInv, WaitGroupCounts
    <2>2. CASE pc'[g] = "done"
        <3>1. Running' = Running \ {g} /\ g \in Running
            BY <1>1, <2>2 DEF Running
        <3>2. Cardinality(Running') = Cardinality(Running) - 1
            BY <3>1, RunningFinite, FS_RemoveElement
        <3> QED
            BY <1>1, <1>2, <2>2, <3>2, RunningFinite DEF WaitInv, WaitGroupCounts
    <2> QED
        BY <2>1, <2>2
<1> QED
    BY <1>1, <1>2, <1>3 DEF WaitInv, NoSendOnClosedChannel

LEMMA UpgradeWait ==
    ASSUME TypeOK, WaitInv, UpgradeStep
    PROVE  WaitInv'
<1>1. /\ pc' = pc /\ chanClosed' = chanClosed /\ mainPc' = mainPc
      /\ upc \notin {"none", "done"} /\ upc' # "none"
      /\ \/ upc' # "done" /\ wg' = wg
         \/ upc' = "done" /\ wg' = wg - 1
    <2> USE DEF triggerVars, mainVars
    <2>1. CASE SplitEndpoints \/ SplitHops \/ UpgradeTimeOut \/ UpgradeNotYet
        BY <2>1 DEF SplitEndpoints, SplitHops, UpgradeTimeOut, UpgradeNotYet
    <2>2. CASE UpgradesCompleted
        BY <2>2 DEF UpgradesCompleted
    <2>3. CASE SkipUpgrade \/ ChooseUpgrade
        BY <2>3 DEF SkipUpgrade, ChooseUpgrade, UpgradeIsDue
    <2>4. CASE UpgradeLock \/ RunUpgrade \/ UpgradeSend \/ UpgradeUnlock \/ RestoreLists
        BY <2>4 DEF UpgradeLock, RunUpgrade, UpgradeSend, UpgradeUnlock, RestoreLists
    <2> QED
        BY <2>1, <2>2, <2>3, <2>4 DEF UpgradeStep
<1>2. Running' = Running
    BY <1>1 DEF Running
<1>3. WaitGroupCounts'
    BY <1>1, <1>2, RunningFinite DEF WaitInv, WaitGroupCounts
<1> QED
    BY <1>1, <1>3 DEF WaitInv, NoSendOnClosedChannel

LEMMA MainWait ==
    ASSUME TypeOK, WaitInv, MainStep
    PROVE  WaitInv'
<1>0. /\ pc \in [Goroutines -> States]
      /\ upc = "none" <=> mainPc \in {"deploy", "register"}
    BY DEF TypeOK, TriggerTypeOK
<1>1. CASE \E g \in Goroutines : RegisterTrigger(g)
    <2>1. PICK g \in Goroutines : RegisterTrigger(g)
        BY <1>1
    <2>2. /\ pc[g] = "none" /\ pc' = [pc EXCEPT ![g] = "select"] /\ wg' = wg + 1
          /\ mainPc = "register" /\ mainPc' = mainPc /\ upc' = upc /\ chanClosed' = chanClosed
        BY <2>1 DEF RegisterTrigger, Goto, mainVars, upgradeVars
    <2>3. Running' = Running \cup {g} /\ g \notin Running
        BY <1>0, <2>2 DEF Running, TypeOK, TriggerTypeOK
    <2>4. Cardinality(Running') = Cardinality(Running) + 1
        BY <2>3, RunningFinite, FS_AddElement
    <2> QED
        BY <2>2, <2>4, RunningFinite DEF WaitInv, WaitGroupCounts, NoSendOnClosedChannel
<1>2. CASE RegisterUpgrade
    <2>1. Running' = Running
        BY <1>2 DEF RegisterUpgrade, Running
    <2>2. upc = "none" /\ upc' = "split" /\ wg' = wg + 1 /\ chanClosed' = chanClosed
        BY <1>0, <1>2 DEF RegisterUpgrade, TypeOK
    <2>3. WaitGroupCounts'
        BY <2>1, <2>2, RunningFinite DEF WaitInv, WaitGroupCounts
    <2> QED
        BY <1>2, <2>2, <2>3 DEF RegisterUpgrade, Registered, WaitInv, NoSendOnClosedChannel
<1>3. CASE WaitAndClose
    <2>1. /\ mainPc = "wait" /\ wg = 0 /\ mainPc' = "teardown"
          /\ pc' = pc /\ upc' = upc /\ wg' = wg
        BY <1>3 DEF WaitAndClose, upgradeVars
    <2>2. Running' = Running
        BY <2>1 DEF Running
    <2>3. upc # "none" /\ \A g \in Goroutines : pc[g] # "none"
        BY <2>1 DEF TypeOK, WaitInv
    <2>4. Cardinality(Running) = 0 /\ upc = "done"
        BY <2>1, <2>3, RunningFinite DEF WaitInv, WaitGroupCounts
    <2>5. Running = {}
        BY <2>4, RunningFinite, FS_EmptySet
    <2>6. \A g \in Goroutines : pc[g] = "done"
        BY <2>3, <2>5 DEF Running
    <2> QED
        BY <2>1, <2>2, <2>3, <2>4, <2>6 DEF WaitInv, WaitGroupCounts, NoSendOnClosedChannel
<1>4. CASE DeployNewApps \/ GoCollect \/ TearDown
    <2>1. /\ pc' = pc /\ upc' = upc /\ wg' = wg /\ chanClosed' = chanClosed
          /\ mainPc' \in {"deploy", "register"} <=> mainPc \in {"deploy", "register"}
          /\ mainPc \in {"teardown", "done"} => mainPc' \in {"teardown", "done"}
        BY <1>4 DEF DeployNewApps, GoCollect, TearDown, triggerVars, upgradeVars
    <2>2. Running' = Running
        BY <2>1 DEF Running
    <2> QED
        BY <2>1, <2>2 DEF WaitInv, WaitGroupCounts, NoSendOnClosedChannel
<1> QED
    BY <1>1, <1>2, <1>3, <1>4 DEF MainStep

LEMMA NextWait == TypeOK /\ WaitInv /\ [Next]_vars => WaitInv'
<1> SUFFICES ASSUME TypeOK, WaitInv, [Next]_vars PROVE WaitInv'
    OBVIOUS
<1>1. ASSUME \/ WatchStep \/ Collect \/ CollectorEnds \/ Time \/ Finished \/ UNCHANGED vars
      PROVE  WaitInv'
    <2>1. pc' = pc /\ upc' = upc /\ wg' = wg /\ chanClosed' = chanClosed /\ mainPc' = mainPc
        <3> USE DEF triggerVars, upgradeVars, mainVars
        <3>1. CASE WatchStep
            BY <3>1 DEF WatchStep, WatchCallback, WatchEvent,
               SetUpgradeStorageDriverEndpointList, SetSchedUpgradeHops, SetTrigger,
               TriggersSet
        <3>2. CASE Collect \/ CollectorEnds \/ Finished \/ UNCHANGED vars
            BY <3>2 DEF Collect, CollectEventRecord, CollectorEnds, Finished, vars
        <3>3. CASE Time
            BY <3>3 DEF Time, RunTimeOver, IntervalOver
        <3> QED
            BY <1>1, <3>1, <3>2, <3>3
    <2>2. Running' = Running
        BY <2>1 DEF Running
    <2> QED
        BY <2>1, <2>2 DEF WaitInv, WaitGroupCounts, NoSendOnClosedChannel
<1> QED
    BY <1>1, GoroutineWait, UpgradeWait, MainWait DEF Next

LEMMA WaitInvariant == Spec => []WaitInv
<1>1. Init => WaitInv
    <2> SUFFICES ASSUME Init PROVE WaitInv
        OBVIOUS
    <2>1. Running = {}
        BY DEF Init, Running
    <2>2. WaitGroupCounts
        BY <2>1, FS_EmptySet DEF Init, WaitGroupCounts
    <2> QED
        BY <2>2 DEF Init, WaitInv, NoSendOnClosedChannel
<1> QED
    BY <1>1, NextWait, TypeCorrect, PTL DEF Spec

(* main registers before it waits, and every goroutine is done exactly once:*)
(* the counter of the wait group is the number of goroutines still running, *)
(* for any number of triggers.                                              *)
THEOREM WaitGroupExact == Spec => []WaitGroupCounts
<1>1. WaitInv => WaitGroupCounts
    BY DEF WaitInv
<1> QED
    BY <1>1, WaitInvariant, PTL

(* close(triggerEventsChan) comes after the last send: no trigger and no    *)
(* upgrade can panic with a send on a closed channel.                       *)
THEOREM NoLateSend == Spec => []NoSendOnClosedChannel
<1>1. WaitInv => NoSendOnClosedChannel
    BY DEF WaitInv
<1> QED
    BY <1>1, WaitInvariant, PTL

-----------------------------------------------------------------------------
(* Before main has deployed nothing runs and nothing was sent; every call   *)
(* of a trigger function is counted, in the channel or about to be sent;    *)
(* the index of the upgrade goroutine is never behind the upgrades it has   *)
(* started; and between the choice of an upgrade and its end every enabled  *)
(* trigger has been counted as often as the choice asked for.               *)
ThresholdInv ==
    /\ configUpdates = 0 => watch = "idle"
    /\ mainPc = "deploy" => triggerEventsChan = <<>> /\ \A g \in Goroutines : pc[g] = "none"
    /\ \A t \in Tests : Balance(t) = 0
    /\ UpgradesStarted <= currentUpgradeIndex
    /\ configUpdates = 0 /\ triggerType # NoUpgrade
         => MinTestExecCountAtLeast(currentUpgradeIndex * Threshold)

(* None of the records main leaves is of a trigger.                         *)
LEMMA NoTestAtFirst ==
    ASSUME NEW t \in Tests
    PROVE  Count(t, InitialEvents) = 0
<1>1. {i \in 1 .. Len(InitialEvents) : InitialEvents[i] = t} = {}
    BY UpgradeLongevityAssumption
<1> QED
    BY <1>1, FS_EmptySet DEF Count

LEMMA InitThreshold == Init => ThresholdInv
<1> SUFFICES ASSUME Init PROVE ThresholdInv
    OBVIOUS
<1>1. ASSUME NEW t \in Tests PROVE Balance(t) = 0
    <2>1. t \in EventTypes /\ t \in Goroutines
        BY DEF EventTypes, Goroutines
    <2>2. executions[t] = 0 /\ invocations[t] = 0 /\ Sending(t) = 0
        BY <2>1 DEF Init, Sending
    <2>3. Count(t, triggerEventsChan) = 0
        BY CountEmpty DEF Init
    <2> QED
        BY <2>2, <2>3 DEF Balance
<1>2. UpgradesStarted <= currentUpgradeIndex
    BY DEF Init, UpgradesStarted, UpgradeTypes
<1> QED
    BY <1>1, <1>2 DEF Init, ThresholdInv

(* A step that leaves the upgrade goroutine and the ConfigMap alone keeps   *)
(* its part of the invariant, as long as no counter falls.                  *)
LEMMA ThresholdFrame ==
    ASSUME TypeOK, ThresholdInv, UNCHANGED <<upgradeCounter, triggerType, currentUpgradeIndex>>,
           UNCHANGED <<watch, configUpdates, chaosMap>>,
           \A t \in Tests : executions'[t] \in Nat /\ executions[t] <= executions'[t]
    PROVE  /\ configUpdates' = 0 => watch' = "idle"
           /\ (UpgradesStarted <= currentUpgradeIndex)'
           /\ configUpdates' = 0 /\ triggerType' # NoUpgrade
                => MinTestExecCountAtLeast(currentUpgradeIndex * Threshold)'
<1>1. (UpgradesStarted <= currentUpgradeIndex)'
    BY DEF ThresholdInv, UpgradesStarted
<1>2. ASSUME configUpdates' = 0, triggerType' # NoUpgrade, NEW t \in Tests, t \in chaosMap'
      PROVE  executions'[t] >= currentUpgradeIndex' * Threshold
    <2> DEFINE n == currentUpgradeIndex * Threshold
    <2>1. executions[t] >= n
        BY <1>2 DEF ThresholdInv, MinTestExecCountAtLeast
    <2>2. executions[t] \in Nat /\ n \in Int
        <3>1. TriggerTypeOK /\ currentUpgradeIndex \in Nat
            BY IndexTypes
        <3>2. executions[t] \in Nat
            BY <3>1, BalanceType
        <3> QED
            BY <3>1, <3>2, ConstantTypes
    <2>3. executions'[t] \in Nat /\ executions[t] <= executions'[t]
        OBVIOUS
    <2>4. currentUpgradeIndex' * Threshold = n
        OBVIOUS
    <2> HIDE DEF n
    <2>5. PICK x \in Nat, y \in Nat, m \in Int : x = executions[t] /\ y = executions'[t] /\ m = n
        BY <2>2, <2>3
    <2>6. y >= m
        BY <2>1, <2>3, <2>5
    <2> QED
        BY <2>4, <2>5, <2>6
<1> QED
    BY <1>1, <1>2 DEF ThresholdInv, MinTestExecCountAtLeast

LEMMA GoroutineThreshold ==
    ASSUME TypeOK, ThresholdInv, NEW g \in Goroutines, TestStep(g)
    PROVE  ThresholdInv'
<1>1. TriggerTypeOK /\ GoroutineStep(g)
    BY DEF TypeOK, TestStep
<1>2. \A t \in Tests : Balance(t)' = Balance(t)
    BY <1>1, GoroutineBalance
<1>3. /\ UNCHANGED <<upgradeCounter, triggerType, currentUpgradeIndex, watch, configUpdates>>
      /\ mainPc' = mainPc
    BY DEF TestStep, mainVars, upgradeVars, watchVars
<1>4. executions' = executions /\ chaosMap' = chaosMap
    BY <1>1 DEF GoroutineStep, Select, TimeOut, Decide, Lock, WrapLock, TriggerBody, SendRecord,
       Unwrap, Unlock
<1>5. mainPc # "deploy"
    BY <1>1, GoroutineRunning DEF ThresholdInv
<1>6. \A t \in Tests : executions'[t] \in Nat /\ executions[t] <= executions'[t]
    <2>1. \A t \in Tests : executions[t] \in Nat
        BY <1>1, BalanceType
    <2> QED
        BY <1>4, <2>1
<1> QED
    BY <1>2, <1>3, <1>4, <1>5, <1>6, ThresholdFrame DEF ThresholdInv

LEMMA CollectThreshold ==
    ASSUME TypeOK, ThresholdInv, Collect
    PROVE  ThresholdInv'
<1>1. TriggerTypeOK /\ CollectEventRecord
    BY DEF TypeOK, Collect
<1>2. \A t \in Tests : Balance(t)' = Balance(t)
    BY <1>1, CollectBalance
<1>3. /\ UNCHANGED <<upgradeCounter, triggerType, currentUpgradeIndex, watch, configUpdates>>
      /\ mainPc' = mainPc /\ chaosMap' = chaosMap
    BY DEF Collect, CollectEventRecord, mainVars, upgradeVars, watchVars
<1>4. mainPc # "deploy"
    BY <1>1 DEF ThresholdInv, CollectEventRecord
<1>5. ASSUME NEW t \in Tests PROVE executions'[t] \in Nat /\ executions[t] <= executions'[t]
    <2>1. t \in EventTypes /\ executions \in [EventTypes -> Nat]
        BY <1>1 DEF EventTypes, TriggerTypeOK
    <2> QED
        BY <1>1, <2>1 DEF CollectEventRecord
<1> QED
    BY <1>2, <1>3, <1>4, <1>5, ThresholdFrame DEF ThresholdInv

LEMMA MainThreshold ==
    ASSUME TypeOK, ThresholdInv, MainStep
    PROVE  ThresholdInv'
<1>0. TriggerTypeOK /\ pc \in [Goroutines -> States] /\ Tests \subseteq Goroutines
    BY DEF TypeOK, TriggerTypeOK, Goroutines
<1>1. /\ UNCHANGED <<upgradeCounter, triggerType, currentUpgradeIndex, watch, configUpdates>>
      /\ executions' = executions /\ invocations' = invocations /\ chaosMap' = chaosMap
    BY DEF MainStep, DeployNewApps, RegisterUpgrade, GoCollect, WaitAndClose, TearDown,
       RegisterTrigger, triggerVars, upgradeVars, watchVars
<1>2. \A t \in Tests : executions'[t] \in Nat /\ executions[t] <= executions'[t]
    <2>1. \A t \in Tests : executions[t] \in Nat
        BY <1>0, BalanceType
    <2>2. executions' = executions
        BY <1>1
    <2> QED
        BY <2>1, <2>2
<1>3. ASSUME NEW t \in Tests PROVE Balance(t)' = Balance(t)
    <2>1. Sending(t)' = Sending(t)
        <3>1. CASE \E g \in Goroutines : RegisterTrigger(g)
            BY <1>0, <3>1 DEF RegisterTrigger, Goto, Sending
        <3>2. CASE ~\E g \in Goroutines : RegisterTrigger(g)
            <4>1. pc' = pc
                BY <3>2 DEF MainStep, DeployNewApps, RegisterUpgrade, GoCollect, WaitAndClose,
                   TearDown, triggerVars
            <4> QED
                BY <4>1 DEF Sending
        <3> QED
            BY <3>1, <3>2
    <2>2. Count(t, triggerEventsChan)' = Count(t, triggerEventsChan)
        <3>1. CASE DeployNewApps
            <4>1. triggerEventsChan = <<>> /\ triggerEventsChan' = InitialEvents
                BY <3>1 DEF DeployNewApps, ThresholdInv
            <4>2. Count(t, <<>>) = 0 /\ Count(t, InitialEvents) = 0
                BY CountEmpty, NoTestAtFirst
            <4> QED
                BY <4>1, <4>2
        <3>2. CASE ~DeployNewApps
            BY <3>2 DEF MainStep, RegisterUpgrade, GoCollect, WaitAndClose, TearDown,
               RegisterTrigger, triggerVars
        <3> QED
            BY <3>1, <3>2
    <2> QED
        BY <1>1, <2>1, <2>2 DEF Balance
<1>4. mainPc' # "deploy"
    BY DEF MainStep, DeployNewApps, RegisterUpgrade, GoCollect, WaitAndClose, TearDown,
       RegisterTrigger, mainVars
<1> QED
    BY <1>1, <1>2, <1>3, <1>4, ThresholdFrame DEF ThresholdInv

LEMMA UpgradeThreshold ==
    ASSUME TypeOK, ThresholdInv, UpgradeStep
    PROVE  ThresholdInv'
<1>0. /\ TriggerTypeOK /\ currentUpgradeIndex \in Nat /\ Threshold \in Int
      /\ upgradeCounter \in [UpgradeTypes -> Nat]
      /\ UpgradeTypes = {UpgradeVolumeDriver, UpgradeCluster}
      /\ UpgradeVolumeDriver # UpgradeCluster
      /\ NoUpgrade \notin UpgradeTypes
      /\ UpgradesStarted <= currentUpgradeIndex
    BY UpgradeLongevityAssumption DEF TypeOK, UpgradeTypes, UpgradeVolumeDriver, UpgradeCluster,
       NoUpgrade, ThresholdInv
<1>1. /\ UNCHANGED <<watch, configUpdates, executions, invocations, chaosMap, mainPc, pc>>
      /\ mainPc # "deploy"
    <2> USE DEF triggerVars, mainVars, watchVars
    <2>1. UNCHANGED <<watch, configUpdates, executions, invocations, chaosMap, mainPc, pc>>
        <3>1. CASE SplitEndpoints \/ SplitHops \/ UpgradeTimeOut \/ UpgradesCompleted \/ UpgradeNotYet
            BY <3>1 DEF SplitEndpoints, SplitHops, UpgradeTimeOut, UpgradesCompleted, UpgradeNotYet
        <3>2. CASE SkipUpgrade \/ ChooseUpgrade
            BY <3>2 DEF SkipUpgrade, ChooseUpgrade
        <3>3. CASE UpgradeLock \/ RunUpgrade \/ UpgradeSend \/ UpgradeUnlock \/ RestoreLists
            BY <3>3 DEF UpgradeLock, RunUpgrade, UpgradeSend, UpgradeUnlock, RestoreLists
        <3> QED
            BY <3>1, <3>2, <3>3 DEF UpgradeStep
    <2>2. upc # "none"
        BY DEF UpgradeStep, SplitEndpoints, SplitHops, UpgradeTimeOut, UpgradesCompleted,
           UpgradeNotYet, SkipUpgrade, ChooseUpgrade, UpgradeIsDue, UpgradeLock, RunUpgrade,
           UpgradeSend, UpgradeUnlock, RestoreLists
    <2> QED
        BY <2>1, <2>2 DEF TypeOK
<1>2. ASSUME NEW t \in Tests PROVE Balance(t)' = Balance(t)
    <2>1. Count(t, triggerEventsChan)' = Count(t, triggerEventsChan)
        <3>1. CASE UpgradeSend
            <4>1. triggerType \in UpgradeTypes /\ triggerType # t /\ triggerType \in EventTypes
                BY <1>0, <3>1, UpgradeLongevityAssumption DEF UpgradeSend, TypeOK, EventTypes
            <4>2. Count(t, triggerEventsChan)' = Count(t, triggerEventsChan) + 0
                BY <1>0, <3>1, <4>1, CountAppend DEF UpgradeSend, TriggerTypeOK
            <4>3. PICK m \in Nat : m = Count(t, triggerEventsChan)
                BY <1>0, BalanceType
            <4> QED
                BY <4>2, <4>3
        <3>2. CASE ~UpgradeSend
            <4>1. triggerEventsChan' = triggerEventsChan
                BY <3>2 DEF UpgradeStep, SplitEndpoints, SplitHops, UpgradeTimeOut,
                   UpgradesCompleted, UpgradeNotYet, SkipUpgrade, ChooseUpgrade, UpgradeLock,
                   RunUpgrade, UpgradeUnlock, RestoreLists, triggerVars
            <4> QED
                BY <4>1
        <3> QED
            BY <3>1, <3>2
    <2> QED
        BY <1>1, <2>1 DEF Balance, Sending
<1>3. \A t \in Tests : executions'[t] \in Nat /\ executions[t] <= executions'[t]
    <2>1. \A t \in Tests : executions[t] \in Nat
        BY <1>0, BalanceType
    <2>2. executions' = executions
        BY <1>1
    <2> QED
        BY <2>1, <2>2
<1>4. CASE ChooseUpgrade
    <2>1. /\ triggerType = NoUpgrade /\ triggerType' \in UpgradeTypes
          /\ currentUpgradeIndex' = currentUpgradeIndex + 1 /\ upgradeCounter' = upgradeCounter
          /\ MinTestExecCountAtLeast((currentUpgradeIndex + 1) * Threshold)
        BY <1>0, <1>4 DEF ChooseUpgrade, UpgradeIsDue, UpgradeTurn, TypeOK
    <2>2. UpgradesStarted' = UpgradesStarted + 1 /\ UpgradesStarted \in Nat
        BY <1>0, <2>1 DEF UpgradesStarted
    <2>3. (UpgradesStarted <= currentUpgradeIndex)'
        BY <1>0, <2>1, <2>2
    <2>4. MinTestExecCountAtLeast(currentUpgradeIndex * Threshold)'
        BY <1>1, <2>1 DEF MinTestExecCountAtLeast
    <2> QED
        BY <1>1, <1>2, <2>3, <2>4 DEF ThresholdInv
<1>5. CASE SkipUpgrade
    <2>1. /\ triggerType = NoUpgrade /\ triggerType' = NoUpgrade
          /\ currentUpgradeIndex' = currentUpgradeIndex + 1 /\ upgradeCounter' = upgradeCounter
        BY <1>5 DEF SkipUpgrade, UpgradeIsDue, TypeOK
    <2>2. UpgradesStarted' = UpgradesStarted /\ UpgradesStarted \in Nat
        BY <1>0, <2>1 DEF UpgradesStarted
    <2> QED
        BY <1>0, <1>1, <1>2, <2>1, <2>2 DEF ThresholdInv
<1>6. CASE RestoreLists
    <2>1. /\ triggerType \in UpgradeTypes /\ triggerType' = NoUpgrade
          /\ currentUpgradeIndex' = currentUpgradeIndex
          /\ upgradeCounter' = [upgradeCounter EXCEPT ![triggerType] = @ + 1]
        BY <1>6 DEF RestoreLists, TypeOK
    <2>2. UpgradesStarted' = UpgradesStarted
        BY <1>0, <2>1 DEF UpgradesStarted
    <2> QED
        BY <1>0, <1>1, <1>2, <2>1, <2>2 DEF ThresholdInv
<1>7. ASSUME ~ChooseUpgrade, ~SkipUpgrade, ~RestoreLists
      PROVE  ThresholdInv'
    <2>1. UNCHANGED <<upgradeCounter, triggerType, currentUpgradeIndex>>
        BY <1>7 DEF UpgradeStep, SplitEndpoints, SplitHops, UpgradeTimeOut, UpgradesCompleted,
           UpgradeNotYet, UpgradeLock, RunUpgrade, UpgradeSend, UpgradeUnlock
    <2> QED
        BY <1>1, <1>2, <1>3, <2>1, ThresholdFrame DEF ThresholdInv
<1> QED
    BY <1>4, <1>5, <1>6, <1>7

LEMMA OtherThreshold ==
    ASSUME TypeOK, ThresholdInv,
           WatchStep \/ CollectorEnds \/ Time \/ Finished \/ UNCHANGED vars
    PROVE  ThresholdInv'
<1>0. TriggerTypeOK /\ configUpdates \in Nat
    BY IndexTypes
<1>1. /\ UNCHANGED <<pc, triggerEventsChan, executions, invocations, mainPc>>
      /\ UNCHANGED <<upgradeCounter, triggerType, currentUpgradeIndex>>
    <2> USE DEF triggerVars, mainVars, upgradeVars
    <2>1. CASE WatchStep
        BY <2>1 DEF WatchStep, WatchCallback, WatchEvent, SetUpgradeStorageDriverEndpointList,
           SetSchedUpgradeHops, SetTrigger, TriggersSet
    <2>2. CASE CollectorEnds \/ Time \/ Finished \/ UNCHANGED vars
        BY <2>2 DEF CollectorEnds, Time, RunTimeOver, IntervalOver, Finished, vars
    <2> QED
        BY <2>1, <2>2
<1>2. \A t \in Tests : Balance(t)' = Balance(t)
    BY <1>1 DEF Balance, Sending
<1>3. \A t \in Tests : executions'[t] \in Nat /\ executions[t] <= executions'[t]
    <2>1. \A t \in Tests : executions[t] \in Nat
        BY <1>0, BalanceType
    <2>2. executions' = executions
        BY <1>1
    <2> QED
        BY <2>1, <2>2
<1>4. CASE WatchStep
    <2>1. configUpdates' # 0
        <3>1. CASE WatchEvent
            BY <1>0, <3>1 DEF WatchEvent
        <3>2. CASE WatchCallback
            BY <3>2 DEF WatchCallback, SetUpgradeStorageDriverEndpointList,
               SetSchedUpgradeHops, SetTrigger, TriggersSet, ThresholdInv
        <3> QED
            BY <1>4, <3>1, <3>2 DEF WatchStep
    <2>2. (UpgradesStarted <= currentUpgradeIndex)'
        BY <1>1 DEF ThresholdInv, UpgradesStarted
    <2> QED
        BY <1>1, <1>2, <2>1, <2>2 DEF ThresholdInv
<1>5. CASE CollectorEnds \/ Time \/ Finished \/ UNCHANGED vars
    <2>1. UNCHANGED <<watch, configUpdates, chaosMap>>
        BY <1>5 DEF CollectorEnds, Time, RunTimeOver, IntervalOver, Finished, vars, watchVars,
           triggerVars
    <2> QED
        BY <1>1, <1>2, <1>3, <2>1, ThresholdFrame DEF ThresholdInv
<1> QED
    BY <1>4, <1>5

LEMMA ThresholdInvariant == Spec => []ThresholdInv
<1>1. TypeOK /\ ThresholdInv /\ [Next]_vars => ThresholdInv'
    BY GoroutineThreshold, CollectThreshold, MainThreshold, UpgradeThreshold, OtherThreshold
       DEF Next
<1> QED
    BY <1>1, InitThreshold, TypeCorrect, PTL DEF Spec

(* A smaller multiple of the threshold is reached when a larger one is, and *)
(* one of a negative threshold always is.                                   *)
LEMMA SmallerMultiple ==
    ASSUME NEW a \in Nat, NEW b \in Nat, a <= b, NEW n \in Int, NEW e \in Nat, e >= b * n
    PROVE  e >= a * n
<1>1. CASE n >= 0
    <2>1. b * n = a * n + (b - a) * n
        OBVIOUS
    <2>2. (b - a) * n >= 0
        BY <1>1
    <2> QED
        BY <2>1, <2>2
<1>2. CASE n < 0
    <2>1. a * n <= 0
        BY <1>2
    <2> QED
        BY <2>1
<1> QED
    BY <1>1, <1>2

(* "The number of times each function needs to execute before upgrading":   *)
(* for any threshold, any list of hops and any channel, no upgrade runs     *)
(* before every enabled trigger function was called that often, although    *)
(* the upgrade goroutine reads a counter that lags behind the calls.        *)
THEOREM ThresholdReached == Spec => []UpgradeAfterThreshold
<1>1. TypeOK /\ ThresholdInv => UpgradeAfterThreshold
    <2> SUFFICES ASSUME TypeOK, ThresholdInv, configUpdates = 0, Upgrading,
                        NEW t \in Tests \cap chaosMap
                 PROVE  invocations[t] >= UpgradesStarted * Threshold
        BY DEF UpgradeAfterThreshold
    <2>0. TriggerTypeOK /\ t \in Tests
        BY DEF TypeOK
    <2>1. /\ executions[t] \in Nat /\ Count(t, triggerEventsChan) \in Nat /\ Sending(t) \in Nat
          /\ invocations[t] \in Nat
        BY <2>0, BalanceType
    <2>2. invocations[t] >= executions[t]
        <3>1. PICK e \in Nat, n \in Nat, s \in Nat, i \in Nat :
                 e = executions[t] /\ n = Count(t, triggerEventsChan) /\ s = Sending(t)
                 /\ i = invocations[t]
            BY <2>1
        <3>2. Balance(t) = 0
            BY <2>0 DEF ThresholdInv
        <3>3. e + n + s - i = 0
            BY <3>1, <3>2 DEF Balance
        <3>4. i >= e
            BY <3>3
        <3> QED
            BY <3>1, <3>4
    <2>3. triggerType # NoUpgrade
        BY DEF TypeOK, Upgrading
    <2>4. executions[t] >= currentUpgradeIndex * Threshold
        BY <2>3 DEF ThresholdInv, MinTestExecCountAtLeast
    <2>5. /\ UpgradesStarted \in Nat /\ currentUpgradeIndex \in Nat /\ Threshold \in Int
          /\ UpgradesStarted <= currentUpgradeIndex
        <3>1. Threshold \in Int
            BY ConstantTypes
        <3>2. /\ currentUpgradeIndex \in Nat
              /\ upgradeCounter[UpgradeVolumeDriver] \in Nat /\ upgradeCounter[UpgradeCluster] \in Nat
            BY DEF TypeOK, UpgradeTypes
        <3>3. UpgradesStarted \in Nat
            BY <3>2 DEF UpgradesStarted
        <3>4. UpgradesStarted <= currentUpgradeIndex
            BY DEF ThresholdInv
        <3> QED
            BY <3>1, <3>2, <3>3, <3>4
    <2>6. executions[t] >= UpgradesStarted * Threshold
        BY <2>1, <2>4, <2>5, SmallerMultiple
    <2> DEFINE n == UpgradesStarted * Threshold
    <2>7. n \in Int /\ executions[t] >= n
        BY <2>5, <2>6
    <2> HIDE DEF n
    <2>8. invocations[t] >= n
        BY <2>1, <2>2, <2>7
    <2> QED
        BY <2>8 DEF n
<1> QED
    BY <1>1, ThresholdInvariant, TypeCorrect, PTL

-----------------------------------------------------------------------------
(* The hops the upgrade goroutine works through as long as the ConfigMap is *)
(* not edited, and how many upgrades of a kind it has performed.            *)
InitialList(u) == IF u = UpgradeVolumeDriver THEN InitialEndpoints ELSE InitialHops
ListOf(u) == IF u = UpgradeVolumeDriver THEN endpointList ELSE schedUpgradeHops
Planned(u) == Split(InitialList(u))
Performed(u) ==
    upgradeCounter[u] + (IF triggerType = u /\ upc \in {"send", "unlock", "restore"} THEN 1 ELSE 0)

(* The cluster is not upgraded at all for an empty list of hops, although   *)
(* the goroutine counts one upgrade to the empty element it splits into.    *)
History(u, n) ==
    IF u = UpgradeCluster /\ InitialHops = <<>> THEN <<>> ELSE SubSeq(Planned(u), 1, n)

(* What the goroutine splits is the initial list, except that from lock to  *)
(* restore the list of the chosen upgrade is its next element; applied is   *)
(* what the counters say.                                                   *)
InOrder ==
    /\ upc \notin {"none", "split"} => upgradeEndpoints = Planned(UpgradeVolumeDriver)
    /\ upc \notin {"none", "split", "splitHops"} => upgradeSchedHops = Planned(UpgradeCluster)
    /\ \A u \in UpgradeTypes :
          /\ triggerType # u => ListOf(u) = InitialList(u)
          /\ triggerType = u => /\ upgradeCounter[u] < Len(Planned(u))
                                /\ ListOf(u) = Join(<<Planned(u)[upgradeCounter[u] + 1]>>)
          /\ upgradeCounter[u] <= Len(Planned(u))
          /\ applied[u] = History(u, Performed(u))
    /\ stopClosed => /\ upc = "done"
                     /\ \A u \in UpgradeTypes : upgradeCounter[u] >= Len(Planned(u))

OrderInv == configUpdates = 0 => watch = "idle" /\ InOrder

(* The length of a prefix.                                                  *)
LEMMA PrefixEmpty ==
    ASSUME NEW s
    PROVE  SubSeq(s, 1, 0) = <<>>
OBVIOUS

LEMMA PrefixNext ==
    ASSUME NEW S, NEW s \in Seq(S), NEW n \in Nat, n < Len(s)
    PROVE  SubSeq(s, 1, n + 1) = SubSeq(s, 1, n) \o <<s[n + 1]>>
OBVIOUS

LEMMA PrefixLength ==
    ASSUME NEW S, NEW s \in Seq(S), NEW n \in Nat, n <= Len(s)
    PROVE  Len(SubSeq(s, 1, n)) = n
<1>1. \A i \in 1 .. n : s[i] \in S
    OBVIOUS
<1> QED
    BY <1>1

LEMMA PlannedType ==
    ASSUME NEW u \in UpgradeTypes
    PROVE  /\ InitialList(u) \in Seq(HopNames)
           /\ Planned(u) \in Hops
           /\ Len(Planned(u)) \in Nat \ {0}
<1>1. InitialList(u) \in Seq(HopNames)
    BY ListTypes DEF InitialList
<1>2. Planned(u) \in Hops
    BY <1>1, HopsSubset, SplitJoinType DEF Planned
<1>3. CASE InitialList(u) = <<>>
    BY <1>2, <1>3 DEF Planned, Split
<1>4. CASE InitialList(u) # <<>>
    BY <1>1, <1>2, <1>4 DEF Planned, Split
<1> QED
    BY <1>1, <1>2, <1>3, <1>4

(* strings.Join undoes strings.Split, and a single element joins to a list  *)
(* that splits into it again.                                               *)
LEMMA JoinSplit ==
    ASSUME NEW s \in Seq(HopNames)
    PROVE  Join(Split(s)) = s
<1>1. CASE s = <<>>
    BY <1>1 DEF Join, Split
<1>2. CASE s # <<>>
    <2>1. s[1] \in HopNames
        BY <1>2
    <2>2. s # <<EmptyHop>>
        BY <2>1, ListTypes
    <2> QED
        BY <1>2, <2>2 DEF Join, Split
<1> QED
    BY <1>1, <1>2

LEMMA SplitJoinOne ==
    ASSUME NEW h
    PROVE  Split(Join(<<h>>)) = <<h>>
BY DEF Join, Split

(* The hops one upgrade is handed: its next element, and none for the empty *)
(* element of an empty list of scheduler hops.                              *)
LEMMA NextHop ==
    ASSUME NEW u \in UpgradeTypes, NEW n \in Nat, n < Len(Planned(u)),
           ListOf(u) = Join(<<Planned(u)[n + 1]>>)
    PROVE  History(u, n) \o HopsOfTrigger(u) = History(u, n + 1)
<1> DEFINE hop == Planned(u)[n + 1]
<1>0. /\ Planned(u) \in Seq(HopNames \cup {EmptyHop}) /\ Len(Planned(u)) \in Nat
      /\ hop \in HopNames \cup {EmptyHop}
    BY PlannedType DEF Hops
<1>1. SubSeq(Planned(u), 1, n + 1) = SubSeq(Planned(u), 1, n) \o <<hop>>
    <2>1. n + 1 \in 1 .. Len(Planned(u)) /\ 1 \in 1 .. Len(Planned(u)) /\ (n + 1) - 1 = n
        BY <1>0
    <2> QED
        BY <1>0, <2>1, PrefixNext
<1>2. CASE u = UpgradeVolumeDriver
    <2>1. HopsOfTrigger(u) = <<hop>>
        BY <1>2, SplitJoinOne DEF HopsOfTrigger, ListOf
    <2>2. u # UpgradeCluster
        BY <1>2 DEF UpgradeVolumeDriver, UpgradeCluster
    <2> HIDE DEF hop
    <2> QED
        BY <1>1, <2>1, <2>2 DEF History
<1>3. CASE u # UpgradeVolumeDriver
    <2>1. u = UpgradeCluster /\ HopsOfTrigger(u) = Join(<<hop>>) /\ Planned(u) = Split(InitialHops)
        BY <1>3 DEF HopsOfTrigger, ListOf, UpgradeTypes, Planned, InitialList
    <2>2. CASE InitialHops = <<>>
        <3>1. Planned(u) = <<EmptyHop>> /\ n = 0
            BY <1>0, <2>1, <2>2 DEF Split
        <3>2. hop = EmptyHop
            BY <3>1
        <3>3. HopsOfTrigger(u) = <<>>
            BY <2>1, <3>2 DEF Join
        <3> QED
            BY <2>1, <2>2, <3>3 DEF History
    <2>3. CASE InitialHops # <<>>
        <3>1. Planned(u) = InitialHops
            BY <2>1, <2>3 DEF Split
        <3>2. hop \in HopNames
            <4>1. Planned(u) \in Seq(HopNames) /\ n + 1 \in 1 .. Len(Planned(u))
                BY <1>0, <3>1, ListTypes
            <4> QED
                BY <4>1
        <3>3. hop # EmptyHop
            BY <3>2, ListTypes
        <3> HIDE DEF hop
        <3>4. HopsOfTrigger(u) = <<hop>>
            BY <2>1, <3>3 DEF Join
        <3> QED
            BY <1>1, <2>3, <3>4 DEF History
    <2> QED
        BY <2>2, <2>3
<1> QED
    BY <1>2, <1>3

LEMMA InitOrder == Init => OrderInv
<1> SUFFICES ASSUME Init, NEW u \in UpgradeTypes
             PROVE  applied[u] = History(u, Performed(u)) /\ upgradeCounter[u] <= Len(Planned(u))
    BY PlannedType DEF Init, OrderInv, InOrder, ListOf, InitialList, NoUpgrade, UpgradeTypes,
       UpgradeVolumeDriver, UpgradeCluster
<1>1. applied[u] = <<>> /\ upgradeCounter[u] = 0 /\ upc = "none"
    BY DEF Init
<1>2. Performed(u) = 0
    BY <1>1 DEF Performed
<1>3. SubSeq(Planned(u), 1, 0) = <<>>
    BY PrefixEmpty
<1>4. History(u, Performed(u)) = <<>>
    BY <1>2, <1>3 DEF History
<1>5. Len(Planned(u)) \in Nat
    BY PlannedType
<1> QED
    BY <1>1, <1>4, <1>5

(* Steps of the rest of the program leave the lists and the upgrades alone. *)
LEMMA OrderFrame ==
    ASSUME OrderInv, UNCHANGED <<listVars, upgradeVars, stopClosed, watch, configUpdates>>
    PROVE  OrderInv'
BY DEF OrderInv, InOrder, ListOf, Performed, listVars, upgradeVars

LEMMA UpgradeOrder ==
    ASSUME TypeOK, configUpdates = 0, InOrder, UpgradeStep
    PROVE  InOrder'
<1>0. /\ UpgradeTypes = {UpgradeVolumeDriver, UpgradeCluster}
      /\ UpgradeVolumeDriver # UpgradeCluster
      /\ NoUpgrade \notin UpgradeTypes
      /\ upgradeCounter \in [UpgradeTypes -> Nat]
      /\ applied \in [UpgradeTypes -> Hops]
      /\ triggerType \in UpgradeTypes \cup {NoUpgrade}
      /\ triggerType = NoUpgrade <=> upc \notin {"lock", "run", "send", "unlock", "restore"}
    BY DEF TypeOK, UpgradeTypes, UpgradeVolumeDriver, UpgradeCluster, NoUpgrade
<1>1. CASE SplitEndpoints
    <2>1. triggerType = NoUpgrade /\ endpointList = InitialEndpoints
        BY <1>0, <1>1 DEF SplitEndpoints, InOrder, ListOf, InitialList
    <2>2. upgradeEndpoints' = Planned(UpgradeVolumeDriver)
        BY <1>1, <2>1 DEF SplitEndpoints, Planned, InitialList
    <2> QED
        BY <1>0, <1>1, <2>1, <2>2 DEF SplitEndpoints, InOrder, ListOf, Performed, listVars,
           triggerVars
<1>2. CASE SplitHops
    <2>1. triggerType = NoUpgrade /\ schedUpgradeHops = InitialHops
        BY <1>0, <1>2 DEF SplitHops, InOrder, ListOf, InitialList
    <2>2. upgradeSchedHops' = Planned(UpgradeCluster)
        BY <1>0, <1>2, <2>1 DEF SplitHops, Planned, InitialList
    <2> QED
        BY <1>0, <1>2, <2>1, <2>2 DEF SplitHops, InOrder, ListOf, Performed, listVars,
           triggerVars
<1>3. CASE UpgradeTimeOut \/ UpgradeNotYet \/ SkipUpgrade \/ UpgradeLock \/ UpgradeSend \/ UpgradeUnlock
    <2>1. /\ UNCHANGED <<endpointList, schedUpgradeHops, upgradeEndpoints, upgradeSchedHops>>
          /\ UNCHANGED <<upgradeCounter, triggerType, applied, stopClosed>>
          /\ upc \notin {"none", "split", "splitHops"}
          /\ upc # "done"
        BY <1>3 DEF UpgradeTimeOut, UpgradeNotYet, SkipUpgrade, UpgradeIsDue, UpgradeLock,
           UpgradeSend, UpgradeUnlock, listVars, triggerVars
    <2>2. upc' \in {"send", "unlock", "restore"} <=> upc \in {"send", "unlock", "restore"}
        BY <1>3 DEF UpgradeTimeOut, UpgradeNotYet, SkipUpgrade, UpgradeIsDue, UpgradeLock,
           UpgradeSend, UpgradeUnlock
    <2> QED
        BY <2>1, <2>2 DEF InOrder, ListOf, Performed
<1>4. CASE UpgradesCompleted
    <2>1. /\ UNCHANGED <<endpointList, schedUpgradeHops, upgradeEndpoints, upgradeSchedHops>>
          /\ UNCHANGED <<upgradeCounter, triggerType, applied>>
          /\ upc = "check" /\ upc' \in {"done", "split"}
          /\ stopClosed' => stopClosed \/ upc' = "done"
          /\ AllUpgraded
        BY <1>4 DEF UpgradesCompleted, listVars
    <2>2. \A u \in UpgradeTypes : upgradeCounter[u] >= Len(Planned(u))
        BY <1>0, <2>1 DEF InOrder, AllUpgraded
    <2>3. ~stopClosed
        BY <2>1 DEF InOrder
    <2> QED
        BY <1>0, <2>1, <2>2, <2>3 DEF InOrder, ListOf, Performed
<1>5. CASE ChooseUpgrade
    <2>1. PICK u \in UpgradeTypes : u = UpgradeTurn
        BY <1>0 DEF UpgradeTurn
    <2>2. /\ upc = "check" /\ upc' = "lock" /\ triggerType = NoUpgrade /\ triggerType' = u
          /\ UNCHANGED <<upgradeEndpoints, upgradeSchedHops, upgradeCounter, applied, stopClosed>>
        BY <1>0, <1>5, <2>1 DEF ChooseUpgrade, UpgradeIsDue, triggerVars
    <2>3. HopsOf(u) = Planned(u)
        BY <1>0, <2>2 DEF HopsOf, InOrder
    <2>4. upgradeCounter[u] < Len(Planned(u))
        BY <1>5, <2>1, <2>3 DEF ChooseUpgrade
    <2>5. ListOf(u)' = Join(<<Planned(u)[upgradeCounter[u] + 1]>>)
        BY <1>0, <1>5, <2>1, <2>3 DEF ChooseUpgrade, ListOf
    <2>6. \A v \in UpgradeTypes : v # u => ListOf(v)' = ListOf(v)
        BY <1>0, <1>5, <2>1 DEF ChooseUpgrade, ListOf
    <2>7. \A v \in UpgradeTypes : ListOf(v) = InitialList(v)
        BY <1>0, <2>2 DEF InOrder
    <2>8. \A v \in UpgradeTypes : Performed(v)' = Performed(v)
        BY <1>0, <2>2 DEF Performed
    <2>9. ~stopClosed
        BY <2>2 DEF InOrder
    <2> QED
        BY <1>0, <2>2, <2>4, <2>5, <2>6, <2>7, <2>8, <2>9 DEF InOrder
<1>6. CASE RunUpgrade
    <2>1. PICK u \in UpgradeTypes : u = triggerType
        BY <1>0, <1>6 DEF RunUpgrade
    <2>2. /\ upc = "run" /\ upc' = "send"
          /\ UNCHANGED <<endpointList, schedUpgradeHops, upgradeEndpoints, upgradeSchedHops>>
          /\ UNCHANGED <<upgradeCounter, triggerType, stopClosed>>
        BY <1>6 DEF RunUpgrade, listVars, triggerVars
    <2>3. /\ upgradeCounter[u] \in Nat /\ upgradeCounter[u] < Len(Planned(u))
          /\ ListOf(u) = Join(<<Planned(u)[upgradeCounter[u] + 1]>>)
        BY <1>0, <2>1 DEF InOrder
    <2>4. Performed(u) = upgradeCounter[u] /\ Performed(u)' = upgradeCounter[u] + 1
        BY <1>0, <2>1, <2>2 DEF Performed
    <2>5. applied'[u] = History(u, upgradeCounter[u]) \o HopsOfTrigger(u)
        BY <1>0, <1>6, <2>1, <2>4 DEF RunUpgrade, InOrder
    <2>6. applied'[u] = History(u, Performed(u)')
        BY <2>3, <2>4, <2>5, NextHop
    <2>7. \A v \in UpgradeTypes : v # u => applied'[v] = applied[v] /\ Performed(v)' = Performed(v)
        BY <1>0, <1>6, <2>1, <2>2 DEF RunUpgrade, Performed
    <2>8. \A v \in UpgradeTypes : applied'[v] = History(v, Performed(v))'
        BY <2>6, <2>7 DEF InOrder, History
    <2> QED
        BY <2>2, <2>8 DEF InOrder, ListOf
<1>7. CASE RestoreLists
    <2>1. PICK u \in UpgradeTypes : u = triggerType
        BY <1>0, <1>7 DEF RestoreLists
    <2>2. /\ upc = "restore" /\ upc' = "split" /\ triggerType' = NoUpgrade
          /\ UNCHANGED <<upgradeEndpoints, upgradeSchedHops, applied, stopClosed>>
          /\ upgradeCounter' = [upgradeCounter EXCEPT ![u] = @ + 1]
          /\ schedUpgradeHops' = Join(upgradeSchedHops) /\ endpointList' = Join(upgradeEndpoints)
        BY <1>7, <2>1 DEF RestoreLists, triggerVars
    <2>3. \A v \in UpgradeTypes : ListOf(v)' = InitialList(v)
        BY <1>0, <2>2, JoinSplit, PlannedType DEF InOrder, ListOf, Planned
    <2>4. upgradeCounter[u] < Len(Planned(u)) /\ Len(Planned(u)) \in Nat
        BY <2>1, PlannedType DEF InOrder
    <2>5. \A v \in UpgradeTypes : upgradeCounter'[v] <= Len(Planned(v))
        <3>1. ASSUME NEW v \in UpgradeTypes, v # u  PROVE upgradeCounter'[v] <= Len(Planned(v))
            <4>1. upgradeCounter'[v] = upgradeCounter[v]
                BY <1>0, <2>2, <3>1
            <4> QED
                BY <4>1 DEF InOrder
        <3>2. PICK i \in Nat, l \in Nat : i = upgradeCounter[u] /\ l = Len(Planned(u))
            BY <1>0, <2>4
        <3>3. upgradeCounter'[u] = i + 1 /\ i + 1 <= l
            BY <1>0, <2>2, <2>4, <3>2
        <3> QED
            BY <3>1, <3>2, <3>3
    <2>6. \A v \in UpgradeTypes : Performed(v)' = Performed(v)
        <3>1. ASSUME NEW v \in UpgradeTypes, v # u  PROVE Performed(v)' = Performed(v)
            <4>1. /\ upgradeCounter'[v] = upgradeCounter[v] /\ upgradeCounter[v] \in Nat
                  /\ triggerType # v /\ triggerType' # v
                BY <1>0, <2>1, <2>2, <3>1
            <4> QED
                BY <4>1 DEF Performed
        <3>2. /\ upgradeCounter'[u] = upgradeCounter[u] + 1 /\ upgradeCounter[u] \in Nat
              /\ triggerType = u /\ triggerType' # u /\ upc = "restore"
            BY <1>0, <2>1, <2>2
        <3>3. Performed(u)' = Performed(u)
            BY <3>2 DEF Performed
        <3> QED
            BY <3>1, <3>3
    <2>7. ~stopClosed
        BY <2>2 DEF InOrder
    <2> QED
        BY <1>0, <2>2, <2>3, <2>5, <2>6, <2>7 DEF InOrder
<1> QED
    BY <1>1, <1>2, <1>3, <1>4, <1>5, <1>6, <1>7 DEF UpgradeStep

LEMMA NextOrder == TypeOK /\ OrderInv /\ [Next]_vars => OrderInv'
<1> SUFFICES ASSUME TypeOK, OrderInv, [Next]_vars PROVE OrderInv'
    OBVIOUS
<1>0. configUpdates \in Nat
    BY IndexTypes
<1>1. CASE UpgradeStep
    <2>1. watch' = watch /\ configUpdates' = configUpdates
        <3> USE DEF watchVars
        <3>1. CASE SplitEndpoints \/ SplitHops \/ UpgradeTimeOut \/ UpgradesCompleted \/ UpgradeNotYet
            BY <3>1 DEF SplitEndpoints, SplitHops, UpgradeTimeOut, UpgradesCompleted, UpgradeNotYet
        <3>2. CASE SkipUpgrade \/ ChooseUpgrade
            BY <3>2 DEF SkipUpgrade, ChooseUpgrade
        <3>3. CASE UpgradeLock \/ RunUpgrade \/ UpgradeSend \/ UpgradeUnlock \/ RestoreLists
            BY <3>3 DEF UpgradeLock, RunUpgrade, UpgradeSend, UpgradeUnlock, RestoreLists
        <3> QED
            BY <1>1, <3>1, <3>2, <3>3 DEF UpgradeStep
    <2> QED
        BY <1>1, <2>1, UpgradeOrder DEF OrderInv
<1>2. CASE WatchStep
    <2>1. CASE WatchEvent
        BY <1>0, <2>1 DEF WatchEvent, OrderInv
    <2>2. CASE WatchCallback
        BY <2>2 DEF WatchCallback, SetUpgradeStorageDriverEndpointList, SetSchedUpgradeHops,
           SetTrigger, TriggersSet, OrderInv
    <2> QED
        BY <1>2, <2>1, <2>2 DEF WatchStep
<1>3. CASE RegisterUpgrade
    <2>1. /\ upc = "none" /\ upc' = "split"
          /\ UNCHANGED <<listVars, upgradeEndpoints, upgradeSchedHops, upgradeCounter>>
          /\ UNCHANGED <<triggerType, applied, stopClosed, watch, configUpdates>>
        BY <1>3 DEF RegisterUpgrade, watchVars, TypeOK
    <2> QED
        BY <2>1 DEF OrderInv, InOrder, ListOf, Performed, listVars
<1>4. CASE \E g \in Goroutines : TestStep(g)
    <2>1. UNCHANGED <<listVars, upgradeVars, stopClosed, watch, configUpdates>>
        BY <1>4 DEF TestStep, watchVars, GoroutineStep, Select, TimeOut, Decide, Lock, WrapLock,
           TriggerBody, SendRecord, Unwrap, Unlock
    <2> QED
        BY <2>1, OrderFrame
<1>5. CASE DeployNewApps \/ GoCollect \/ WaitAndClose \/ TearDown \/ \E g \in Goroutines : RegisterTrigger(g)
    <2>1. UNCHANGED <<listVars, upgradeVars, stopClosed, watch, configUpdates>>
        BY <1>5 DEF DeployNewApps, GoCollect, WaitAndClose, TearDown, RegisterTrigger, watchVars,
           triggerVars
    <2> QED
        BY <2>1, OrderFrame
<1>6. CASE Collect \/ CollectorEnds \/ Time \/ Finished \/ UNCHANGED vars
    <2>1. UNCHANGED <<listVars, upgradeVars, stopClosed, watch, configUpdates>>
        BY <1>6 DEF Collect, CollectEventRecord, CollectorEnds, Time, RunTimeOver, IntervalOver,
           Finished, vars, watchVars, triggerVars
    <2> QED
        BY <2>1, OrderFrame
<1> QED
    BY <1>1, <1>2, <1>3, <1>4, <1>5, <1>6 DEF Next, MainStep

LEMMA OrderInvariant == Spec => []OrderInv
    BY InitOrder, NextOrder, TypeCorrect, PTL DEF Spec

(* For any two lists of hops, any threshold and any triggers: unless the    *)
(* ConfigMap is edited, every hop is applied at most once and in the order  *)
(* of its list, and all were when StopLongevityChan is closed.              *)
THEOREM HopsInOrder == Spec => []UpgradesInOrder
<1>1. TypeOK /\ OrderInv => UpgradesInOrder
    <2> SUFFICES ASSUME TypeOK, InOrder, NEW u \in UpgradeTypes
                 PROVE  LET all == IF u = UpgradeVolumeDriver THEN Split(InitialEndpoints)
                                   ELSE InitialHops
                            n == Len(applied[u])
                        IN  /\ n <= Len(all)
                            /\ applied[u] = SubSeq(all, 1, n)
                            /\ stopClosed => n = Len(all)
        BY DEF UpgradesInOrder, OrderInv
    <2> DEFINE k == Performed(u)
    <2>1. /\ upgradeCounter[u] \in Nat /\ upgradeCounter[u] <= Len(Planned(u))
          /\ triggerType = u => upgradeCounter[u] < Len(Planned(u))
          /\ Len(Planned(u)) \in Nat
        BY PlannedType DEF InOrder, TypeOK
    <2>2. k \in Nat /\ upgradeCounter[u] <= k /\ k <= Len(Planned(u))
        BY <2>1 DEF Performed
    <2>4. applied[u] = History(u, k)
        BY DEF InOrder
    <2> HIDE DEF k
    <2>3. stopClosed => k = Len(Planned(u))
        <3>1. stopClosed => upgradeCounter[u] >= Len(Planned(u))
            BY DEF InOrder
        <3> QED
            BY <2>1, <2>2, <3>1
    <2>5. Len(SubSeq(Planned(u), 1, k)) = k
        BY <2>2, PlannedType, PrefixLength DEF Hops
    <2>6. CASE u = UpgradeCluster /\ InitialHops = <<>>
        <3>1. applied[u] = <<>> /\ u # UpgradeVolumeDriver
            BY <2>4, <2>6 DEF History, UpgradeCluster, UpgradeVolumeDriver
        <3>2. SubSeq(InitialHops, 1, 0) = <<>>
            BY PrefixEmpty
        <3>3. Len(<<>>) = 0
            OBVIOUS
        <3>4. Len(applied[u]) = 0 /\ Len(InitialHops) = 0
            BY <2>6, <3>1, <3>3
        <3>5. applied[u] = SubSeq(InitialHops, 1, 0)
            BY <3>1, <3>2
        <3> QED
            BY <3>1, <3>4, <3>5
    <2>7. CASE ~(u = UpgradeCluster /\ InitialHops = <<>>)
        <3>1. applied[u] = SubSeq(Planned(u), 1, k)
            BY <2>4, <2>7 DEF History
        <3>2. Planned(u) = IF u = UpgradeVolumeDriver THEN Split(InitialEndpoints) ELSE InitialHops
            BY <2>7 DEF Planned, InitialList, UpgradeTypes, Split
        <3> QED
            BY <2>2, <2>3, <2>5, <3>1, <3>2
    <2> QED
        BY <2>6, <2>7
<1> QED
    BY <1>1, OrderInvariant, TypeCorrect, PTL
=============================================================================
