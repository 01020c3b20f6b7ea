-------------------------- MODULE UpgradeLongevity --------------------------
(***************************************************************************)
(* The {UpgradeLongevity} test: test triggers run under triggerLock,       *)
(* disruptive ones under disruptiveTriggerLock and triggerLock, an upgrade *)
(* goroutine alternates volume driver and cluster upgrades once every      *)
(* enabled trigger ran often enough, a ConfigMap watch changes what is     *)
(* enabled and what there is to upgrade to, and main waits for all of them *)
(* before it closes the event channel and tears the applications down.     *)
(*                                                                         *)
(* A comma separated list of hops is a sequence, the empty string <<>>.    *)
(***************************************************************************)
EXTENDS TestTrigger

CONSTANTS
    HopNames,            \* storage driver endpoints and scheduler versions
    InitialEndpoints,    \* Inst().UpgradeStorageDriverEndpointList at the start
    InitialHops,         \* Inst().SchedUpgradeHops at the start
    InitiallyEnabled,    \* trigger types with a level other than 0 in the ConfigMap
    ConfigMaps,          \* the edits of the ConfigMap that may arrive
    Threshold,           \* upgradeExecutionThreshold
    MaxConfigUpdates     \* bound: ConfigMap events after the first one

UpgradeVolumeDriver == "upgradeVolumeDriver"
UpgradeCluster == "upgradeCluster"
UpgradeTypes == {UpgradeVolumeDriver, UpgradeCluster}
EmptyHop == ""           \* the element of strings.Split("", ",")
NoUpgrade == "noUpgrade"

(* What the ConfigMap watch is called with: the two lists, the trigger types  *)
(* that have a level, those with a level other than 0, and whether some level *)
(* is not a number.                                                           *)
ConfigMapType ==
    [endpoints : Seq(HopNames), hops : Seq(HopNames), keys : SUBSET Goroutines,
     enabled : SUBSET Goroutines, malformed : BOOLEAN]

ASSUME UpgradeLongevityAssumption ==
    /\ UpgradeTypes \subseteq OtherEvents
    /\ UpgradeTypes \cap Tests = {}
    /\ \A i \in 1 .. Len(InitialEvents) : InitialEvents[i] \notin Tests
    /\ EmptyHop \notin HopNames
    /\ InitialEndpoints \in Seq(HopNames)
    /\ InitialHops \in Seq(HopNames)
    /\ InitiallyEnabled \subseteq Goroutines
    /\ ConfigMaps \subseteq ConfigMapType
    /\ Threshold \in Int
    /\ MaxConfigUpdates \in Nat

VARIABLES
    mainPc,              \* where the It block of main is
    collecting,          \* the CollectEventRecords goroutine is in its loop
    appsDeployed,        \* the contexts of TriggerDeployNewApps exist on the cluster
    upc,                 \* where the upgrade goroutine is
    endpointList,        \* Inst().UpgradeStorageDriverEndpointList
    schedUpgradeHops,    \* Inst().SchedUpgradeHops
    upgradeEndpoints,    \* the slice the upgrade goroutine split from the first
    upgradeSchedHops,    \* the slice it split from the second
    currentUpgradeIndex,
    upgradeCounter,      \* upgradeCounter of the test
    triggerType,         \* the upgrade chosen in this round, or NoUpgrade
    applied,             \* history: hops handed to UpgradeDriver / UpgradeScheduler
    watch,               \* where the ConfigMap watch callback is
    configMap,           \* the ConfigMap it was called with
    configUpdates        \* number of callbacks so far

mainVars == <<mainPc, collecting, appsDeployed>>
listVars == <<endpointList, schedUpgradeHops>>
upgradeVars == <<upc, upgradeEndpoints, upgradeSchedHops, currentUpgradeIndex,
                 upgradeCounter, triggerType, applied>>
watchVars == <<watch, configMap, configUpdates>>
vars == <<triggerVars, mainVars, listVars, upgradeVars, watchVars>>

\* strings.Split(s, ",") and strings.Join(a, ","): the empty string splits into one
\* empty element, and joins back.
Split(s) == IF s = <<>> THEN <<EmptyHop>> ELSE s
Join(a) == IF a = <<EmptyHop>> THEN <<>> ELSE a

NoConfigMap == [endpoints |-> <<>>, hops |-> <<>>, keys |-> {}, enabled |-> {},
                malformed |-> FALSE]

Init ==
    /\ pc = [g \in Goroutines |-> "none"]
    /\ holder = [l \in Locks |-> Nobody]
    /\ triggerEventsChan = <<>>
    /\ chanClosed = FALSE
    /\ wg = 0
    /\ stopClosed = FALSE
    /\ exited = FALSE
    /\ runTimeOver = FALSE
    /\ due = {}
    /\ chaosMap = InitiallyEnabled
    /\ executions = [e \in EventTypes |-> 0]
    /\ invocations = [g \in Goroutines |-> 0]
    /\ mainPc = "deploy"
    /\ collecting = FALSE
    /\ appsDeployed = FALSE
    /\ upc = "none"
    /\ endpointList = InitialEndpoints
    /\ schedUpgradeHops = InitialHops
    /\ upgradeEndpoints = <<>>
    /\ upgradeSchedHops = <<>>
    /\ currentUpgradeIndex = 0
    /\ upgradeCounter = [u \in UpgradeTypes |-> 0]
    /\ triggerType = NoUpgrade
    /\ applied = [u \in UpgradeTypes |-> <<>>]
    /\ watch = "idle"
    /\ configMap = NoConfigMap
    /\ configUpdates = 0

-----------------------------------------------------------------------------
(* main *)

(* TriggerDeployNewApps, whose record stays in the channel's buffer.        *)
DeployNewApps ==
    /\ mainPc = "deploy"
    /\ appsDeployed' = TRUE
    /\ triggerEventsChan' = InitialEvents
    /\ mainPc' = "register"
    /\ UNCHANGED <<pc, holder, chanClosed, wg, stopClosed, exited, runTimeOver, due, chaosMap,
                   executions, invocations, collecting, listVars, upgradeVars, watchVars>>

Registered(S) == \A g \in S : pc[g] # "none"

(* wg.Add(1), then go testTrigger or go emailEventTrigger: test triggers    *)
(* first, then disruptive ones, then the email trigger.                     *)
RegisterTrigger(g) ==
    /\ mainPc = "register"
    /\ pc[g] = "none"
    /\ g \in DisruptiveTriggerFunctions => Registered(TriggerFunctions)
    /\ g = Email => Registered(Tests)
    /\ wg' = wg + 1
    /\ Goto(g, "select")
    /\ UNCHANGED <<holder, triggerEventsChan, chanClosed, stopClosed, exited, runTimeOver, due,
                   chaosMap, executions, invocations, mainVars, listVars, upgradeVars, watchVars>>

\* Mutant of RegisterUpgrade: the goroutine is started without wg.Add(1).
RegisterUpgrade_NoAdd ==
    /\ mainPc = "register"
    /\ Registered(Goroutines)
    /\ upc' = "split"
    /\ mainPc' = "collect"
    /\ UNCHANGED <<triggerVars, collecting, appsDeployed, listVars, upgradeEndpoints,
                   upgradeSchedHops, currentUpgradeIndex, upgradeCounter, triggerType, applied,
                   watchVars>>

RegisterUpgrade ==
    /\ mainPc = "register"
    /\ Registered(Goroutines)
    /\ wg' = wg + 1
    /\ upc' = "split"
    /\ mainPc' = "collect"
    /\ UNCHANGED <<pc, holder, triggerEventsChan, chanClosed, stopClosed, exited, runTimeOver,
                   due, chaosMap, executions, invocations, collecting, appsDeployed, listVars,
                   upgradeEndpoints, upgradeSchedHops, currentUpgradeIndex, upgradeCounter,
                   triggerType, applied, watchVars>>

GoCollect ==
    /\ mainPc = "collect"
    /\ collecting' = TRUE
    /\ mainPc' = "wait"
    /\ UNCHANGED <<triggerVars, appsDeployed, listVars, upgradeVars, watchVars>>

\* Mutant of WaitAndClose: the channel is closed without waiting.
WaitAndClose_NoWait ==
    /\ mainPc = "wait"
    /\ chanClosed' = TRUE
    /\ mainPc' = "teardown"
    /\ UNCHANGED <<pc, holder, triggerEventsChan, wg, stopClosed, exited, runTimeOver, due,
                   chaosMap, executions, invocations, collecting, appsDeployed, listVars,
                   upgradeVars, watchVars>>

WaitAndClose ==
    /\ mainPc = "wait"
    /\ wg = 0
    /\ chanClosed' = TRUE
    /\ mainPc' = "teardown"
    /\ UNCHANGED <<pc, holder, triggerEventsChan, wg, stopClosed, exited, runTimeOver, due,
                   chaosMap, executions, invocations, collecting, appsDeployed, listVars,
                   upgradeVars, watchVars>>

TearDown ==
    /\ mainPc = "teardown"
    /\ appsDeployed' = FALSE
    /\ mainPc' = "done"
    /\ UNCHANGED <<triggerVars, collecting, listVars, upgradeVars, watchVars>>

MainStep == DeployNewApps \/ RegisterUpgrade \/ GoCollect \/ WaitAndClose \/ TearDown
            \/ \E g \in Goroutines : RegisterTrigger(g)
-----------------------------------------------------------------------------
(* The upgrade goroutine.  Its two reads of the lists are two steps: the    *)
(* ConfigMap watch may run between them.                                    *)
SplitEndpoints ==
    /\ upc = "split"
    /\ upgradeEndpoints' = Split(endpointList)
    /\ upc' = "splitHops"
    /\ UNCHANGED <<triggerVars, mainVars, listVars, upgradeSchedHops, currentUpgradeIndex,
                   upgradeCounter, triggerType, applied, watchVars>>

SplitHops ==
    /\ upc = "splitHops"
    /\ upgradeSchedHops' = Split(schedUpgradeHops)
    /\ upc' = "check"
    /\ UNCHANGED <<triggerVars, mainVars, listVars, upgradeEndpoints, currentUpgradeIndex,
                   upgradeCounter, triggerType, applied, watchVars>>

AllUpgraded ==
    /\ upgradeCounter[UpgradeVolumeDriver] >= Len(upgradeEndpoints)
    /\ upgradeCounter[UpgradeCluster] >= Len(upgradeSchedHops)

\* Mutant of MinTestExecCountAtLeast: disruptive triggers are left out of the minimum.
MinTestExecCountAtLeast_PlainOnly(n) ==
    \A t \in TriggerFunctions : t \in chaosMap => executions[t] >= n

(* minTestExecCount >= n: the minimum runs over the enabled triggers and    *)
(* starts at MaxInt32, so with none enabled the test holds.                 *)
MinTestExecCountAtLeast(n) == \A t \in Tests : t \in chaosMap => executions[t] >= n

(* The upgrade goroutine breaks out of its loop; the deferred wg.Done runs. *)
UpgradeTimeOut ==
    /\ upc = "check"
    /\ runTimeOver
    /\ upc' = "done"
    /\ wg' = wg - 1
    /\ UNCHANGED <<pc, holder, triggerEventsChan, chanClosed, stopClosed, exited, runTimeOver,
                   due, chaosMap, executions, invocations, mainVars, listVars, upgradeEndpoints,
                   upgradeSchedHops, currentUpgradeIndex, upgradeCounter, triggerType, applied,
                   watchVars>>

(* All upgrades are done: with threshold 0 close(StopLongevityChan) and     *)
(* break, otherwise continue without a sleep.                               *)
UpgradesCompleted ==
    /\ upc = "check"
    /\ ~runTimeOver
    /\ AllUpgraded
    /\ IF Threshold = 0
       THEN stopClosed' = TRUE /\ upc' = "done" /\ wg' = wg - 1
       ELSE upc' = "split" /\ UNCHANGED <<stopClosed, wg>>
    /\ UNCHANGED <<pc, holder, triggerEventsChan, chanClosed, exited, runTimeOver, due, chaosMap,
                   executions, invocations, mainVars, listVars, upgradeEndpoints,
                   upgradeSchedHops, currentUpgradeIndex, upgradeCounter, triggerType, applied,
                   watchVars>>

UpgradeIsDue ==
    /\ upc = "check"
    /\ ~runTimeOver
    /\ ~AllUpgraded
    /\ MinTestExecCountAtLeast((currentUpgradeIndex + 1) * Threshold)

UpgradeNotYet ==
    /\ upc = "check"
    /\ ~runTimeOver
    /\ ~AllUpgraded
    /\ ~MinTestExecCountAtLeast((currentUpgradeIndex + 1) * Threshold)
    /\ upc' = "split"
    /\ UNCHANGED <<triggerVars, mainVars, listVars, upgradeEndpoints, upgradeSchedHops,
                   currentUpgradeIndex, upgradeCounter, triggerType, applied, watchVars>>

UpgradeTurn == IF currentUpgradeIndex % 2 = 0 THEN UpgradeVolumeDriver ELSE UpgradeCluster
HopsOf(u) == IF u = UpgradeVolumeDriver THEN upgradeEndpoints ELSE upgradeSchedHops

(* Nothing left of this kind: give the turn to the other one.               *)
SkipUpgrade ==
    /\ UpgradeIsDue
    /\ upgradeCounter[UpgradeTurn] >= Len(HopsOf(UpgradeTurn))
    /\ currentUpgradeIndex' = currentUpgradeIndex + 1
    /\ upc' = "split"
    /\ UNCHANGED <<triggerVars, mainVars, listVars, upgradeEndpoints, upgradeSchedHops,
                   upgradeCounter, triggerType, applied, watchVars>>

(* The list the trigger function will read is replaced by its next element, *)
(* before the goroutine waits for the lock.                                 *)
ChooseUpgrade ==
    /\ UpgradeIsDue
    /\ upgradeCounter[UpgradeTurn] < Len(HopsOf(UpgradeTurn))
    /\ LET hop == HopsOf(UpgradeTurn)[upgradeCounter[UpgradeTurn] + 1]
       IN  IF UpgradeTurn = UpgradeVolumeDriver
           THEN endpointList' = Join(<<hop>>) /\ UNCHANGED schedUpgradeHops
           ELSE schedUpgradeHops' = Join(<<hop>>) /\ UNCHANGED endpointList
    /\ triggerType' = UpgradeTurn
    /\ currentUpgradeIndex' = currentUpgradeIndex + 1
    /\ upc' = "lock"
    /\ UNCHANGED <<triggerVars, mainVars, upgradeEndpoints, upgradeSchedHops, upgradeCounter,
                   applied, watchVars>>

\* Mutant of UpgradeLock: the upgrade runs without disruptiveTriggerLock.
UpgradeLock_NoLock ==
    /\ upc = "lock"
    /\ upc' = "run"
    /\ UNCHANGED <<triggerVars, mainVars, listVars, upgradeEndpoints, upgradeSchedHops,
                   currentUpgradeIndex, upgradeCounter, triggerType, applied, watchVars>>

UpgradeLock ==
    /\ upc = "lock"
    /\ Acquire("disruptiveTriggerLock", Upgrader)
    /\ upc' = "run"
    /\ UNCHANGED <<pc, triggerEventsChan, chanClosed, wg, stopClosed, exited, runTimeOver, due,
                   chaosMap, executions, invocations, mainVars, listVars, upgradeEndpoints,
                   upgradeSchedHops, currentUpgradeIndex, upgradeCounter, triggerType, applied,
                   watchVars>>

(* TriggerUpgradeVolumeDriver upgrades to every element of the split list   *)
(* (log.Fatalf on an empty list does not stop it); TriggerUpdateCluster to  *)
(* every element of a list that is not empty.                               *)
HopsOfTrigger(u) ==
    IF u = UpgradeVolumeDriver THEN Split(endpointList) ELSE schedUpgradeHops

RunUpgrade ==
    /\ upc = "run"
    /\ applied' = [applied EXCEPT ![triggerType] = @ \o HopsOfTrigger(triggerType)]
    /\ upc' = "send"
    /\ UNCHANGED <<triggerVars, mainVars, listVars, upgradeEndpoints, upgradeSchedHops,
                   currentUpgradeIndex, upgradeCounter, triggerType, watchVars>>

UpgradeSend ==
    /\ upc = "send"
    /\ CanSend
    /\ triggerEventsChan' = Append(triggerEventsChan, triggerType)
    /\ upc' = "unlock"
    /\ UNCHANGED <<pc, holder, chanClosed, wg, stopClosed, exited, runTimeOver, due, chaosMap,
                   executions, invocations, mainVars, listVars, upgradeEndpoints,
                   upgradeSchedHops, currentUpgradeIndex, upgradeCounter, triggerType, applied,
                   watchVars>>

\* Mutant of UpgradeUnlock: disruptiveTriggerLock stays locked after the upgrade.
UpgradeUnlock_Keeps ==
    /\ upc = "unlock"
    /\ UNCHANGED holder
    /\ upc' = "restore"
    /\ UNCHANGED <<pc, triggerEventsChan, chanClosed, wg, stopClosed, exited, runTimeOver, due,
                   chaosMap, executions, invocations, mainVars, listVars, upgradeEndpoints,
                   upgradeSchedHops, currentUpgradeIndex, upgradeCounter, triggerType, applied,
                   watchVars>>

UpgradeUnlock ==
    /\ upc = "unlock"
    /\ Release("disruptiveTriggerLock", Upgrader)
    /\ upc' = "restore"
    /\ UNCHANGED <<pc, triggerEventsChan, chanClosed, wg, stopClosed, exited, runTimeOver, due,
                   chaosMap, executions, invocations, mainVars, listVars, upgradeEndpoints,
                   upgradeSchedHops, currentUpgradeIndex, upgradeCounter, triggerType, applied,
                   watchVars>>

\* Mutant of RestoreLists: the endpoint list is left at its single element.
RestoreLists_EndpointsForgotten ==
    /\ upc = "restore"
    /\ schedUpgradeHops' = Join(upgradeSchedHops)
    /\ upgradeCounter' = [upgradeCounter EXCEPT ![triggerType] = @ + 1]
    /\ triggerType' = NoUpgrade
    /\ upc' = "split"
    /\ UNCHANGED <<triggerVars, mainVars, endpointList, upgradeEndpoints, upgradeSchedHops,
                   currentUpgradeIndex, applied, watchVars>>

(* Both lists are written back as they were split at the top of the loop.   *)
RestoreLists ==
    /\ upc = "restore"
    /\ schedUpgradeHops' = Join(upgradeSchedHops)
    /\ endpointList' = Join(upgradeEndpoints)
    /\ upgradeCounter' = [upgradeCounter EXCEPT ![triggerType] = @ + 1]
    /\ triggerType' = NoUpgrade
    /\ upc' = "split"
    /\ UNCHANGED <<triggerVars, mainVars, upgradeEndpoints, upgradeSchedHops,
                   currentUpgradeIndex, applied, watchVars>>

UpgradeStep ==
    \/ SplitEndpoints \/ SplitHops \/ UpgradeTimeOut \/ UpgradesCompleted \/ UpgradeNotYet
    \/ SkipUpgrade \/ ChooseUpgrade \/ UpgradeLock \/ RunUpgrade \/ UpgradeSend
    \/ UpgradeUnlock \/ RestoreLists

-----------------------------------------------------------------------------
(* The ConfigMap watch: one callback at a time, populateDataFromConfigMap.  *)
WatchEvent ==
    /\ watch = "idle"
    /\ configUpdates < MaxConfigUpdates
    /\ configMap' \in ConfigMaps
    /\ configUpdates' = configUpdates + 1
    /\ watch' = "endpoints"
    /\ UNCHANGED <<triggerVars, mainVars, listVars, upgradeVars>>

(* A list is accepted when there was none, or when it is not shorter.       *)
Accepts(current, new) == new # <<>> /\ (current = <<>> \/ Len(new) >= Len(Split(current)))

SetUpgradeStorageDriverEndpointList ==
    /\ watch = "endpoints"
    /\ endpointList' = IF Accepts(endpointList, configMap.endpoints)
                       THEN configMap.endpoints ELSE endpointList
    /\ watch' = "hops"
    /\ UNCHANGED <<triggerVars, mainVars, schedUpgradeHops, upgradeVars, configMap, configUpdates>>

SetSchedUpgradeHops ==
    /\ watch = "hops"
    /\ schedUpgradeHops' = IF Accepts(schedUpgradeHops, configMap.hops)
                           THEN configMap.hops ELSE schedUpgradeHops
    /\ watch' = "triggers"
    /\ UNCHANGED <<triggerVars, mainVars, endpointList, upgradeVars, configMap, configUpdates>>

(* One iteration of populateTriggers, which ranges over the levels in any   *)
(* order.  A new level is a new interval: the goroutine may be due no more. *)
SetTrigger ==
    /\ watch = "triggers"
    /\ \E k \in configMap.keys :
          /\ PopulateTriggers({k}, configMap.enabled)
          /\ due' \in {due, due \ {k}}
          /\ configMap' = [configMap EXCEPT !.keys = @ \ {k}]
    /\ UNCHANGED <<pc, holder, triggerEventsChan, chanClosed, wg, stopClosed, exited, runTimeOver,
                   executions, invocations, mainVars, listVars, upgradeVars, watch, configUpdates>>

(* The callback returns: all levels are set, or one was not a number.       *)
TriggersSet ==
    /\ watch = "triggers"
    /\ configMap.keys = {} \/ configMap.malformed
    /\ configMap' = NoConfigMap
    /\ watch' = "idle"
    /\ UNCHANGED <<triggerVars, mainVars, listVars, upgradeVars, configUpdates>>

WatchCallback == SetUpgradeStorageDriverEndpointList \/ SetSchedUpgradeHops \/ SetTrigger
                 \/ TriggersSet
WatchStep == WatchEvent \/ WatchCallback

-----------------------------------------------------------------------------
(* CollectEventRecords in its own goroutine; range ends on a closed channel. *)
Collect ==
    /\ collecting
    /\ CollectEventRecord
    /\ UNCHANGED <<mainVars, listVars, upgradeVars, watchVars>>

CollectorEnds ==
    /\ collecting
    /\ chanClosed
    /\ triggerEventsChan = <<>>
    /\ collecting' = FALSE
    /\ UNCHANGED <<triggerVars, mainPc, appsDeployed, listVars, upgradeVars, watchVars>>

TestStep(g) == GoroutineStep(g) /\ UNCHANGED <<mainVars, listVars, upgradeVars, watchVars>>

Time == /\ RunTimeOver \/ \E g \in Goroutines : IntervalOver(g)
        /\ UNCHANGED <<mainVars, listVars, upgradeVars, watchVars>>

(* The test is over: the process has exited, or main and the collector have *)
(* returned.                                                                *)
Finished ==
    /\ exited \/ (mainPc = "done" /\ ~collecting)
    /\ UNCHANGED vars

Next ==
    \/ /\ ~exited
       /\ \/ MainStep \/ UpgradeStep \/ WatchStep \/ Collect \/ CollectorEnds \/ Time
          \/ \E g \in Goroutines : TestStep(g)
    \/ Finished

Spec == Init /\ [][Next]_vars
-----------------------------------------------------------------------------
(* The scheduler runs every goroutine that can take a step.  Strong         *)
(* fairness where a goroutine waits for a mutex or for room in the channel: *)
(* sync.Mutex hands the lock to a waiter that has starved for 1ms, and a    *)
(* channel serves its blocked senders in order.                             *)
Fairness ==
    /\ WF_vars(~exited /\ MainStep)
    /\ WF_vars(~exited /\ WatchCallback)
    /\ WF_vars(~exited /\ (Collect \/ CollectorEnds))
    /\ SF_vars(~exited /\ UpgradeStep)
    /\ \A g \in Goroutines : SF_vars(~exited /\ TestStep(g))

FairSpec == Spec /\ Fairness

-----------------------------------------------------------------------------
UpgradeStates == {"none", "split", "splitHops", "check", "lock", "run", "send", "unlock",
                  "restore", "done"}
MainStates == {"deploy", "register", "collect", "wait", "teardown", "done"}

Hops == Seq(HopNames \cup {EmptyHop})

(* The type invariant of the orchestrator's state, with the two points of   *)
(* control that its types depend on: there is a chosen upgrade exactly from *)
(* lock to restore, and the upgrade goroutine runs once main collects.      *)
TypeOK ==
    /\ TriggerTypeOK
    /\ collecting \in BOOLEAN
    /\ appsDeployed \in BOOLEAN
    /\ mainPc \in MainStates
    /\ upc \in UpgradeStates
    /\ endpointList \in Hops
    /\ schedUpgradeHops \in Hops
    /\ upgradeEndpoints \in Hops
    /\ upgradeSchedHops \in Hops
    /\ currentUpgradeIndex \in Nat
    /\ upgradeCounter \in [UpgradeTypes -> Nat]
    /\ triggerType \in UpgradeTypes \cup {NoUpgrade}
    /\ triggerType = NoUpgrade <=> upc \notin {"lock", "run", "send", "unlock", "restore"}
    /\ upc = "none" <=> mainPc \in {"deploy", "register"}
    /\ applied \in [UpgradeTypes -> Hops]
    /\ watch \in {"idle", "endpoints", "hops", "triggers"}
    /\ configMap \in ConfigMapType
    /\ configUpdates \in 0..MaxConfigUpdates

Upgrading == upc \in {"run", "send"}

(* An upgrade never overlaps a disruptive trigger, although it takes only   *)
(* disruptiveTriggerLock and may overlap every other trigger.               *)
UpgradeExcludesDisruptive ==
    Upgrading => \A g \in DisruptiveTriggerFunctions : ~Testing(g)

(* triggerEventsChan is closed only when nothing can send on it any more:   *)
(* every goroutine main registered has returned.                            *)
NoSendOnClosedChannel ==
    chanClosed => upc = "done" /\ \A g \in Goroutines : pc[g] = "done"

Running == {g \in Goroutines : pc[g] \notin {"none", "done"}}

(* The wait group counts the registered goroutines that have not returned,  *)
(* so its counter is never negative and zero means that all have.           *)
WaitGroupCounts ==
    wg = Cardinality(Running) + (IF upc \in {"none", "done"} THEN 0 ELSE 1)

UpgradesStarted ==
    upgradeCounter[UpgradeVolumeDriver] + upgradeCounter[UpgradeCluster]
        + (IF triggerType = NoUpgrade THEN 0 ELSE 1)

(* As long as the ConfigMap is not edited the n-th upgrade starts only      *)
(* after every enabled trigger function was really called                   *)
(* n * upgradeExecutionThreshold times ("the number of times each function  *)
(* needs to execute before upgrading"), although the upgrade goroutine sees *)
(* only what the collector has counted.                                     *)
UpgradeAfterThreshold ==
    configUpdates = 0 /\ Upgrading
        => \A t \in Tests \cap chaosMap : invocations[t] >= UpgradesStarted * Threshold

(* As long as the ConfigMap is not edited every hop of either list is       *)
(* applied at most once and in the order of the list, and when the upgrade  *)
(* goroutine announces that "all upgrades are completed" by closing         *)
(* StopLongevityChan, all were.                                             *)
UpgradesInOrder ==
    configUpdates = 0 => \A u \in UpgradeTypes :
        LET all == IF u = UpgradeVolumeDriver THEN Split(InitialEndpoints) ELSE InitialHops
            n == Len(applied[u])
        IN  /\ n <= Len(all)
            /\ applied[u] = SubSeq(all, 1, n)
            /\ stopClosed => n = Len(all)

(* With upgradeExecutionThreshold 0 and no minimum run time the test ends   *)
(* by itself: the upgrades finish, every goroutine sees StopLongevityChan,  *)
(* and main tears the applications down.                                    *)
TeardownAfterUpgrades == <>(mainPc = "done" /\ ~appsDeployed)

(* A trigger that waits for its lock gets to run its function: the locks    *)
(* are nested in one order and no holder waits for a waiter.                *)
WaitersRun == \A g \in Tests : pc[g] = "lock" ~> (pc[g] = "run" \/ exited)
=============================================================================
