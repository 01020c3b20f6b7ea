----------------------------- MODULE Longevity -----------------------------
(***************************************************************************)
(* The {Longevity} and {BackupLongevity} tests.  Main deploys              *)
(* applications, starts one goroutine per trigger and one for the email    *)
(* report, and then collects event records itself, in a range over a       *)
(* channel that only main closes, after that range.  {Longevity} runs      *)
(* testTrigger goroutines (TriggerFunctions), {BackupLongevity}            *)
(* backupEventTrigger goroutines (BackupFunctions); both under triggerLock.*)
(***************************************************************************)
EXTENDS TestTrigger

CONSTANTS
    InitiallyEnabled,    \* trigger types with a level other than 0 in the ConfigMap
    ConfigMaps,          \* edits of the ConfigMap: records of keys, enabled, malformed
    MaxConfigUpdates     \* bound: ConfigMap events after the first one

ASSUME LongevityAssumption ==
    /\ DisruptiveTriggerFunctions = {}
    /\ InitiallyEnabled \subseteq Goroutines
    /\ \A cm \in ConfigMaps : /\ cm.keys \subseteq Goroutines
                              /\ cm.enabled \subseteq Goroutines
                              /\ cm.malformed \in BOOLEAN
    /\ MaxConfigUpdates \in Nat

VARIABLES
    mainPc,              \* where the It block of main is
    started,             \* the goroutine whose wg.Add(1) is still to come, or Nobody
    appsDeployed,        \* the contexts of the initial triggers exist on the cluster
    configUpdates        \* number of ConfigMap watch callbacks so far

mainVars == <<mainPc, started, appsDeployed>>
vars == <<triggerVars, mainVars, configUpdates>>

Init ==
    /\ pc = [g \in Goroutines |-> "none"]
    /\ holder = [l \in Locks |-> Nobody]
    /\ triggerEventsChan = <<>>
    /\ chanClosed = FALSE
    /\ wg = 0
    /\ stopClosed = FALSE
    /\ exited = FALSE
    /\ runTimeOver = FALSE
    /\ due = {}
    /\ chaosMap = InitiallyEnabled
    /\ executions = [e \in EventTypes |-> 0]
    /\ invocations = [g \in Goroutines |-> 0]
    /\ mainPc = "deploy"
    /\ started = Nobody
    /\ appsDeployed = FALSE
    /\ configUpdates = 0

-----------------------------------------------------------------------------
(* TriggerDeployNewApps, or the four initial backup triggers: their records *)
(* stay in the channel's buffer.                                            *)
DeployApps ==
    /\ mainPc = "deploy"
    /\ appsDeployed' = TRUE
    /\ triggerEventsChan' = InitialEvents
    /\ mainPc' = "register"
    /\ UNCHANGED <<pc, holder, chanClosed, wg, stopClosed, exited, runTimeOver, due, chaosMap,
                   executions, invocations, started, configUpdates>>

(* go testTrigger, go backupEventTrigger, then go emailEventTrigger: the    *)
(* goroutine runs before it is added to the wait group.                     *)
GoTrigger(g) ==
    /\ mainPc = "register"
    /\ started = Nobody
    /\ pc[g] = "none"
    /\ g = Email => \A t \in Tests : pc[t] # "none"
    /\ Goto(g, LoopTop(g))
    /\ started' = g
    /\ UNCHANGED <<holder, triggerEventsChan, chanClosed, wg, stopClosed, exited, runTimeOver,
                   due, chaosMap, executions, invocations, mainPc, appsDeployed, configUpdates>>

AddTrigger ==
    /\ started # Nobody
    /\ wg' = wg + 1
    /\ started' = Nobody
    /\ mainPc' = IF started = Email THEN "collect" ELSE mainPc
    /\ UNCHANGED <<pc, holder, triggerEventsChan, chanClosed, stopClosed, exited, runTimeOver,
                   due, chaosMap, executions, invocations, appsDeployed, configUpdates>>

(* CollectEventRecords in main: one record, or the end of the range, which  *)
(* needs a closed channel.                                                  *)
CollectRecord ==
    /\ mainPc = "collect"
    /\ CollectEventRecord
    /\ UNCHANGED <<mainVars, configUpdates>>

MainStep == DeployApps \/ AddTrigger \/ CollectRecord \/ \E g \in Goroutines : GoTrigger(g)

(* The ConfigMap watch.  The keys that are assigned before a malformed      *)
(* level ends the loop may be any of them.                                  *)
WatchConfigMap ==
    /\ configUpdates < MaxConfigUpdates
    /\ \E cm \in ConfigMaps :
         \E keys \in IF cm.malformed THEN SUBSET cm.keys ELSE {cm.keys} :
            /\ PopulateTriggers(keys, cm.enabled)
            /\ \E kept \in SUBSET (due \cap keys) : due' = (due \ keys) \cup kept
    /\ configUpdates' = configUpdates + 1
    /\ UNCHANGED <<pc, holder, triggerEventsChan, chanClosed, wg, stopClosed, exited, runTimeOver,
                   executions, invocations, mainVars>>

TestStep(g) == GoroutineStep(g) /\ UNCHANGED <<mainVars, configUpdates>>

Time == /\ RunTimeOver \/ \E g \in Goroutines : IntervalOver(g)
        /\ UNCHANGED <<mainVars, configUpdates>>

Exited == exited /\ UNCHANGED vars

Next ==
    \/ /\ ~exited
       /\ MainStep \/ WatchConfigMap \/ Time \/ \E g \in Goroutines : TestStep(g)
    \/ Exited

Spec == Init /\ [][Next]_vars

(* Main and the clock are never blocked by a lock; a trigger goroutine may  *)
(* wait for a mutex or for room in the channel, both of which are fair.     *)
Fairness ==
    /\ WF_vars(~exited /\ MainStep)
    /\ WF_vars(~exited /\ RunTimeOver /\ UNCHANGED <<mainVars, configUpdates>>)
    /\ \A g \in Goroutines : SF_vars(~exited /\ TestStep(g))

FairSpec == Spec /\ Fairness

-----------------------------------------------------------------------------
(* The type invariant of the orchestrator's state.                          *)
TypeOK ==
    /\ TriggerTypeOK
    /\ appsDeployed \in BOOLEAN
    /\ mainPc \in {"deploy", "register", "collect"}
    /\ started \in Goroutines \cup {Nobody}
    /\ configUpdates \in 0..MaxConfigUpdates

(* No call of a trigger function is lost or counted twice on its way        *)
(* through the channel: what was called was counted by the collector, or    *)
(* waits in the channel, or is about to be sent.                            *)
RecordsAccounted ==
    \A t \in Tests :
        executions[t] + Count(t, triggerEventsChan) + (IF pc[t] \in {"send", "sendAgain"} THEN 1 ELSE 0)
          = invocations[t] + (IF mainPc = "deploy" THEN 0 ELSE Count(t, InitialEvents))

(* A turn of a goroutine is unbroken, the two calls of backupEventTrigger   *)
(* and the blocking send between them included ("This lock needs to be      *)
(* removed once the restore validation is made thread safe"): from its      *)
(* first call to its last record no other trigger function is called.       *)
TurnsUnbroken ==
    [][\A g, h \in Tests : g # h /\ Testing(g) => invocations'[h] = invocations[h]]_vars

(* "If timeout is 0, run indefinitely": otherwise the process ends after    *)
(* MinRunTimeMins, whoever holds the lock and however full the channel is.  *)
ExitsAfterMinRunTime == MinRunTimeSet => <>exited

(* Step "teardown all apps": what was deployed is torn down before the test *)
(* ends.                                                                    *)
AppsTornDown == exited => ~appsDeployed
=============================================================================
