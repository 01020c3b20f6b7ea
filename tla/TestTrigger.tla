----------------------------- MODULE TestTrigger -----------------------------
(***************************************************************************)
(* The part the three longevity programs share: the goroutines that run    *)
(* one test trigger each (testTrigger, backupEventTrigger and              *)
(* emailEventTrigger), the locks they take, the channel on which a trigger *)
(* leaves its event record, the collector that empties it, the chaos map   *)
(* that enables triggers, the wait group and the stop channel.             *)
(*                                                                         *)
(* A goroutine is named by its trigger type.  What a trigger does to the   *)
(* cluster is one step, TriggerBody; that it holds its lock(s) before,     *)
(* during and after that step, and sends exactly one record per            *)
(* invocation, is what the longevity programs rely on.                     *)
(***************************************************************************)
EXTENDS Integers, Sequences, FiniteSets

CONSTANTS
    TriggerFunctions,            \* keys of triggerFunctions
    DisruptiveTriggerFunctions,  \* keys of disruptiveTriggerFunctions
    BackupFunctions,             \* keys of triggerBackupFunctions
    OtherEvents,                 \* event types that no goroutine above is named after
    InitialEvents,               \* records main sends before it registers anything
    ChanCap,                     \* capacity of triggerEventsChan
    MinRunTimeSet,               \* Inst().MinRunTimeMins # 0
    MaxInvocations               \* bound: invocations of one trigger

Tests == TriggerFunctions \cup DisruptiveTriggerFunctions \cup BackupFunctions
Email == "emailReporter"
Goroutines == Tests \cup {Email}
Nobody == "nobody"
Upgrader == "upgrader"

ASSUME TestTriggerAssumption ==
    /\ IsFiniteSet(Tests)
    /\ TriggerFunctions \cap DisruptiveTriggerFunctions = {}
    /\ TriggerFunctions \cap BackupFunctions = {}
    /\ DisruptiveTriggerFunctions \cap BackupFunctions = {}
    /\ {Email, Nobody, Upgrader} \cap Tests = {}
    /\ InitialEvents \in Seq(Tests \cup OtherEvents)
    /\ ChanCap \in Nat \ {0}
    /\ Len(InitialEvents) <= ChanCap
    /\ MinRunTimeSet \in BOOLEAN
    /\ MaxInvocations \in Nat

EventTypes == Tests \cup OtherEvents
Locks == {"triggerLock", "disruptiveTriggerLock", "emailTriggerLock"}

VARIABLES
    pc,                 \* where each goroutine is; "none" before its go statement
    holder,             \* the goroutine that holds each mutex, or Nobody
    triggerEventsChan,  \* event records sent and not yet received, by type
    chanClosed,         \* close(triggerEventsChan) was executed
    wg,                 \* counter of the WaitGroup
    stopClosed,         \* close(StopLongevityChan) was executed
    exited,             \* os.Exit(0) was executed: no goroutine runs any more
    runTimeOver,        \* MinRunTimeMins have passed since the goroutines started
    due,                \* goroutines with time.Since(lastInvocationTime) > waitTime
    chaosMap,           \* the trigger types whose level in ChaosMap is not 0
    executions,         \* TestExecutionCounter
    invocations         \* history: how often the trigger function was called

triggerVars == <<pc, holder, triggerEventsChan, chanClosed, wg, stopClosed, exited,
                 runTimeOver, due, chaosMap, executions, invocations>>

States == {"none", "select", "decide", "lock", "wrap", "run", "send", "runAgain",
           "sendAgain", "unwrap", "unlock", "done"}

-----------------------------------------------------------------------------
(* The mutex of a goroutine's loop, and the one disruptiveTriggerWrapper adds. *)
LoopLock(g) ==
    IF g = Email THEN "emailTriggerLock"
    ELSE IF g \in DisruptiveTriggerFunctions THEN "disruptiveTriggerLock"
    ELSE "triggerLock"

Goto(g, to) == pc' = [pc EXCEPT ![g] = to]

\* sync.Mutex: Lock blocks until nobody holds the mutex.
Acquire(l, g) == holder[l] = Nobody /\ holder' = [holder EXCEPT ![l] = g]
Release(l, g) == holder' = [holder EXCEPT ![l] = Nobody]

\* backupEventTrigger has no select on StopLongevityChan.
LoopTop(g) == IF g \in BackupFunctions THEN "decide" ELSE "select"

IsTriggerEnabled(g) == g \in chaosMap

-----------------------------------------------------------------------------
\* Mutant of Select: the email loop does not look at StopLongevityChan.
Select_EmailIgnoresStop(g) ==
    /\ pc[g] = "select"
    /\ IF stopClosed /\ g # Email
       THEN Goto(g, "done") /\ wg' = wg - 1
       ELSE Goto(g, "decide") /\ UNCHANGED wg
    /\ UNCHANGED <<holder, triggerEventsChan, chanClosed, stopClosed, exited, runTimeOver,
                   due, chaosMap, executions, invocations>>

(* The select at the top of testTrigger and emailEventTrigger: a closed stop *)
(* channel makes the goroutine return, which runs the deferred wg.Done.      *)
Select(g) ==
    /\ pc[g] = "select"
    /\ IF stopClosed
       THEN Goto(g, "done") /\ wg' = wg - 1
       ELSE Goto(g, "decide") /\ UNCHANGED wg
    /\ UNCHANGED <<holder, triggerEventsChan, chanClosed, stopClosed, exited, runTimeOver,
                   due, chaosMap, executions, invocations>>

\* Mutant of TimeOut: the goroutine returns, without os.Exit(0).
TimeOut_Returns(g) ==
    /\ pc[g] = "decide"
    /\ g # Email
    /\ runTimeOver
    /\ Goto(g, "done")
    /\ wg' = wg - 1
    /\ UNCHANGED <<holder, triggerEventsChan, chanClosed, stopClosed, exited, runTimeOver,
                   due, chaosMap, executions, invocations>>

(* The minimum run time is over: break, then os.Exit(0).  The email loop has *)
(* no such check.                                                            *)
TimeOut(g) ==
    /\ pc[g] = "decide"
    /\ g # Email
    /\ runTimeOver
    /\ exited' = TRUE
    /\ UNCHANGED <<pc, holder, triggerEventsChan, chanClosed, wg, stopClosed, runTimeOver,
                   due, chaosMap, executions, invocations>>

(* The trigger is enabled and its interval is over: go for the lock.         *)
(* Otherwise sleep and start the loop again.                                 *)
Decide(g) ==
    /\ pc[g] = "decide"
    /\ g = Email \/ ~runTimeOver
    /\ IF IsTriggerEnabled(g) /\ g \in due
       THEN Goto(g, "lock")
       ELSE Goto(g, LoopTop(g))
    /\ UNCHANGED <<holder, triggerEventsChan, chanClosed, wg, stopClosed, exited, runTimeOver,
                   due, chaosMap, executions, invocations>>

\* Mutant of Lock: a disruptive trigger is registered without its wrapper.
Lock_NoWrapper(g) ==
    /\ pc[g] = "lock"
    /\ Acquire(LoopLock(g), g)
    /\ Goto(g, "run")
    /\ UNCHANGED <<triggerEventsChan, chanClosed, wg, stopClosed, exited, runTimeOver,
                   due, chaosMap, executions, invocations>>

Lock(g) ==
    /\ pc[g] = "lock"
    /\ Acquire(LoopLock(g), g)
    /\ Goto(g, IF g \in DisruptiveTriggerFunctions THEN "wrap" ELSE "run")
    /\ UNCHANGED <<triggerEventsChan, chanClosed, wg, stopClosed, exited, runTimeOver,
                   due, chaosMap, executions, invocations>>

(* disruptiveTriggerWrapper takes triggerLock inside disruptiveTriggerLock. *)
WrapLock(g) ==
    /\ pc[g] = "wrap"
    /\ Acquire("triggerLock", g)
    /\ Goto(g, "run")
    /\ UNCHANGED <<triggerEventsChan, chanClosed, wg, stopClosed, exited, runTimeOver,
                   due, chaosMap, executions, invocations>>

(* The body of the trigger function.  It ends normally or with a panic that *)
(* GinkgoRecover swallows; both run the deferred send of the event record.  *)
(* TriggerEmailReporter sends none.                                         *)
TriggerBody(g) ==
    /\ \/ pc[g] = "run" /\ Goto(g, IF g = Email THEN "unlock" ELSE "send")
       \/ pc[g] = "runAgain" /\ Goto(g, "sendAgain")
    /\ invocations' = [invocations EXCEPT ![g] = @ + 1]
    /\ UNCHANGED <<holder, triggerEventsChan, chanClosed, wg, stopClosed, exited, runTimeOver,
                   due, chaosMap, executions>>

CanSend == ~chanClosed /\ Len(triggerEventsChan) < ChanCap

(* Where a trigger continues after its record is in the channel.            *)
AfterSend(g) ==
    IF g \in BackupFunctions /\ pc[g] = "send" THEN "runAgain"
    ELSE IF g \in DisruptiveTriggerFunctions THEN "unwrap"
    ELSE "unlock"

\* Mutant of SendRecord: the lock is given back between the two calls of a turn.
SendRecord_UnlocksBetween(g) ==
    /\ pc[g] \in {"send", "sendAgain"}
    /\ CanSend
    /\ triggerEventsChan' = Append(triggerEventsChan, g)
    /\ Goto(g, AfterSend(g))
    /\ IF AfterSend(g) = "runAgain" THEN Release(LoopLock(g), g) ELSE UNCHANGED holder
    /\ UNCHANGED <<chanClosed, wg, stopClosed, exited, runTimeOver, due, chaosMap, executions,
                   invocations>>

(* The deferred *recordChan <- event of every trigger function.             *)
SendRecord(g) ==
    /\ pc[g] \in {"send", "sendAgain"}
    /\ CanSend
    /\ triggerEventsChan' = Append(triggerEventsChan, g)
    /\ Goto(g, AfterSend(g))
    /\ UNCHANGED <<holder, chanClosed, wg, stopClosed, exited, runTimeOver,
                   due, chaosMap, executions, invocations>>

Unwrap(g) ==
    /\ pc[g] = "unwrap"
    /\ Release("triggerLock", g)
    /\ Goto(g, "unlock")
    /\ UNCHANGED <<triggerEventsChan, chanClosed, wg, stopClosed, exited, runTimeOver,
                   due, chaosMap, executions, invocations>>

(* Unlock, then lastInvocationTime = time.Now().                            *)
Unlock(g) ==
    /\ pc[g] = "unlock"
    /\ Release(LoopLock(g), g)
    /\ due' = due \ {g}
    /\ Goto(g, LoopTop(g))
    /\ UNCHANGED <<triggerEventsChan, chanClosed, wg, stopClosed, exited, runTimeOver,
                   chaosMap, executions, invocations>>

GoroutineStep(g) ==
    \/ Select(g) \/ TimeOut(g) \/ Decide(g) \/ Lock(g) \/ WrapLock(g)
    \/ TriggerBody(g) \/ SendRecord(g) \/ Unwrap(g) \/ Unlock(g)

-----------------------------------------------------------------------------
\* Mutant of CollectEventRecord: the counter is set, not incremented.
CollectEventRecord_Sets ==
    /\ triggerEventsChan # <<>>
    /\ executions' = [executions EXCEPT ![Head(triggerEventsChan)] = 1]
    /\ triggerEventsChan' = Tail(triggerEventsChan)
    /\ UNCHANGED <<pc, holder, chanClosed, wg, stopClosed, exited, runTimeOver, due,
                   chaosMap, invocations>>

(* One iteration of CollectEventRecords.  The event ring it also fills is   *)
(* the subject of module EventRing.                                         *)
CollectEventRecord ==
    /\ triggerEventsChan # <<>>
    /\ executions' = [executions EXCEPT ![Head(triggerEventsChan)] = @ + 1]
    /\ triggerEventsChan' = Tail(triggerEventsChan)
    /\ UNCHANGED <<pc, holder, chanClosed, wg, stopClosed, exited, runTimeOver, due,
                   chaosMap, invocations>>

(* populateTriggers: the levels of a set of types are assigned.  The range  *)
(* over the config map stops at the first value that is not a number, so    *)
(* any subset of the keys may be the ones that were assigned.               *)
PopulateTriggers(keys, enabled) ==
    chaosMap' = (chaosMap \ keys) \cup (enabled \cap keys)

-----------------------------------------------------------------------------
(* Time.  A trigger's interval ends at some time after its last invocation, *)
(* at most MaxInvocations times in a run of the model.                      *)
IntervalOver(g) ==
    /\ pc[g] # "none"
    /\ g \notin due
    /\ invocations[g] < MaxInvocations
    /\ due' = due \cup {g}
    /\ UNCHANGED <<pc, holder, triggerEventsChan, chanClosed, wg, stopClosed, exited,
                   runTimeOver, chaosMap, executions, invocations>>

RunTimeOver ==
    /\ MinRunTimeSet
    /\ ~runTimeOver
    /\ runTimeOver' = TRUE
    /\ UNCHANGED <<pc, holder, triggerEventsChan, chanClosed, wg, stopClosed, exited, due,
                   chaosMap, executions, invocations>>

-----------------------------------------------------------------------------
(* The types of the state above, a conjunct of each program's TypeOK.       *)
TriggerTypeOK ==
    /\ pc \in [Goroutines -> States]
    /\ pc[Email] \notin {"wrap", "send", "runAgain", "sendAgain", "unwrap"}
    /\ holder \in [Locks -> Goroutines \cup {Upgrader, Nobody}]
    /\ triggerEventsChan \in Seq(EventTypes)
    /\ Len(triggerEventsChan) <= ChanCap
    /\ wg \in Int
    /\ chanClosed \in BOOLEAN
    /\ stopClosed \in BOOLEAN
    /\ exited \in BOOLEAN
    /\ runTimeOver \in BOOLEAN
    /\ due \subseteq Goroutines
    /\ chaosMap \subseteq Goroutines
    /\ executions \in [EventTypes -> Nat]
    /\ invocations \in [Goroutines -> Nat]

(* How often a type is among the records of a sequence.                     *)
Count(t, s) == Cardinality({i \in 1 .. Len(s) : s[i] = t})

Testing(g) == pc[g] \in {"run", "send", "runAgain", "sendAgain"}

(* triggerLock keeps trigger functions apart, "to prevent concurrent        *)
(* execution of test triggers": at no time do two run, whatever mix of      *)
(* plain, backup and disruptive triggers (which take it in                  *)
(* disruptiveTriggerWrapper) is registered.                                 *)
TriggersExclusive == \A g, h \in Tests : Testing(g) /\ Testing(h) => g = h
=============================================================================
