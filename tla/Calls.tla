-------------------------------- MODULE Calls --------------------------------
(***************************************************************************)
(* Threads of the test program that call driver functions.  A driver        *)
(* function is a sequence of steps; a step that reaches another program is   *)
(* one action, so the other program and the other threads go on between two *)
(* of them.  A step that fails ends the call with an error, unless it is in  *)
(* a closure that task.DoRetryWithTimeout runs again or in a part whose      *)
(* error the function handles itself.  A scene gives every caller a script   *)
(* of calls, the other programs their initial state, and a number of faults. *)
(***************************************************************************)
EXTENDS Integers, FiniteSets, SequencesExt

CONSTANTS
    Callers,    \* the goroutines of the test program
    Scenes,     \* a sequence of scenes
    MaxTries    \* the runs of a closure that fit before the deadline

VARIABLES
    scene,      \* the number of the scene this behaviour plays
    th,         \* the threads
    faults      \* how many requests have failed so far

Scene == Scenes[scene]

Idle == [script |-> <<>>, todo |-> <<>>, again |-> <<>>, catch |-> <<>>,
         tries |-> 0, lk |-> <<>>, res |-> "none"]

Call(c) == Head(th[c].script)
Step(c) == Head(th[c].todo)
At(c, do) == th[c].todo # <<>> /\ Step(c).do = do
Local(c, k) == th[c].lk[k]
Fault == faults < Scene.faults /\ faults' = faults + 1

\* Steps of the language the functions are written in.
Try(body) == <<[do |-> "try", body |-> body]>>
Guard(body, handler) == <<[do |-> "guard", body |-> body, handler |-> handler]>>
EndTry == [do |-> "endtry"]
EndGuard == [do |-> "endguard"]
Fail == [do |-> "fail"]

----------------------------------------------------------------------------
\* How a step ends

Ended(c, value) == [Idle EXCEPT !.script = Tail(th[c].script), !.res = value]
Return(c, value) == th' = [th EXCEPT ![c] = Ended(c, value)]

\* The steps that come next: an empty sequence is the end of the function.
GoOn(c, r, steps) ==
    th' = [th EXCEPT ![c] = IF steps = <<>> THEN Ended(c, "nil") ELSE [r EXCEPT !.todo = steps]]
Proceed(c) == GoOn(c, th[c], Tail(th[c].todo))
ProceedWith(c, l) == GoOn(c, [th[c] EXCEPT !.lk = l], Tail(th[c].todo))
Become(c, l, steps) == GoOn(c, [th[c] EXCEPT !.lk = l], steps \o Tail(th[c].todo))

\* An error that leaves the closure, or that no closure holds.
Error(c) ==
    IF th[c].catch = <<>> THEN Return(c, "error")
    ELSE th' = [th EXCEPT ![c].todo = th[c].catch, ![c].again = <<>>, ![c].catch = <<>>, ![c].tries = 0]

\* Mutant: there is no deadline.
RetryForever(c) == IF th[c].again # <<>> THEN th' = [th EXCEPT ![c].todo = th[c].again] ELSE Error(c)

\* DoRetryWithTimeout: the closure failed and asks to be run again, which happens
\* unless the deadline has passed.  Outside a closure the error is final.
Retry(c) ==
    \/ /\ th[c].again # <<>> /\ th[c].tries < MaxTries
       /\ th' = [th EXCEPT ![c].todo = th[c].again, ![c].tries = @ + 1]
    \/ /\ th[c].again = <<>> \/ th[c].tries = MaxTries
       /\ Error(c)

\* The outcome of a closure as it returns it.
Outcome(c, verdict) ==
    CASE verdict = "ok" -> Proceed(c)
      [] verdict = "retry" -> Retry(c)
      [] verdict = "error" -> Error(c)
      [] verdict = "done" -> Return(c, "nil")
      [] verdict = "panic" -> Return(c, "panic")

----------------------------------------------------------------------------
\* Steps of the language

Enter(c) ==
    LET rest == Tail(th[c].todo) IN
    \/ /\ At(c, "try")
       /\ LET run == Step(c).body \o <<EndTry>> \o rest
          IN th' = [th EXCEPT ![c].todo = run, ![c].again = run, ![c].tries = 1]
    \/ /\ At(c, "guard")
       /\ th' = [th EXCEPT ![c].todo = Step(c).body \o <<EndGuard>> \o rest,
                           ![c].catch = Step(c).handler \o rest]

Leave(c) ==
    \/ At(c, "endtry") /\ GoOn(c, [th[c] EXCEPT !.again = <<>>, !.tries = 0], Tail(th[c].todo))
    \/ At(c, "endguard") /\ GoOn(c, [th[c] EXCEPT !.catch = <<>>], Tail(th[c].todo))
    \/ At(c, "fail") /\ Error(c)

\* A thread that is between two calls starts the next one of its script.
Begin(c, program, locals) ==
    /\ th[c].todo = <<>> /\ th[c].script # <<>>
    /\ IF program = <<>> THEN Return(c, "nil")
       ELSE th' = [th EXCEPT ![c].todo = program, ![c].lk = locals, ![c].res = "none"]

\* The call of c ends in this step with the given result.
Ends(c, value) ==
    /\ th[c].todo # <<>> /\ th'[c].todo = <<>>
    /\ th'[c].res = value /\ th'[c].script = Tail(th[c].script)

CallsTyped ==
    /\ scene \in DOMAIN Scenes /\ faults \in 0..Scene.faults
    /\ \A c \in Callers :
         /\ th[c].tries \in 0..MaxTries
         /\ th[c].res \in {"none", "nil", "error", "panic"}
         /\ th[c].again # <<>> => th[c].tries > 0
         /\ th[c].todo # <<>> => th[c].script # <<>>
=============================================================================
