--------------------------- MODULE TriggerCluster ---------------------------
(***************************************************************************)
(* What the triggers of the longevity test work on: the nodes with their     *)
(* driver, the volumes, the applications, and the memory that one trigger    *)
(* leaves to the next.  A trigger is a sequence of steps (Calls): a request   *)
(* to a driver and what follows when it succeeds and when it fails, the       *)
(* error channel of the helpers, the goroutines of the trigger, and the event *)
(* record that its last deferred function sends.                              *)
(***************************************************************************)
EXTENDS Calls, TLC

CONSTANTS
    Main,                 \* the goroutine of the trigger
    Kids,                 \* the goroutines it starts
    ErrorChannelSize      \* errorChannelSize

VARIABLES
    nd,         \* the nodes
    vol,        \* the volumes of the applications
    ctxs,       \* *contexts: the applications of the test
    pkg,        \* package variables of the tests and settings of the cluster
    ev,         \* the event record of the trigger
    sent        \* how many records were sent on recordChan

clusterVars == <<nd, vol, ctxs, pkg>>

GoodNode == [os |-> "up", px |-> "up", maint |-> FALSE, pool |-> FALSE, kubelet |-> TRUE, cordon |-> FALSE,
             member |-> TRUE, joins |-> FALSE, grow |-> "none", size |-> 0]
Nodes == DOMAIN nd
StorageNodes == SelectSeq(Scene.nodes, LAMBDA n : nd[n].member)

\* The node serves: nothing has to happen before applications can use it.
Serves(n) ==
    /\ nd[n].os = "up" /\ nd[n].px = "up" /\ nd[n].kubelet
    /\ ~nd[n].maint /\ ~nd[n].pool /\ ~nd[n].cordon
\* The node comes back by itself.
Returns(n) ==
    /\ nd[n].os \in {"up", "boot"} /\ (nd[n].px \in {"up", "start"} \/ nd[n].os = "boot")
    /\ ~nd[n].maint /\ ~nd[n].pool /\ ~nd[n].cordon /\ (nd[n].kubelet \/ nd[n].os = "boot")
Runs(n) == nd[n].os = "up" /\ nd[n].px = "up"
Members == {n \in Nodes : nd[n].member}
AllServe == \A n \in Members : Serves(n)

----------------------------------------------------------------------------
\* The steps

\* A request to a driver about a node, a wait for a state of it, a question that
\* has an answer or an error, and a check of an application.
On(op, n) == [do |-> "node", op |-> op, n |-> n, ok |-> <<>>, bad |-> <<>>]
Until(op, n) == [do |-> "wait", op |-> op, n |-> n, ok |-> <<>>, bad |-> <<>>]
Ask(op) == [do |-> "ask", op |-> op, ok |-> <<>>, bad |-> <<>>]
Check(op) == [do |-> "app", op |-> op, ok |-> <<>>, bad |-> <<>>]
Look(op, n) == [do |-> "look", op |-> op, n |-> n, ok |-> <<>>, bad |-> <<>>]
\* A request about a volume, with a change of its replication factor and a node.
Vol(op, v, d, n) == [do |-> "vol", op |-> op, v |-> v, d |-> d, n |-> n, ok |-> <<>>, bad |-> <<>>]

\* UpdateOutcome loads the slice and stores it with the error appended.
Note == <<[do |-> "load"], [do |-> "append"]>>
Send == <<[do |-> "send"]>>
Panic == <<[do |-> "panic"]>>
Block == <<[do |-> "block"]>>
Close == <<[do |-> "close", deferred |-> TRUE]>>
Make == <<[do |-> "make"]>>
Drain == <<[do |-> "range"]>>
Discard == <<[do |-> "discard"]>>
Record == <<[do |-> "record", deferred |-> TRUE]>>

\* What happens to the error of a step, and what only follows a success.
Noted(s) == <<[s EXCEPT !.bad = Note]>>
Sent(s) == <<[s EXCEPT !.bad = Send]>>
Logged(s) == <<s>>
Unless(s, steps) == <<[s EXCEPT !.bad = Note, !.ok = steps]>>
OrElse(s, steps) == <<[s EXCEPT !.bad = steps]>>
If(q, n, yes, no) == <<[do |-> "if", q |-> q, n |-> n, yes |-> yes, no |-> no]>>
While(q, n, steps) == <<[do |-> "while", q |-> q, n |-> n, body |-> steps]>>
Skip(k, flag) == <<[do |-> "skip", k |-> k, flag |-> flag]>>
UnlessSkipped(k, steps) == <<[do |-> "unless", k |-> k, no |-> steps]>>

\* make(chan error, errorChannelSize), a helper that closes it, and the loop over it.
Collected(steps) == Make \o steps \o Close \o Drain

\* wg.Add, a goroutine that ends with wg.Done, wg.Wait.
Add == <<[do |-> "add"]>>
Go(steps) == <<[do |-> "go", body |-> steps]>>
Done == <<[do |-> "done", deferred |-> TRUE]>>
Join == <<[do |-> "join"]>>

\* A function, a closure or the body of a loop, and a statement that leaves it: its
\* deferred steps are still run.
Fn(f, steps) == steps \o <<[do |-> "end", f |-> f]>>
Exit(f) == <<[do |-> "return", f |-> f]>>
Defer(f, steps) == <<[do |-> "defer", f |-> f, body |-> steps]>>
\* Steps that depend on what the trigger has found out when it reaches them.
Expand(what) == <<[do |-> "expand", what |-> what, arg |-> ""]>>
ExpandFor(what, x) == <<[do |-> "expand", what |-> what, arg |-> x]>>
\* A variable of the trigger or of the package, or a setting of the cluster.
Assign(x, b) == <<[do |-> "assign", x |-> x, b |-> b]>>
NoteAndExit(s, f) == <<[s EXCEPT !.bad = Note \o Exit(f)]>>
For(seq, Body(_)) == FlattenSeq([j \in DOMAIN seq |-> Body(seq[j])])

----------------------------------------------------------------------------
\* The nodes

Refused(op, n) ==
    CASE op = "PowerOn" -> nd[n].os # "off"
      [] op \in {"Cordon", "Uncordon"} -> FALSE
      [] op = "EnterMaintenance" -> nd[n].os # "up" \/ nd[n].px # "up" \/ nd[n].maint
      [] op = "ResizePool" -> ~Runs(n) \/ nd[n].grow = "pending"
      [] op = "DecommissionNode" -> ~Runs(n) \/ \E v \in DOMAIN vol : n \in vol[v].on
      [] OTHER -> nd[n].os # "up"

After(op, r) ==
    CASE op = "StopDriver" -> [r EXCEPT !.px = "down"]
      [] op = "StartDriver" -> [r EXCEPT !.px = IF @ = "down" THEN "start" ELSE @]
      [] op \in {"CrashDriver", "KillPXDaemon", "RestartDriver"} -> [r EXCEPT !.px = "start"]
      [] op \in {"RebootNode", "CrashNode"} -> [r EXCEPT !.os = "boot", !.px = "down"]
      [] op = "PowerOff" -> [r EXCEPT !.os = "off", !.px = "down"]
      [] op = "PowerOn" -> [r EXCEPT !.os = "boot"]
      [] op = "StopKubelet" -> [r EXCEPT !.kubelet = FALSE]
      [] op = "StartKubelet" -> [r EXCEPT !.kubelet = TRUE]
      [] op = "EnterMaintenance" -> [r EXCEPT !.maint = TRUE]
      [] op = "ExitMaintenance" -> [r EXCEPT !.maint = FALSE]
      [] op = "EnterPoolMaintenance" -> [r EXCEPT !.pool = TRUE]
      [] op = "ExitPoolMaintenance" -> [r EXCEPT !.pool = FALSE]
      [] op = "Cordon" -> [r EXCEPT !.cordon = TRUE]
      [] op = "Uncordon" -> [r EXCEPT !.cordon = FALSE]
      [] op = "ResizePool" -> [r EXCEPT !.grow = "pending"]
      [] op = "DecommissionNode" -> [r EXCEPT !.member = FALSE, !.px = "down"]
      [] op = "RecoverNode" -> [r EXCEPT !.maint = FALSE]
      [] op = "RejoinNode" -> [r EXCEPT !.joins = TRUE, !.px = "start"]

\* What a wait or a look is satisfied by, and what may still bring it about.
Holds(op, n) ==
    CASE op = "DriverUp" -> nd[n].os = "up" /\ nd[n].px = "up" /\ ~nd[n].maint
      [] op = "DriverDown" -> nd[n].px # "up"
      [] op = "Connection" -> nd[n].os = "up"
      [] op = "Ready" -> nd[n].os = "up" /\ nd[n].kubelet
      [] op = "NotReady" -> nd[n].os # "up" \/ ~nd[n].kubelet
      [] op = "Healthy" -> nd[n].os = "up" /\ nd[n].px = "up" /\ ~nd[n].maint /\ ~nd[n].pool
      [] op = "PoolOnline" -> ~nd[n].pool
      [] op = "PoolMaintenance" -> nd[n].pool
      [] op = "Expanding" -> nd[n].grow = "pending"
      [] op = "Resized" -> nd[n].grow = "none"
      [] op = "Decommissioned" -> ~nd[n].member \/ nd[n].px # "up"
      [] op = "Joined" -> nd[n].member
      [] op = "KvdbMembers" -> nd[n].os = "up" /\ nd[n].px = "up"
      [] op = "KvdbHealthy" -> \A m \in pkg.kvdb : nd[m].os = "up" /\ nd[m].px = "up"
Pending(op, n) ==
    CASE op = "DriverUp" -> ~nd[n].maint /\ (nd[n].os = "boot" \/ nd[n].px = "start")
      [] op = "Connection" -> nd[n].os = "boot"
      [] op = "Ready" -> nd[n].os = "boot" \/ Scene.aks
      [] op = "Resized" -> nd[n].grow = "pending" /\ (nd[n].os = "boot" \/ (nd[n].os = "up" /\ nd[n].px # "down"))
      [] op = "Joined" -> nd[n].joins /\ nd[n].os # "off"
      [] OTHER -> FALSE

----------------------------------------------------------------------------
\* The volumes

GoodVolume == [on |-> {}, want |-> 1, to |-> "none", profile |-> "auto", label |-> "none", cos |-> "low"]
Settled(v) == vol[v].want = Cardinality(vol[v].on)
Free(v) == {n \in Members : n \notin vol[v].on /\ Runs(n)}

\* An update of the replication factor is taken when none is going on, changes it by
\* at most one, and has a node to go to.
Updatable(v, factor, n) ==
    /\ Settled(v) /\ (\E m \in vol[v].on : Runs(m)) /\ factor \in 1..3
    /\ factor - vol[v].want \in {-1, 0, 1}
    /\ factor > vol[v].want => IF n = "none" THEN Free(v) # {} ELSE n \in Free(v)
    /\ factor < vol[v].want => n \in vol[v].on \cup {"none"}
Replicated(v, factor) == vol[v].want = factor /\ Settled(v) /\ \A n \in vol[v].on : Runs(n)
\* The update may still finish.
Replicating(v, factor) ==
    /\ vol[v].want = factor /\ \A n \in vol[v].on : Returns(n)
    /\ factor > Cardinality(vol[v].on) =>
         \E n \in Members \ vol[v].on : Returns(n) /\ vol[v].to \in {"none", n}

Resyncs(v) ==
    /\ ~Settled(v) /\ \E m \in vol[v].on : Runs(m)
    /\ \/ /\ vol[v].want > Cardinality(vol[v].on)
          /\ \E n \in Free(v) : vol[v].to \in {"none", n} /\ vol' = [vol EXCEPT ![v].on = @ \cup {n}, ![v].to = "none"]
       \/ /\ vol[v].want < Cardinality(vol[v].on)
          /\ \E n \in vol[v].on : vol[v].to \in {"none", n} /\ vol' = [vol EXCEPT ![v].on = @ \ {n}, ![v].to = "none"]
    /\ UNCHANGED <<scene, th, faults, nd, ctxs, pkg, ev, sent>>

----------------------------------------------------------------------------
\* The nodes go on by themselves

Boots(n) ==
    /\ nd[n].os = "boot"
    /\ \/ nd' = [nd EXCEPT ![n].os = "up", ![n].px = "start", ![n].kubelet = TRUE] /\ UNCHANGED faults
       \/ nd' = [nd EXCEPT ![n].os = "off"] /\ Fault
    /\ UNCHANGED <<scene, th, vol, ctxs, pkg, ev, sent>>
Starts(n) ==
    /\ nd[n].os = "up" /\ nd[n].px = "start" /\ nd[n].member
    /\ \/ nd' = [nd EXCEPT ![n].px = "up"] /\ UNCHANGED faults
       \/ nd' = [nd EXCEPT ![n].px = "down"] /\ Fault
    /\ UNCHANGED <<scene, th, vol, ctxs, pkg, ev, sent>>
KubeletReturns(n) ==
    /\ Scene.aks /\ nd[n].os = "up" /\ ~nd[n].kubelet
    /\ nd' = [nd EXCEPT ![n].kubelet = TRUE]
    /\ UNCHANGED <<scene, th, faults, vol, ctxs, pkg, ev, sent>>
\* A node that was told to rejoin becomes a member, and its pool grows.
Joins(n) ==
    /\ nd[n].joins /\ nd[n].os = "up"
    /\ \/ nd' = [nd EXCEPT ![n].joins = FALSE, ![n].member = TRUE] /\ UNCHANGED faults
       \/ nd' = [nd EXCEPT ![n].joins = FALSE] /\ Fault
    /\ UNCHANGED <<scene, th, vol, ctxs, pkg, ev, sent>>
Grows(n) ==
    /\ nd[n].grow = "pending" /\ Runs(n)
    /\ \/ nd' = [nd EXCEPT ![n].grow = "none", ![n].size = @ + 1] /\ UNCHANGED faults
       \/ nd' = [nd EXCEPT ![n].grow = "failed"] /\ Fault
    /\ UNCHANGED <<scene, th, vol, ctxs, pkg, ev, sent>>
\* A member of the internal key-value store that is down is replaced.
KvdbMoves(n) ==
    /\ n \in pkg.kvdb /\ nd[n].px = "down"
    /\ \E m \in Members \ pkg.kvdb :
         nd[m].px = "up" /\ pkg' = [pkg EXCEPT !.kvdb = (@ \ {n}) \cup {m}]
    /\ UNCHANGED <<scene, th, faults, nd, vol, ctxs, ev, sent>>
=============================================================================
