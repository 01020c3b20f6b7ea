---------------------------- MODULE CloudCluster ----------------------------
(***************************************************************************)
(* What the platform drivers and the node drivers talk to: a managed         *)
(* control plane, a pool of worker machines, the machines themselves and the  *)
(* settings of the cluster.  A request is accepted before it is carried out;  *)
(* machines come, go, roll to another version and reboot by themselves.       *)
(* The registry of nodes and the package variables of the drivers are here    *)
(* too, because a call finds what an earlier one left in them.                *)
(***************************************************************************)
EXTENDS Calls, TLC

CONSTANTS
    Main,       \* the goroutine of the test case
    Kids        \* the goroutines it starts, in order

VARIABLES
    res,        \* the control plane and the node pool
    ms,         \* the machines, in the order of their creation
    reg,        \* the registry: the machines the test program knows
    misc        \* settings of the cluster and package variables of the drivers

cloudVars == <<res, ms, reg, misc>>

Cp == 1
Pool == 2
NoJob == [field |-> "", val |-> 0]
Machine(v, zone) ==
    [v |-> v, zone |-> zone, id |-> 0, st |-> "running", vm |-> "on", os |-> "up", drv |-> "up", disks |-> {},
     net |-> FALSE, ctx |-> FALSE, boots |-> 0, booted |-> TRUE, kubelet |-> TRUE, cmd |-> ""]
Live == {m \in DOMAIN ms : ms[m].st # "gone"}
Serving == {m \in DOMAIN ms : ms[m].st = "running"}
\* The machines the pool counts as its own.
Kept == {m \in DOMAIN ms : ms[m].st \notin {"leaving", "gone"}}
Ready(m) == ms[m].st = "running" /\ ms[m].os = "up"
\* A command reaches the machine: one that is about to reboot still takes it.
Up(m) == ms[m].st = "running" /\ ms[m].os \in {"up", "going"}
Busy(r) == res[r].job # NoJob

----------------------------------------------------------------------------
\* Steps.  The error of a step ends the function, or the closure it is in asks for
\* another run.  Final: no other run.  Drop: the error is ignored.

Final(s) == s @@ [final |-> TRUE]
Drop(s) == s @@ [drop |-> TRUE]
Is(c, attribute) == attribute \in DOMAIN Step(c)

Req(verb, on, val) == [do |-> "req", verb |-> verb, on |-> on, val |-> val]
Net == Req("net", 0, 0)
Nets(n) == [i \in 1..n |-> Net]
Ask(q, on, val) == [do |-> "ask", q |-> q, on |-> on, val |-> val]
Wait(q, on, val) == Try(<<Ask(q, on, val)>>)
\* A look at, or a change of, the memory of the test program: it cannot fail by itself.
Check(q, on, val) == [do |-> "check", q |-> q, on |-> on, val |-> val]
Here(verb, on, val) == [do |-> "here", verb |-> verb, on |-> on, val |-> val]
\* A variable of the test program, a setting of the cluster.
Put(key, flag) == [do |-> "here", verb |-> "set", key |-> key, flag |-> flag]
Setting(key, flag) == [do |-> "req", verb |-> "set", key |-> key, flag |-> flag]
\* An update of the control plane or of the pool.
Update(r, field, val) == [do |-> "req", verb |-> "update", on |-> r, job |-> [field |-> field, val |-> val]]
\* A command: through a shell, by the tools of the guest, by the agent of the cloud.
Command(verb, m, cmd) == [do |-> "req", verb |-> verb, on |-> m, cmd |-> cmd]
Run(m, cmd) == Command("run", m, cmd)
Guest(m, cmd) == Command("guest", m, cmd)
Send(m, cmd) == Command("send", m, cmd)
\* The machine a step is about: New is the one the call found.
New == 0
On(c) == IF Step(c).on = New THEN Local(c, "new") ELSE Step(c).on

\* A panic in a goroutine that no test case recovers ends the process.
Crash == th' = [d \in Callers |-> [Idle EXCEPT !.res = "panic"]]
Failed(c) ==
    CASE Is(c, "drop") -> ProceedWith(c, [th[c].lk EXCEPT !.out = FALSE])
      [] Is(c, "final") -> Error(c)
      [] OTHER -> Retry(c)
Verdict(c, v) ==
    CASE v = "crash" -> Crash
      [] v = "no" -> Failed(c)
      [] OTHER -> Outcome(c, v)

----------------------------------------------------------------------------
\* What a request does

Refused(c) ==
    LET s == Step(c)
        m == On(c)
    IN CASE s.verb = "update" -> Busy(s.on) /\ res[s.on].job # s.job
         [] s.verb \in {"terminate", "replace"} -> ms[m].st # "running"
         [] s.verb = "deleteMachine" -> ms[m].st = "gone"
         [] s.verb = "powerOff" -> ms[m].vm # "on"
         [] s.verb \in {"destroy", "detach", "attach", "powerOn"} -> ms[m].vm = "none"
         [] s.verb = "mkdir" -> misc.dir
         [] s.verb = "addMachine" -> ms[m].vm = "none" \/ ~ms[m].booted \* the guest has no host name yet
         [] s.verb = "run" -> ~Up(m) \/ (s.cmd = "pxctl" /\ Scene.token /\ ~misc.env /\ ~ms[m].ctx)
         [] s.verb = "create context" -> ~Up(m)
         [] s.verb = "delete context" -> ~Up(m) \/ ~ms[m].ctx
         [] s.verb \in {"send", "guest"} -> ~Up(m)
         [] OTHER -> FALSE

OnMachine(m, fields) == ms' = [ms EXCEPT ![m] = fields @@ @] /\ UNCHANGED <<res, reg, misc>>
OnMisc(key, val) == misc' = [misc EXCEPT ![key] = val] /\ UNCHANGED <<res, ms, reg>>
Accept(r, job) ==
    /\ res' = [res EXCEPT ![r].job = job, ![r].st = IF Scene.lag THEN @ ELSE "busy"]
    /\ UNCHANGED <<ms, reg, misc>>
OnDisks(m, disks) == OnMachine(m, [disks |-> disks])
Ran(m, what) ==
    CASE what = "reboot -f" -> OnMachine(m, [os |-> "down"])
      [] what = "reboot" -> OnMachine(m, [os |-> "going"])
      [] what = "crash" -> OnMachine(m, [os |-> "down"])
      [] what = "halt" -> OnMachine(m, [os |-> "down", vm |-> "off"])
      [] what = "kubelet stop" -> OnMachine(m, [kubelet |-> FALSE])
      [] what = "kubelet start" -> OnMachine(m, [kubelet |-> TRUE])
      [] what = "tc add" -> OnMachine(m, [net |-> TRUE])
      [] what = "tc del" -> OnMachine(m, [net |-> FALSE])
      [] OTHER -> UNCHANGED cloudVars
Served(c) ==
    LET s == Step(c)
        m == On(c)
    IN CASE s.verb = "update" -> Accept(s.on, s.job)
         [] s.verb = "resize" -> res' = [res EXCEPT ![Pool].size = s.val] /\ UNCHANGED <<ms, reg, misc>>
         [] s.verb \in {"terminate", "replace", "deleteMachine"} ->
               IF ms[m].st = "gone" THEN UNCHANGED cloudVars ELSE OnMachine(m, [st |-> "leaving"])
         [] s.verb = "powerOff" -> OnMachine(m, [vm |-> "off", os |-> "down"])
         [] s.verb = "powerOn" -> OnMachine(m, [vm |-> "on"])
         [] s.verb = "addMachine" -> OnMisc("vmMap", misc.vmMap \cup {m})
         [] s.verb = "fill" -> OnMisc("vmMap", {x \in reg : ms[x].vm # "none"})
         [] s.verb = "findCluster" -> OnMisc("cluster", Scene.listed)
         [] s.verb = "newPool" -> OnMisc("perZone", s.val)
         [] s.verb = "addZone" -> res' = [res EXCEPT ![Pool].size = @ + misc.perZone] /\ UNCHANGED <<ms, reg, misc>>
         [] s.verb = "destroy" -> OnMachine(m, [vm |-> "none", os |-> "down"])
         [] s.verb = "detach" -> OnDisks(m, ms[m].disks \ {s.val})
         [] s.verb = "attach" -> OnDisks(m, ms[m].disks \cup {s.val})
         [] s.verb = "register" -> reg' = reg \cup {m} /\ UNCHANGED <<res, ms, misc>>
         [] s.verb = "deregister" -> reg' = reg \ {m} /\ UNCHANGED <<res, ms, misc>>
         [] s.verb = "refresh" -> reg' = Serving /\ UNCHANGED <<res, ms, misc>>
         [] s.verb = "channel" -> \* a patch that changes nothing has no new generation
               /\ misc' = [misc EXCEPT !.channel = s.val, !.gen = IF misc.channel = s.val THEN @ ELSE @ + 1]
               /\ UNCHANGED <<res, ms, reg>>
         [] s.verb = "set" -> OnMisc(s.key, s.flag)
         [] s.verb \in {"ack", "mcp", "ws"} -> OnMisc(s.verb, s.val)
         [] s.verb = "forget" -> OnMisc("vmMap", {})
         [] s.verb = "collect" -> OnMisc("coll", "waiting")
         [] s.verb = "mkdir" -> OnMisc("dir", TRUE)
         [] s.verb = "instances" -> OnMisc("inst", Live)
         [] s.verb = "known" -> OnMisc("known", res[Cp].v)
         [] s.verb \in {"run", "guest"} -> Ran(m, s.cmd)
         [] s.verb \in {"create context", "delete context"} -> OnMachine(m, [ctx |-> s.verb = "create context"])
         [] s.verb = "send" -> OnMachine(m, [cmd |-> s.cmd])
         [] OTHER -> UNCHANGED cloudVars

Request(c) ==
    /\ At(c, "req")
    /\ \/ ~Refused(c) /\ Served(c) /\ ProceedWith(c, [th[c].lk EXCEPT !.out = TRUE]) /\ UNCHANGED faults
       \/ ~Refused(c) /\ Served(c) /\ Fault /\ Failed(c)
       \/ Fault /\ Failed(c) /\ UNCHANGED cloudVars
       \/ Refused(c) /\ Failed(c) /\ UNCHANGED <<cloudVars, faults>>
Question(c, verdict) ==
    /\ \/ Verdict(c, verdict) /\ UNCHANGED faults
       \/ Fault /\ Failed(c)
    /\ UNCHANGED cloudVars

----------------------------------------------------------------------------
\* The platform by itself

\* How many machines the pool is to have.
Wanted == IF res[Pool].job.field = "size" /\ res[Pool].st = "busy" THEN res[Pool].job.val ELSE res[Pool].size
\* The version the platform rolls the machines to, in place.
Target ==
    CASE Scene.rolls = "cp" -> res[Cp].v
      [] Scene.rolls = "pool" /\ res[Pool].job.field = "v" /\ res[Pool].st = "busy" -> res[Pool].job.val
      [] OTHER -> 0
Done(r) ==
    LET job == res[r].job IN
    CASE r = Pool /\ job.field = "v" /\ Scene.rolls = "pool" -> \A m \in Live : ms[m].v = job.val
      [] r = Pool /\ job.field = "size" -> Cardinality(Live) = job.val /\ Live = Serving
      [] OTHER -> TRUE
Begins(r) == Busy(r) /\ res[r].st # "busy" /\ res' = [res EXCEPT ![r].st = "busy"] /\ UNCHANGED <<ms, reg, misc>>
Completes(r) ==
    /\ res[r].st = "busy" /\ Done(r)
    /\ res' = [res EXCEPT ![r] = [@ EXCEPT ![res[r].job.field] = res[r].job.val, !.st = "ready", !.job = NoJob]]
    /\ UNCHANGED <<ms, reg, misc>>
Breaks(r) ==
    /\ res[r].st = "busy" /\ Fault
    /\ res' = [res EXCEPT ![r].st = "failed", ![r].job = NoJob] /\ UNCHANGED <<ms, reg, misc>>

NewMachine ==
    [Machine(IF Scene.fresh = "cp" THEN res[Cp].v ELSE res[Pool].v, 1) EXCEPT !.st = "creating", !.drv = "none", !.booted = FALSE]
Appears == Cardinality(Kept) < Wanted /\ ms' = Append(ms, NewMachine) /\ UNCHANGED <<res, reg, misc>>
Leaves(m) == Cardinality(Kept) > Wanted /\ ms[m].st = "running" /\ OnMachine(m, [st |-> "leaving"])
Removed(m) ==
    /\ ms[m].st = "leaving"
    /\ OnMachine(m, IF ms[m].vm # "none" THEN [vm |-> "none", os |-> "down"] ELSE [st |-> "gone", drv |-> "none"])
Runs(m) == ms[m].st \in {"creating", "provisioned"} /\ ms[m].vm = "on" /\ OnMachine(m, [st |-> "running", booted |-> TRUE])
Rolls(m) == ms[m].st = "running" /\ Target > ms[m].v /\ OnMachine(m, [v |-> Target])
DriverMoves(m) ==
    /\ Scene.px /\ Ready(m) /\ ms[m].drv # "up"
    /\ OnMachine(m, [drv |-> IF ms[m].drv = "none" THEN "starting" ELSE "up"])
\* The identity of a storage node whose machine is gone goes to a machine that has none.
IdMoves(m, n) ==
    /\ Ready(m) /\ ms[m].drv # "none" /\ ms[m].id = 0 /\ ms[n].st = "gone" /\ ms[n].id # 0
    /\ \A x \in Live : ms[x].id # ms[n].id
    /\ OnMachine(m, [id |-> ms[n].id])
\* The operating system that was asked to reboot, or the machine that stopped, comes back.
Goes(m) == ms[m].os = "going" /\ OnMachine(m, [os |-> "down"])
Boots(m) ==
    /\ ms[m].os = "down" /\ ms[m].vm = "on"
    /\ OnMachine(m, [os |-> "up", net |-> FALSE, booted |-> TRUE, boots |-> ms[m].boots + 1])
CommandDone(m) ==
    /\ ms[m].cmd \in {"stop", "start", "uptime"}
    /\ OnMachine(m, [cmd |-> "Success", kubelet |-> IF ms[m].cmd = "uptime" THEN ms[m].kubelet ELSE ms[m].cmd = "start"])
Observed == misc.seen # misc.gen /\ OnMisc("seen", misc.gen)
\* The log collector of an Anthos upgrade goes back to its select.
Dumped == misc.coll = "dumping" /\ OnMisc("coll", "waiting")

MachineMoves(m) ==
    \/ Leaves(m) \/ Removed(m) \/ Runs(m) \/ Rolls(m) \/ DriverMoves(m) \/ Goes(m) \/ Boots(m) \/ CommandDone(m)
    \/ \E n \in DOMAIN ms : IdMoves(m, n)
Proceeding ==
    /\ \/ \E r \in DOMAIN res : Begins(r) \/ Completes(r)
       \/ \E m \in DOMAIN ms : MachineMoves(m)
       \/ Appears \/ Observed \/ Dumped
    /\ UNCHANGED <<scene, th, faults>>

\* A new virtual machine that vSphere does not power on.
Sticks(m) == Scene.vsphere /\ ms[m].st = "creating" /\ OnMachine(m, [st |-> "provisioned", vm |-> "off"])
\* The ticker of the log collector fires.
Ticks == misc.coll = "waiting" /\ misc.ticks < Scene.ticks
         /\ misc' = [misc EXCEPT !.coll = "dumping", !.ticks = @ + 1] /\ UNCHANGED <<res, ms, reg>>
Disturbing ==
    /\ \/ \E m \in DOMAIN ms : Sticks(m) /\ UNCHANGED faults
       \/ Ticks /\ UNCHANGED faults
       \/ \E r \in DOMAIN res : Breaks(r)
    /\ UNCHANGED <<scene, th>>
=============================================================================
