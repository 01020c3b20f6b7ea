------------------------------ MODULE Triggers ------------------------------
(***************************************************************************)
(* The triggers of the longevity test, run one after the other on a cluster,  *)
(* and the way of their event records: recordChan, the ring that the          *)
(* collector fills, and the email report (EventRing).  In other scenes the    *)
(* requests of the API server (Taas) run concurrently on the cluster.         *)
(***************************************************************************)
EXTENDS Taas, EventRing

triggerVars == <<scene, th, faults, nd, vol, ctxs, pkg, ev, sent>>
allVars == <<triggerVars, vars>>

NoLocals == [ch |-> "none", n |-> 0, seen |-> 0, rec |-> 0, rep |-> 0, exp |-> 0, init |-> <<>>, map |-> <<>>,
             to |-> "none", sel |-> <<>>, ctx |-> 0, at |-> "none", made |-> 0, failed |-> FALSE, req |-> <<>>]
\* What a request of the API server has written and done.
NewRequest == [code |-> 0, writes |-> 0, did |-> {}, fails |-> {}, panicked |-> FALSE]
NoEvent == [no |-> 0, op |-> "", errs |-> 0, noted |-> 0, raced |-> FALSE, failed |-> {}, panicked |-> FALSE, wg |-> 0,
            died |-> FALSE, ids |-> 0, err |-> FALSE, early |-> FALSE, outer |-> <<>>, over |-> TRUE, calm |-> TRUE,
            before |-> [skips |-> <<>>, vols |-> <<>>, extra |-> 0, sizes |-> <<>>, node |-> "none"]]

TriggersInit ==
    /\ Init
    /\ scene \in DOMAIN Scenes
    /\ th = [c \in Callers |-> IF c = Main THEN [Idle EXCEPT !.script = Scene.script]
                          ELSE [Idle EXCEPT !.script = Scene.calls[c]]]
    /\ faults = 0
    /\ nd = [n \in ToSet(Scene.nodes) |-> GoodNode]
    /\ vol = Scene.vols
    /\ ctxs = Scene.ctxs
    /\ pkg = Scene.pkg
    /\ ev = NoEvent
    /\ sent = 0

\* The disturbance of the triggers that raise the replication factor with one.
ErrorInjection == ("HAIncreaseAndReboot" :> "REBOOT") @@ ("HAIncreaseAndRestartPX" :> "PX_RESTART")
             @@ ("HAIncreaseAndCrashPX" :> "CRASH")

Body(op) ==
    CASE op = "CrashVolDriver" -> TriggerCrashVolDriver
      [] op = "CrashPXDaemon" -> TriggerCrashPXDaemon
      [] op = "KubeletRestart" -> TriggerKubeletRestart
      [] op = "RestartVolDriver" -> TriggerRestartVolDriver
      [] op = "NodeMaintenanceCycle" -> TriggerNodeMaintenanceCycle
      [] op = "PoolMaintenanceCycle" -> TriggerPoolMaintenanceCycle
      [] op = "RestartManyVolDriver" -> TriggerRestartManyVolDriver
      [] op = "RestartKvdbVolDriver" -> TriggerRestartKvdbVolDriver
      [] op = "RebootNodes" -> TriggerRebootNodes
      [] op = "CrashNodes" -> TriggerCrashNodes
      [] op = "RebootManyNodes" -> TriggerRebootManyNodes
      [] op = "PowerOffAllVMs" -> TriggerPowerOffAllVMs
      [] op = "KVDBFailover" -> TriggerKVDBFailover
      [] op = "AppTaskDown" -> TriggerAppTaskDown
      [] op = "AppTasksDown" -> TriggerAppTasksDown
      [] op = "ValidatePdsApps" -> TriggerValidatePdsApps
      [] op = "HAIncrease" -> TriggerHAIncrease
      [] op = "HADecrease" -> TriggerHADecrease
      [] op = "HAIncreaseWithPVCResize" -> TriggerHAIncreasWithPVCResize
      [] op \in DOMAIN ErrorInjection -> haIncreaseWithErrorInjection
      [] op = "DeployApps" -> TriggerDeployNewApps
      [] op = "VolumeCreatePxRestart" -> TriggerVolumeCreatePXRestart
      [] op = "VolumeClone" -> TriggerVolumeClone
      [] op = "VolumeResize" -> TriggerVolumeResize
      [] op = "VolumesDelete" -> TriggerVolumeDelete
      [] op = "UpdateIOProfile" -> TriggerVolumeIOProfileUpdate
      [] op = "UpdateVolume" -> TriggerVolumeUpdate
      [] op = "Trashcan" -> TriggerTrashcan
      [] op = "RelaxedReclaim" -> TriggerRelaxedReclaim
      [] op = "AutoFsTrim" -> TriggerAutoFsTrim
      [] op = "MetadataPoolResizeDisk" -> TriggerMetadataPoolResizeDisk
      [] op = "PoolAddDisk" -> TriggerPoolAddDisk
      [] op = "ResizeDiskAndReboot" -> TriggerPoolResizeDiskAndReboot
      [] op = "AddDiskAndReboot" -> TriggerPoolAddDiskAndReboot
      [] op = "NodeDecommission" -> TriggerNodeDecommission
      [] op = "NodeRejoin" -> TriggerNodeRejoin

----------------------------------------------------------------------------
\* A trigger begins, and ends by sending its record

Program(op) == Fn("trigger", Body(op)) \o Record
Fresh(op) ==
    [NoEvent EXCEPT !.no = ev.no + 1, !.op = op, !.calm = AllServe, !.over = FALSE,
       !.before = [skips |-> [k \in DOMAIN ctxs |-> ctxs[k].skip], vols |-> vol, extra |-> pkg.extra,
                   sizes |-> [n \in Nodes |-> nd[n].size], node |-> pkg.decommissionedNode]]

Begins(c) ==
    /\ c = Main /\ ~Scene.api
    /\ Begin(c, Program(Call(c)), [NoLocals EXCEPT !.rec = ev.no + 1])
    /\ ev' = Fresh(Call(c))
    /\ UNCHANGED <<scene, faults, clusterVars, sent>>

\* A request of the API server, and its end.
Answers(c) ==
    /\ \/ Scene.api /\ Begin(c, Handler(Call(c)), [NoLocals EXCEPT !.rec = -1, !.req = NewRequest]) /\ UNCHANGED pkg
       \/ /\ At(c, "reply") /\ UNCHANGED pkg
          /\ ProceedWith(c, [th[c].lk EXCEPT !.req.writes = @ + 1, !.req.code = IF @ = 0 THEN Step(c).code ELSE @])
       \/ At(c, "did") /\ ProceedWith(c, [th[c].lk EXCEPT !.req.did = @ \cup {Step(c).n}]) /\ UNCHANGED pkg
       \/ At(c, "register") /\ Proceed(c) /\ pkg' = [pkg EXCEPT !.reg = @ \cup {Step(c).n}]
       \/ At(c, "gather") /\ Local(c, "ch") = "closed" /\ Proceed(c) /\ UNCHANGED pkg
       \/ At(c, "served") /\ Proceed(c) /\ UNCHANGED pkg
    /\ UNCHANGED <<scene, faults, nd, vol, ctxs, ev, sent>>

\* A trigger that calls another one has a record of its own, which it sends later.
Nests(c) ==
    /\ At(c, "nest")
    /\ Become(c, [NoLocals EXCEPT !.rec = ev.no + 1], Program(Step(c).op))
    /\ ev' = [Fresh(Step(c).op) EXCEPT !.outer = <<ev>>]
    /\ UNCHANGED <<scene, faults, clusterVars, sent>>

Records(c) ==
    /\ At(c, "record")
    /\ sent' = sent + 1
    /\ IF ev.outer = <<>> THEN ev' = [ev EXCEPT !.over = TRUE] /\ Proceed(c)
       ELSE ev' = [Head(ev.outer) EXCEPT !.no = ev.no + 1] /\ ProceedWith(c, [th[c].lk EXCEPT !.rec = ev.no + 1])
    /\ UNCHANGED <<scene, faults, clusterVars>>

----------------------------------------------------------------------------
\* Requests, waits and questions

Mine(c) == Local(c, "rec") = ev.no
Answer(c, ok) ==
    /\ Become(c, IF ok \/ ~Scene.api THEN th[c].lk ELSE [th[c].lk EXCEPT !.req.fails = @ \cup {Step(c).op}],
              IF ok THEN Step(c).ok ELSE Step(c).bad)
    /\ ev' = IF ok \/ ~Mine(c) THEN ev ELSE [ev EXCEPT !.failed = @ \cup {Step(c).op}]

Requests(c) ==
    /\ At(c, "node")
    /\ LET n == Step(c).n
           refused == Refused(Step(c).op, n)
           done == nd' = [nd EXCEPT ![n] = After(Step(c).op, @)]
       IN \/ ~refused /\ done /\ Answer(c, TRUE) /\ UNCHANGED faults
          \/ refused /\ UNCHANGED nd /\ Answer(c, FALSE) /\ UNCHANGED faults
          \/ ~refused /\ done /\ Answer(c, FALSE) /\ Fault
          \/ UNCHANGED nd /\ Answer(c, FALSE) /\ Fault
    /\ UNCHANGED <<scene, vol, ctxs, pkg, sent>>

Waits(c) ==
    /\ At(c, "wait")
    /\ LET holds == Holds(Step(c).op, Step(c).n) IN
       \/ holds /\ Answer(c, TRUE) /\ UNCHANGED faults
       \/ ~holds /\ ~Pending(Step(c).op, Step(c).n) /\ Answer(c, FALSE) /\ UNCHANGED faults
       \/ Answer(c, FALSE) /\ Fault
    /\ UNCHANGED <<scene, clusterVars, sent>>

Looks(c) ==
    /\ At(c, "look")
    /\ \/ Answer(c, Holds(Step(c).op, Step(c).n)) /\ UNCHANGED faults
       \/ Answer(c, FALSE) /\ Fault
    /\ UNCHANGED <<scene, clusterVars, sent>>

Asks(c) ==
    /\ At(c, "ask")
    /\ \/ Answer(c, TRUE) /\ UNCHANGED faults
       \/ Answer(c, FALSE) /\ Fault
    /\ UNCHANGED <<scene, clusterVars, sent>>

\* An application may suffer from a node that does not serve.
Checks(c) ==
    /\ At(c, "app")
    /\ \/ Answer(c, TRUE) /\ UNCHANGED faults
       \/ ~AllServe /\ Answer(c, FALSE) /\ UNCHANGED faults
       \/ AllServe /\ Answer(c, FALSE) /\ Fault
    /\ UNCHANGED <<scene, clusterVars, sent>>

\* ScaleApplication to zero, or to the scale that the scheduler has.
Scales(c) ==
    /\ At(c, "scale")
    /\ LET k == Step(c).k IN
       \/ /\ ctxs' = [ctxs EXCEPT ![k].scale = IF Step(c).to = "zero" THEN 0 ELSE @]
          /\ Become(c, th[c].lk, Step(c).ok) /\ UNCHANGED faults
       \/ UNCHANGED ctxs /\ Become(c, th[c].lk, Step(c).bad) /\ Fault
    /\ UNCHANGED <<scene, nd, vol, pkg, ev, sent>>

----------------------------------------------------------------------------
\* The volumes

\* The factor may be the wanted one or the one that is reached.
Factors(v) == {vol[v].want, Cardinality(vol[v].on)}
Served(v) == \E n \in vol[v].on : Runs(n)

Reads(c) ==
    /\ At(c, "vol")
    /\ LET s == Step(c)
           l == th[c].lk
       IN \/ /\ s.op = "GetReplicationFactor"
             /\ \/ Served(s.v) /\ UNCHANGED <<ev, faults>> /\ \E f \in Factors(s.v) : Become(c, [l EXCEPT !.rep = f], s.ok)
                \/ /\ (~Served(s.v) /\ UNCHANGED faults) \/ Fault
                   /\ Become(c, [l EXCEPT !.rep = 0], s.bad) /\ ev' = [ev EXCEPT !.failed = @ \cup {s.op}]
          \/ /\ s.op = "GetVolumeReplicationStatus"
             /\ \/ Answer(c, Served(s.v) /\ nd[Head(StorageNodes)].os = "up") /\ UNCHANGED faults
                \/ Answer(c, FALSE) /\ Fault
          \/ /\ s.op = "GetNodeForVolume"
             /\ \/ /\ UNCHANGED <<ev, faults>>
                   /\ \E n \in vol[s.v].on : Runs(n) /\ Become(c, [l EXCEPT !.at = n], s.ok)
                \/ ~Served(s.v) /\ ~(\E n \in vol[s.v].on : Returns(n)) /\ Answer(c, FALSE) /\ UNCHANGED faults
                \/ Answer(c, FALSE) /\ Fault
          \/ /\ s.op \in {"WaitForReplicationToComplete", "ValidateReplFactorUpdate"}
             /\ LET factor == IF s.op = "ValidateReplFactorUpdate" THEN l.exp ELSE l.rep + s.d IN
                \/ Replicated(s.v, factor) /\ Answer(c, TRUE) /\ UNCHANGED faults
                \/ ~Replicated(s.v, factor) /\ ~Replicating(s.v, factor) /\ Answer(c, FALSE) /\ UNCHANGED faults
                \/ Answer(c, FALSE) /\ Fault
    /\ UNCHANGED <<scene, clusterVars, sent>>

SetPriority(v) ==
    CASE pkg.setIoPriority -> vol[v].label
      [] vol[v].label = "low" -> "high"
      [] OTHER -> "low"
Updates(c) ==
    /\ At(c, "vol")
    /\ LET s == Step(c)
           l == th[c].lk
           taken == IF s.op = "SetReplicationFactor" THEN Updatable(s.v, l.rep + s.d, s.n) ELSE Served(s.v)
           done == vol' = CASE s.op = "SetReplicationFactor" -> [vol EXCEPT ![s.v].want = l.rep + s.d, ![s.v].to = s.n]
                            [] s.op = "UpdateIOProfile" -> [vol EXCEPT ![s.v].profile = l.to]
                            [] s.op = "UpdateIOPriority" -> [vol EXCEPT ![s.v].cos = SetPriority(s.v)]
       IN /\ s.op \in {"SetReplicationFactor", "UpdateIOProfile", "UpdateIOPriority"}
          /\ \/ taken /\ done /\ Answer(c, TRUE) /\ UNCHANGED faults
             \/ ~taken /\ UNCHANGED vol /\ Answer(c, FALSE) /\ UNCHANGED faults
             \/ taken /\ done /\ Answer(c, FALSE) /\ Fault
             \/ UNCHANGED vol /\ Answer(c, FALSE) /\ Fault
    /\ UNCHANGED <<scene, nd, ctxs, pkg, sent>>

\* Volumes that do not belong to an application.
Growth(op) ==
    CASE op \in {"CreateVolume", "CloneVolume", "RestoreFromTrashcan"} -> 1
      [] op = "DeleteVolume" -> -1
      [] OTHER -> 0
Extras(c) ==
    /\ At(c, "extra")
    /\ LET s == Step(c)
           done == pkg' = [pkg EXCEPT !.extra = @ + Growth(s.op)]
       IN \/ /\ done /\ UNCHANGED <<ev, faults>>
             /\ Become(c, [th[c].lk EXCEPT !.made = @ + (IF s.op = "AttachVolume" THEN 1 ELSE 0)], s.ok)
          \/ Answer(c, FALSE) /\ Fault /\ UNCHANGED pkg
    /\ UNCHANGED <<scene, nd, vol, ctxs, sent>>

\* DeleteVolumes, Schedule, the option of the cluster, and UpdateSnapshotSchedule.
Applies(c) ==
    /\ LET s == Step(c) IN
       \/ /\ At(c, "delete") /\ UNCHANGED <<ctxs, pkg>>
          /\ \/ /\ vol' = [v \in DOMAIN vol \ ToSet(Volumes(s.k)) |-> vol[v]]
                /\ Answer(c, TRUE) /\ UNCHANGED faults
             \/ UNCHANGED vol /\ Answer(c, FALSE) /\ Fault
       \/ /\ At(c, "deploy") /\ UNCHANGED <<pkg, ev, faults>>
          /\ ctxs' = Append(ctxs, Scene.fresh.app) /\ vol' = Scene.fresh.vols @@ vol
          /\ Proceed(c)
       \/ /\ At(c, "option") /\ UNCHANGED <<ctxs, vol>>
          /\ \/ pkg' = [pkg EXCEPT !.opts = @ \cup {s.x}] /\ Answer(c, TRUE) /\ UNCHANGED faults
             \/ UNCHANGED pkg /\ Answer(c, FALSE) /\ Fault
       \/ /\ At(c, "suspend") /\ UNCHANGED <<ctxs, vol>>
          /\ \/ pkg' = [pkg EXCEPT !.suspended = @ \cup {s.v}] /\ Answer(c, TRUE) /\ UNCHANGED faults
             \/ UNCHANGED pkg /\ Answer(c, FALSE) /\ Fault
    /\ UNCHANGED <<scene, nd, sent>>

----------------------------------------------------------------------------
\* UpdateOutcome, the error channel, and panics

EndOf(todo, f) == SelectInSeq(todo, LAMBDA s : s.do = "end" /\ s.f = f)
\* The deferred steps that are run when a function is left: those that come later and
\* close a channel belong to calls that are not made.
Deferred(c, steps) ==
    LET close == SelectInSeq(steps, LAMBDA s : s.do = "close")
        kept == [j \in DOMAIN steps |->
                   /\ "deferred" \in DOMAIN steps[j]
                   /\ steps[j].do = "close" => j = close /\ Local(c, "ch") = "open"]
    IN FlattenSeq([j \in DOMAIN steps |-> IF kept[j] THEN <<steps[j]>> ELSE <<>>])
\* The deferred steps up to the end of f are run, then what follows f.
Left(c, todo, f) ==
    LET last == EndOf(todo, f) IN Deferred(c, SubSeq(todo, 1, last - 1)) \o SubSeq(todo, last + 1, Len(todo))
\* The panic of a trigger ends at its GinkgoRecover, after the record was sent; that of a
\* request in the router, which answers it.
Panicked(c) ==
    IF Scene.api
    THEN /\ th' = [th EXCEPT ![c].todo = Deferred(c, Tail(@)), ![c].lk.req.panicked = TRUE,
                             ![c].lk.req.code = IF @ = 0 THEN 500 ELSE @]
         /\ UNCHANGED ev
    ELSE /\ th' = [th EXCEPT ![c].todo = Deferred(c, Tail(@))]
         /\ ev' = [ev EXCEPT !.panicked = TRUE]

Notes(c) ==
    /\ \/ /\ At(c, "load")
          /\ ProceedWith(c, [th[c].lk EXCEPT !.seen = ev.errs])
          /\ ev' = IF Mine(c) THEN [ev EXCEPT !.noted = @ + 1] ELSE ev
       \/ /\ At(c, "append")
          /\ Proceed(c)
          /\ ev' = IF Mine(c) THEN [ev EXCEPT !.errs = Local(c, "seen") + 1, !.raced = @ \/ ev.errs # Local(c, "seen")]
                   ELSE ev
    /\ UNCHANGED <<scene, faults, clusterVars, sent>>

Channel(c) ==
    /\ LET l == th[c].lk IN
       \/ At(c, "make") /\ ProceedWith(c, [l EXCEPT !.ch = "open", !.n = 0]) /\ UNCHANGED ev
       \/ At(c, "send") /\ l.ch = "open" /\ l.n < ErrorChannelSize /\ ProceedWith(c, [l EXCEPT !.n = @ + 1]) /\ UNCHANGED ev
       \/ At(c, "close") /\ l.ch = "open" /\ ProceedWith(c, [l EXCEPT !.ch = "closed"]) /\ UNCHANGED ev
       \/ At(c, "range") /\ l.n > 0 /\ Become(c, [l EXCEPT !.n = @ - 1], Note \o Drain) /\ UNCHANGED ev
       \/ At(c, "range") /\ l.n = 0 /\ l.ch = "closed" /\ Proceed(c) /\ UNCHANGED ev
       \/ At(c, "discard") /\ l.ch = "closed" /\ ProceedWith(c, [l EXCEPT !.n = 0]) /\ UNCHANGED ev
       \/ At(c, "panic") /\ Panicked(c)
       \/ (At(c, "send") \/ At(c, "close")) /\ l.ch = "closed" /\ Panicked(c)
    /\ UNCHANGED <<scene, faults, clusterVars, sent>>

----------------------------------------------------------------------------
\* Control of a trigger

Test(q, x, l) ==
    CASE q = "single" -> Cardinality(vol[x].on) = 1
      [] q = "up" -> Settled(x) /\ \A n \in vol[x].on : Runs(n)
      [] q = "raise" -> l.rep + 1 <= 3 /\ l.rep + 1 <= Len(StorageNodes)
      [] q = "lower" -> l.rep - 1 >= 1
      [] q = "max" -> l.rep = 3
      [] q = "above" -> l.rep > l.init[x]
      [] q = "failed" -> ev.err
      [] q = "unlike" -> vol[x].profile # l.to
      [] q = "reprofile" -> vol[x].profile # l.to /\ ~(vol[x].want = 1 /\ l.to = "db_remote")
      [] q = "reprioritize" -> vol[x].label # "none" /\ SetPriority(x) # vol[x].cos
      [] q = "flag" -> x \in pkg.flags
      [] q = "trash" -> pkg.trash > 0
      [] q = "operated" -> nd[x].grow # "none" \/ nd[x].size > 0
      [] q = "growFailed" -> nd[x].grow = "failed"
      [] q = "decommissioned" -> pkg.decommissionedNode # "none"
      [] q = "flagged" -> x \in pkg.api
      [] q = "registered" -> x \in pkg.reg
      [] q = "installed" -> x \notin Scene.bare
      [] q = "errors" -> l.n > 0

Kept(x, v, l) ==
    CASE x = "nothing" -> [l EXCEPT !.exp = 0]
      [] x = "exp" -> [l EXCEPT !.exp = l.rep]
      [] x = "count" -> [l EXCEPT !.rep = Cardinality(vol[v].on)]
      [] x = "init" -> [l EXCEPT !.init = (v :> l.rep) @@ l.init]
      [] x = "noMap" -> [l EXCEPT !.map = <<>>]
      [] x = "map" -> [l EXCEPT !.map = (v :> vol[v].profile) @@ l.map]
      [] x = "new" -> [l EXCEPT !.to = IOProfileChange[pkg.counter + 1]]
      [] x = "old" -> [l EXCEPT !.to = l.map[v]]

Expansion(what, x, l) ==
    CASE what = "reboot" -> For(l.sel, RebootSelected)
      [] what = "wait" -> For(l.sel, AwaitSelected)
      [] what = "resized" -> For(l.sel, LAMBDA v : Noted(Check("ValidateUpdateVolume")))
      [] what = "inject" -> IF l.ctx = 0 THEN <<>> ELSE EachVolume(l.ctx, Inject) \o Expand("revert")
      [] what = "revert" -> For(SetToSeq(DOMAIN l.init), Revert)
      [] what = "sources" -> OnSources(x, SetToSeq(vol[x].on), ToSet(l.sel), ErrorInjection[ev.op])
      [] what = "deployed" -> Deployed
      [] what = "created" ->
           For([j \in 1..ev.ids |-> j], LAMBDA j : Noted(Ask("InspectVolume")))
           \o For([j \in 1..ev.ids |-> j], LAMBDA j : Unless(Extra("DetachVolume"), Noted(Extra("DeleteVolume"))))
      [] what = "profiles" -> For(SetToSeq(DOMAIN l.map), updateIOProfile)
      [] what = "oldProfiles" -> For(SetToSeq(DOMAIN l.map), revertIOProfile)
      [] what = "attached" -> RebootAttached(x, l.at)
      [] what = "suspended" -> Suspensions(x)
      [] what = "moved" -> Moves(x)
      [] what = "rejoin" -> Rejoin(pkg.decommissionedNode)
      [] what = "rebootAll" -> For(SetToSeq(pkg.reg), RebootOne)
      [] what = "devices" -> For(SetToSeq(pkg.reg), LAMBDA n : Or(Ask("GetStorageDevices"), 400))
      [] what = "diags" -> For(SetToSeq(pkg.reg), LAMBDA n : Logged(Ask("CollectDiags")) \o Logged(Ask("RunCommand")))
      [] what = "installed" -> For(SetToSeq(pkg.reg), Installed)
      [] what = "validate" -> For([j \in 1..Scene.list |-> Len(ctxs) - Scene.list + j], LAMBDA k : ValidateContext(k) \o Close)
\* The map of the healthy nodes is read in any order, and the last one is the target.
Targets(c, v) ==
    LET nodes == ToSet(th[c].lk.sel) \ vol[v].on IN
    \/ nodes = {} /\ Become(c, th[c].lk, Note)
    \/ \E n \in nodes : Become(c, th[c].lk, For(SetToSeq(nodes), LAMBDA m : Pools) \o OnTarget(v, n, ErrorInjection[ev.op]))

\* A node or a pool at random.
AtRandom == {"target", "decommission", "resizePool", "addDisk", "rebootRandom"}
Random(c, what) ==
    \/ what = "decommission" /\ \E n \in Members : Become(c, th[c].lk, Decommission(n))
    \/ what = "resizePool" /\ \E n \in Members : Become(c, th[c].lk, ResizeAndReboot(n))
    \/ what = "addDisk" /\ \E n \in Members : Become(c, th[c].lk, AddAndReboot(n))
    \/ what = "rebootRandom" /\ \E n \in pkg.reg : Become(c, th[c].lk, RebootOne(n))
\* The first storage node of the shuffled list without a replica, if there is one.
MovesTo(c, v, from) ==
    LET nodes == Members \ vol[v].on IN
    \E n \in (IF nodes = {} THEN {""} ELSE nodes) : Become(c, th[c].lk, MoveReplica(v, from, n))

Controls(c) ==
    /\ LET s == Step(c)
           l == th[c].lk
       IN \/ At(c, "if") /\ Become(c, l, IF Test(s.q, s.n, l) THEN s.yes ELSE s.no)
          \/ At(c, "while") /\ Become(c, l, IF Test(s.q, s.n, l) THEN s.body \o <<s>> ELSE <<>>)
          \/ At(c, "unless") /\ Become(c, l, IF ctxs[s.k].skip THEN <<>> ELSE s.no)
          \/ At(c, "end") /\ Proceed(c)
          \/ At(c, "return") /\ th' = [th EXCEPT ![c].todo = Left(c, Tail(@), s.f)]
          \/ /\ At(c, "defer")
             /\ th' = [th EXCEPT ![c].todo =
                         LET rest == Tail(@)
                             last == EndOf(rest, s.f)
                         IN SubSeq(rest, 1, last - 1) \o s.body \o SubSeq(rest, last, Len(rest))]
          \/ At(c, "select") /\ ProceedWith(c, [l EXCEPT !.sel = Append(@, s.n)])
          \/ At(c, "choose") /\ ProceedWith(c, [l EXCEPT !.ctx = s.k])
          \/ At(c, "keep") /\ ProceedWith(c, Kept(s.x, s.v, l))
          \/ At(c, "expand") /\ s.what = "target" /\ Targets(c, s.arg)
          \/ At(c, "expand") /\ Random(c, s.what)
          \/ At(c, "move") /\ MovesTo(c, s.v, s.n)
          \/ /\ At(c, "expand") /\ s.what \notin AtRandom
             /\ Become(c, IF s.what = "resized" THEN [l EXCEPT !.sel = <<>>] ELSE l, Expansion(s.what, s.arg, l))
    /\ UNCHANGED <<scene, faults, clusterVars, ev, sent>>

ApiFlags == {"parsed", "drivers", "IsTorpedoInitDone"}
\* The variables of the trigger and of the package.
Assigns(c) ==
    /\ LET s == Step(c)
           l == th[c].lk
       IN \/ At(c, "skip") /\ ctxs' = [ctxs EXCEPT ![s.k].skip = s.flag] /\ Proceed(c) /\ UNCHANGED <<pkg, ev>>
          \/ /\ At(c, "store") /\ Proceed(c) /\ UNCHANGED <<ctxs, pkg>>
             /\ ev' = IF Mine(c) THEN [ev EXCEPT !.ids = l.made, !.err = l.failed] ELSE ev
          \/ /\ At(c, "assign")
             /\ \/ s.x = "failed" /\ ProceedWith(c, [l EXCEPT !.failed = s.b]) /\ UNCHANGED <<ctxs, pkg, ev>>
                \/ s.x = "err" /\ Proceed(c) /\ ev' = [ev EXCEPT !.err = s.b] /\ UNCHANGED <<ctxs, pkg>>
                \/ s.x = "contexts" /\ Proceed(c) /\ ctxs' = <<>> /\ UNCHANGED <<pkg, ev>>
                \/ /\ s.x = "counter" /\ Proceed(c) /\ UNCHANGED <<ctxs, ev>>
                   /\ pkg' = [pkg EXCEPT !.counter = IF @ + 1 >= Len(IOProfileChange) THEN 0 ELSE @ + 1]
                \/ /\ s.x = "setIoPriority" /\ Proceed(c) /\ UNCHANGED <<ctxs, ev>>
                   /\ pkg' = [pkg EXCEPT !.setIoPriority = ~@]
                \/ /\ s.x \in ApiFlags
                   /\ Proceed(c) /\ pkg' = [pkg EXCEPT !.api = @ \cup {s.x}] /\ UNCHANGED <<ctxs, ev>>
                \/ /\ s.x \notin {"failed", "err", "contexts", "counter", "setIoPriority"} \cup ApiFlags
                   /\ Proceed(c) /\ pkg' = [pkg EXCEPT !.flags = @ \cup {s.x}] /\ UNCHANGED <<ctxs, ev>>
          \/ /\ At(c, "decommissioned") /\ Proceed(c) /\ UNCHANGED <<ctxs, ev>>
             /\ pkg' = [pkg EXCEPT !.decommissionedNode = s.n]
    /\ UNCHANGED <<scene, faults, nd, vol, sent>>

\* The goroutines of the trigger and its wait group.
Forks(c) ==
    /\ \/ At(c, "add") /\ ev' = [ev EXCEPT !.wg = @ + 1] /\ Proceed(c)
       \/ /\ At(c, "go") /\ UNCHANGED ev
          /\ LET free == {g \in ToSet(Kids) : th[g].todo = <<>>}
                 g == CHOOSE g \in free : TRUE
                 rest == Tail(th[c].todo)
             IN free # {} /\ th' = [th EXCEPT ![c].todo = rest,
                      ![g] = [Idle EXCEPT !.script = <<"go">>, !.todo = Step(c).body,
                                          !.lk = [NoLocals EXCEPT !.rec = ev.no]]]
       \/ At(c, "done") /\ ev.wg > 0 /\ ev' = [ev EXCEPT !.wg = @ - 1] /\ Proceed(c)
       \/ /\ At(c, "done") /\ ev.wg = 0   \* a negative counter ends the process
          /\ th' = [g \in Callers |-> Idle] /\ ev' = [ev EXCEPT !.over = TRUE, !.died = TRUE]
       \/ /\ At(c, "join") /\ ev.wg = 0 /\ Proceed(c)
          /\ ev' = [ev EXCEPT !.early = \E g \in ToSet(Kids) : \E j \in DOMAIN th[g].todo : th[g].todo[j].do = "store"]
    /\ UNCHANGED <<scene, faults, clusterVars, sent>>

Thread(c) ==
    /\ \/ Begins(c) \/ Answers(c) \/ Records(c) \/ Requests(c) \/ Waits(c) \/ Looks(c) \/ Asks(c) \/ Checks(c)
       \/ Scales(c) \/ Reads(c) \/ Updates(c) \/ Extras(c) \/ Applies(c) \/ Nests(c)
       \/ Notes(c) \/ Channel(c) \/ Controls(c) \/ Assigns(c) \/ Forks(c)
    /\ UNCHANGED vars
Settles(n) == (Boots(n) \/ Starts(n) \/ Joins(n) \/ Grows(n) \/ KubeletReturns(n) \/ KvdbMoves(n)) /\ UNCHANGED vars

\* The collector receives the records that were sent.
Ring ==
    /\ Scene.ring
    /\ RingNext
    /\ collected' <= sent
    /\ UNCHANGED triggerVars

Resync(v) == v \in DOMAIN vol /\ Resyncs(v) /\ UNCHANGED vars

TriggersNext == (\E c \in Callers : Thread(c)) \/ (\E n \in Nodes : Settles(n)) \/ (\E v \in DOMAIN vol : Resync(v)) \/ Ring

\* The Go scheduler and the cluster do not stop while one of them can go on.
TriggersSpec == TriggersInit /\ [][TriggersNext]_allVars /\ WF_allVars(TriggersNext)

----------------------------------------------------------------------------
\* What the triggers are relied on for

\* The type invariant of the triggers and of the ring.
TriggersTypeOK ==
    /\ TypeOK /\ CallsTyped
    /\ \A n \in Nodes : nd[n].os \in {"up", "boot", "off"} /\ nd[n].px \in {"up", "start", "down"}
                       /\ nd[n].grow \in {"none", "pending", "failed"}
    /\ pkg.decommissionedNode \in Nodes \cup {"none"} /\ pkg.reg \subseteq Nodes
    /\ \A v \in DOMAIN vol : vol[v].on \subseteq Nodes /\ vol[v].want \in 1..3
    /\ \A c \in Callers : th[c].todo # <<>> => Local(c, "n") \in 0..ErrorChannelSize
    /\ pkg.counter \in 0..Len(IOProfileChange) - 1 /\ pkg.kvdb \subseteq Nodes
    /\ ev.wg \in 0..Len(Kids) /\ collected <= sent

\* The trigger is about to send its record, which reports no error.
AtRecord == At(Main, "record")
Clean == AtRecord /\ ev.errs = 0 /\ ~ev.panicked

\* These triggers do not wait for the nodes they disturb, or drop the errors of it.
Unwaited == {"AutoFsTrim", "VolumeCreatePxRestart"}

\* TriggerNodeRejoin waits only for a node that it finds in the registry.
Unfound == ev.op = "NodeRejoin" /\ "GetStorageDriverNodes" \in ev.failed

\* A trigger that found every node serving and reports no error leaves every node
\* serving: whatever failed or is still under way after the node triggers (a driver
\* that is down, a node that boots, a pool in maintenance, a node out of scheduling) has
\* been noted in the record.
CleanMeansRecovered == (Clean /\ ev.calm /\ ev.op \notin Unwaited /\ ~Unfound) => AllServe

\* The errors that the code itself only logs, overwrites or does not read.
DroppedErrors(op) ==
    {"GetPodsRestartCount", "GetScaleFactorMap"} \cup
    CASE op = "PowerOffAllVMs" -> {"Ready"}
      [] op = "KVDBFailover" -> {"GetContextsOnNode", "KvdbHealthy"}
      [] op = "AppTasksDown" -> {"GetVolumes", "GetVolumeParameters", "ValidateVolumes", "ValidateCreateVolume",
                                 "ValidateVolumeSetup", "WaitForRunning"}
      [] op \in DOMAIN ErrorInjection -> {"StopDriver", "StartDriver", "RebootNode", "CrashDriver", "DriverUp",
                                         "WaitForReplicationToComplete"}
      [] op = "DeployApps" -> {"UpdateVolumeSpec"}
      [] op = "VolumesDelete" -> {"GetPXPureSecret"}
      [] op = "VolumeCreatePxRestart" -> {"CreateVolume", "AttachVolume", "RestartDriver"}
      [] op = "RelaxedReclaim" -> {"GetNodeStats"}
      [] op \in {"ResizeDiskAndReboot", "AddDiskAndReboot"} -> {"RebootNode", "Connection", "DriverDown", "Ready"}
      [] op = "NodeDecommission" -> {"GetContextsOnNode", "GetPxctlCmdOutput"}
      [] op = "NodeRejoin" -> {"GetStorageDriverNodes"}
      [] op = "AutoFsTrim" -> {"GetVolumes", "StopDriver", "RebootNode", "GetNodeForVolume", "StartDriver", "DriverUp",
                               "Uncordon"}
      [] OTHER -> {}

\* Every other error of a driver, a wait or a validation, in the trigger, in a helper
\* that sends it on its channel or in a goroutine, makes the record report an error.
ErrorsReported == Clean => ev.failed \subseteq DroppedErrors(ev.op)

\* UpdateOutcome appends to a slice that the goroutines of a trigger share without a
\* lock: errors may overwrite each other, but an outcome with an error never becomes
\* one without, and no error is lost where no two goroutines are in it at once.
\* (A goroutine of TriggerVolumeCreatePXRestart may be in it when the record is sent.)
OutcomeKept ==
    (AtRecord /\ ev.op # "VolumeCreatePxRestart") => (ev.noted > 0 => ev.errs > 0) /\ (ev.errs = ev.noted \/ ev.raced)

\* A record does not change after it was sent: the goroutines of a trigger have ended
\* by then.  (TriggerVolumeCreatePXRestart notes an error after wg.Done.)
RecordFinal ==
    [][(ev.over /\ ev'.no = ev.no /\ ev.op # "VolumeCreatePxRestart") => ev'.errs = ev.errs]_allVars

\* SkipVolumeValidation does not outlive the trigger that set it.  (TriggerAppTasksDown
\* resets another field; ValidateContext sets it for the excluded applications.)
FlagsRestored ==
    (AtRecord /\ ~ev.panicked /\ ev.op # "AppTasksDown") =>
        \A k \in DOMAIN ctxs : ctxs[k].skip => ctxs[k].excluded \/ (k \in DOMAIN ev.before.skips /\ ev.before.skips[k])

\* No helper sends on an error channel that it or another helper has closed, and
\* none closes it twice: either would end the goroutine with a panic.  (The API server
\* does both when it validates a second application.)
ChannelProtocol == ~Scene.api => \A c \in Callers : At(c, "send") \/ At(c, "close") => Local(c, "ch") = "open"

\* A flag of the package says that the cluster has the option it stands for.
FlagsTrue == pkg.flags \subseteq pkg.opts

Least(a, b) == IF a < b THEN a ELSE b
Promised(op, v) ==
    LET was == ev.before.vols[v].want IN
    CASE op = "HAIncrease" -> Least(Least(was + 1, 3), Len(StorageNodes))
      [] op = "HADecrease" -> IF was > 1 THEN was - 1 ELSE was
      [] OTHER -> was
FactorTriggers == {"HAIncrease", "HADecrease", "NodeDecommission", "HAIncreaseWithPVCResize"} \cup DOMAIN ErrorInjection
WasSettled == \A v \in DOMAIN ev.before.vols : ev.before.vols[v].want = Cardinality(ev.before.vols[v].on)

\* A trigger that began with nodes that serve and volumes without an update, and reports
\* no error, has left the volumes as it should: with one replica more or less, with as
\* many as before when it lowers and raises the factor (whatever it disturbs meanwhile),
\* with the I/O profile they had, and without the volumes it made itself, unless the
\* goroutine that makes them was still to store their names.
VolumesAsPromised ==
    /\ Clean /\ ev.calm /\ WasSettled /\ ev.op \in FactorTriggers =>
         \A v \in DOMAIN ev.before.vols : vol[v].want = Promised(ev.op, v) /\ Settled(v)
    /\ Clean /\ ev.op = "UpdateIOProfile" => \A v \in DOMAIN vol : vol[v].profile = ev.before.vols[v].profile
    /\ Clean /\ ev.failed = {} /\ ev.op \in {"VolumeClone", "VolumeCreatePxRestart"} =>
         pkg.extra = ev.before.extra \/ ev.early

ExpansionTriggers == {"MetadataPoolResizeDisk", "PoolAddDisk", "ResizeDiskAndReboot", "AddDiskAndReboot"}
Grown(n) == nd[n].size > ev.before.sizes[n] /\ nd[n].grow = "none"
\* A trigger that expands pools and reports no error has seen the expansions through: the
\* pools have grown and no expansion goes on, whatever the reboot of the node, or an
\* expansion that an earlier trigger left behind, did meanwhile.
PoolsGrown ==
    Clean /\ ev.op \in ExpansionTriggers =>
        IF ev.op \in {"MetadataPoolResizeDisk", "PoolAddDisk"} THEN \A n \in Members : Grown(n) ELSE \E n \in Members : Grown(n)

\* A clean decommission leaves a node that is no member and has no replica, and that the
\* next NodeRejoin will find; a clean rejoin leaves that node in the cluster.
MembershipKept ==
    /\ Clean /\ ev.op = "NodeDecommission" =>
         LET n == pkg.decommissionedNode IN n # "none" /\ n \notin Members /\ \A v \in DOMAIN vol : n \notin vol[v].on
    /\ Clean /\ ev.op = "NodeRejoin" /\ ev.before.node # "none" => ev.before.node \in Members


\* What a record says is complete and the process keeps to its own rules while it is made:
\* errors are reported and kept, channels are used in order, flags are put back and true.
RecordsSound ==
    TriggersTypeOK /\ ErrorsReported /\ OutcomeKept /\ ChannelProtocol /\ FlagsRestored /\ FlagsTrue

----------------------------------------------------------------------------
\* What the clients of the API server rely on

Asked(c) == th[c].lk.req
Status(c) == IF Asked(c).code = 0 THEN 200 ELSE Asked(c).code
\* These handlers do not use the drivers.
Driverless == {"deploypxagent", "runhelmcmd", "createns", "deletens", "getclusterid", "getclusternodestatus"}
\* The errors that InitInstance, ValidateContext, CollectSupport and AddNamespaceLabel drop.
Unread == {"RunCommand", "updatePxClusterOpts", "GetPodsRestartCount", "CollectDiags", "AddNamespaceLabel"}

\* A request that is answered with success was served: by drivers that are initialised,
\* whichever of several first requests initialised them, with no error of a driver or a
\* validation passed over, and a reboot of all nodes has rebooted every one of them.
OkMeansDone ==
    \A c \in Callers : At(c, "served") /\ Status(c) = 200 =>
        /\ Call(c) \in Driverless \/ "drivers" \in pkg.api
        /\ Asked(c).fails \subseteq Unread
        /\ Call(c) = "rebootall" => Asked(c).did = pkg.reg

\* A handler writes one answer, or panics before it writes any.  (InitializeDrivers
\* writes none, and IsPxInstalled one more for every node without the driver.)
AnsweredOnce ==
    \A c \in Callers : At(c, "served") =>
        \/ Asked(c).writes = (IF Asked(c).panicked \/ Call(c) = "inittorpedo" THEN 0 ELSE 1)
        \/ Call(c) = "ispxinstalled" /\ Scene.bare # {}

\* What a client of the API server may conclude from the answer.
RequestsServed == OkMeansDone /\ AnsweredOnce

\* The trigger waits for ever: its error channel is full and only it would read it, or
\* ValidateDataIntegrity waits on its own channel, or the API server, without an
\* application, on one that nobody closes.
Stuck ==
    \E c \in Callers : (At(c, "send") /\ Local(c, "n") = ErrorChannelSize) \/ At(c, "block")
        \/ (At(c, "gather") /\ Local(c, "ch") = "open")
\* Every trigger, goroutine and request ends, unless one is stuck in one of these three
\* ways: no wait group is left waiting and no loop over a channel is left unclosed.
TriggersReturn == <>[]((\A c \in Callers : th[c].script = <<>>) \/ Stuck)
=============================================================================
