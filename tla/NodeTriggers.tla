---------------------------- MODULE NodeTriggers ----------------------------
(***************************************************************************)
(* The functions of common.go and testTriggers.go that the triggers share   *)
(* (the helpers that send their errors on a channel and close it, the       *)
(* validation of the applications), and the triggers that disturb nodes,    *)
(* their driver or their kubelet, and wait until the nodes are back.        *)
(***************************************************************************)
EXTENDS TriggerCluster

isNodeHealthy(n) == Look("Healthy", n)
\* The applications on the node are only needed, and only looked for, when the
\* test validates the integrity of their data.
GetContextsOnNode(bad) == IF Scene.integrity THEN OrElse(Ask("GetContextsOnNode"), bad) ELSE <<>>

\* The errors of these helpers go to processError, which sends them.
StartVolDriverAndWait(n) == Sent(On("StartDriver", n)) \o Sent(Until("DriverUp", n))
StopVolDriverAndWait(n) == Sent(On("StopDriver", n)) \o Sent(Until("DriverDown", n))
CrashVolDriverAndWait(n) == Sent(On("CrashDriver", n)) \o Sent(Until("DriverUp", n))
CrashPXDaemonAndWait(n) == Sent(On("KillPXDaemon", n)) \o Sent(Until("DriverUp", n))

\* Without a list of nodes the function sends the error and uses the list.
RestartKubelet(n) ==
    OrElse(Ask("GetNodes"), Send \o Panic) \o Sent(On("StopKubelet", n)) \o Sent(Until("NotReady", n))
    \o (IF Scene.aks THEN <<>> ELSE Sent(On("StartKubelet", n))) \o Sent(Until("Ready", n))

\* Without applications a second error says that there are none.
ScheduleApplications == <<[Ask("Schedule") EXCEPT !.bad = Send \o Send, !.ok = <<[do |-> "deploy"]>>]>>

----------------------------------------------------------------------------
\* The validation of an application

Volumes(k) == ctxs[k].vols

\* Without the list the loop over the volumes does nothing.
ValidateVolumes(k) ==
    Sent(Ask("GetVolumes")) \o Sent(Check("ValidateVolumes"))
    \o <<[Ask("GetVolumeParameters") EXCEPT !.bad = Send,
            !.ok = For(Volumes(k), LAMBDA v : Sent(Check("ValidateCreateVolume")))]>>

\* The errors of the restart counts are logged; a node that is not in the registry
\* fails the test case.
ValidatePxPodRestartCount ==
    <<[Ask("GetPodsRestartCount") EXCEPT !.ok = OrElse(Ask("GetNodeByIP"), Panic)]>>
    \o Logged(Ask("GetPodsRestartCount"))

ValidateContext(k) ==
    (IF ctxs[k].excluded THEN Skip(k, TRUE) ELSE <<>>)
    \o UnlessSkipped(k, ValidateVolumes(k))
    \o Sent(Check("WaitForRunning"))
    \o (IF Scene.topology THEN Sent(Check("ValidateTopologyLabel")) ELSE <<>>)
    \o UnlessSkipped(k, <<[Ask("GetVolumes") EXCEPT !.bad = Send,
            !.ok = For(Volumes(k), LAMBDA v : Sent(Check("ValidateVolumeSetup")))]>>)
    \o ValidatePxPodRestartCount

\* Every application, each with a channel of its own.
Apps == [j \in DOMAIN ctxs |-> j]
validateContexts == For(Apps, LAMBDA k : Collected(ValidateContext(k)))
ValidateSkipping(k) == Make \o Skip(k, TRUE) \o ValidateContext(k) \o Close \o Skip(k, FALSE) \o Drain

ValidatePDSDataServices(k) == Sent(Check("ValidateDataServiceDeployment"))

----------------------------------------------------------------------------
\* ValidateDataIntegrity, of the applications whose volumes have several replicas

Scaling(k, to) == [do |-> "scale", k |-> k, to |-> to, ok |-> <<>>, bad |-> <<>>]

\* The scale is read back from the scheduler: it is the one the function has set.
revertAppScale(k) ==
    <<[Ask("GetScaleFactorMap") EXCEPT !.bad = Note, !.ok = Noted(Scaling(k, "read"))] @@ [deferred |-> TRUE]>>

\* A goroutine for a replica: its error is sent on an unbuffered channel, before
\* wg.Done, while the function is in wg.Wait.
calChecksum ==
    OrElse(Ask("ListStoragePools"), Block) \o OrElse(Ask("InspectVolume"), Block) \o OrElse(Ask("RunCommand"), Block) \o Done

\* No goroutine closes the channel when the checksums are there, and the loop over it
\* does not end.
Checksums == Add \o Go(calChecksum) \o Add \o Go(calChecksum) \o Join \o Block

\* An error is returned to the trigger, which notes it and goes on after the label out.
ValidateDataIntegrity(out) ==
    IF ~Scene.integrity THEN <<>>
    ELSE Fn("integrity", For(Apps, LAMBDA k : Fn("outer",
             NoteAndExit(Check("WaitForRunning"), out) \o NoteAndExit(Ask("GetVolumes"), out)
             \o For(Volumes(k), LAMBDA v : NoteAndExit(Ask("GetReplicaSets"), out)
                    \o If("single", v, Exit("outer"), <<>>)
                    \o NoteAndExit(Check("GetVolumeReplicationStatus"), out))
             \o Defer("integrity", revertAppScale(k)) \o Logged(Ask("GetScaleFactorMap"))
             \o NoteAndExit(Scaling(k, "zero"), out)
             \o NoteAndExit(Ask("InspectVolume"), out) \o NoteAndExit(Ask("IsDMthin"), out)
             \o NoteAndExit(Ask("GetReplicaSets"), out) \o Checksums)))

----------------------------------------------------------------------------
\* The triggers

Integrity == ValidateDataIntegrity("integrity")

\* The nodes one after the other: one that is not healthy is noted and passed over.
OneByOne(Body(_)) ==
    For(StorageNodes, LAMBDA n : Unless(isNodeHealthy(n), GetContextsOnNode(Note) \o Body(n)))

TriggerCrashVolDriver ==
    OneByOne(LAMBDA n : Collected(CrashVolDriverAndWait(n)) \o Integrity \o validateContexts)
TriggerCrashPXDaemon ==
    OneByOne(LAMBDA n : Collected(CrashPXDaemonAndWait(n)) \o Integrity \o validateContexts)
\* Mutant: nobody reads the errors of the restart.
KubeletUndrained ==
    OneByOne(LAMBDA n : Make \o RestartKubelet(n) \o Close \o Integrity \o validateContexts)
TriggerKubeletRestart ==
    OneByOne(LAMBDA n : Collected(RestartKubelet(n)) \o Integrity \o validateContexts)
TriggerRestartVolDriver ==
    OneByOne(LAMBDA n : Collected(StopVolDriverAndWait(n)) \o validateContexts
                        \o Collected(StartVolDriverAndWait(n)) \o Integrity \o validateContexts)

\* The node is taken out of maintenance whether or not it was put into it.
TriggerNodeMaintenanceCycle ==
    OneByOne(LAMBDA n : Noted(On("EnterMaintenance", n)) \o Noted(On("ExitMaintenance", n))
                        \o Integrity \o validateContexts)
TriggerPoolMaintenanceCycle ==
    OneByOne(LAMBDA n : Noted(On("EnterPoolMaintenance", n)) \o Noted(On("ExitPoolMaintenance", n))
                        \o Integrity \o validateContexts)

\* Mutant: the trigger validates without a wait for the goroutines that start drivers.
RestartManyUnjoined ==
    For(StorageNodes, LAMBDA n : Unless(isNodeHealthy(n),
            Add \o Go(Collected(StopVolDriverAndWait(n)) \o Done)))
    \o Join
    \o For(StorageNodes, LAMBDA n : Add \o Go(Collected(StartVolDriverAndWait(n)) \o Done))
    \o Integrity \o validateContexts
\* Mutant: a goroutine that stops a driver ends without wg.Done.
RestartManyUndone ==
    For(StorageNodes, LAMBDA n : Unless(isNodeHealthy(n), Add \o Go(Collected(StopVolDriverAndWait(n)))))
    \o Join
    \o For(StorageNodes, LAMBDA n : Add \o Go(Collected(StartVolDriverAndWait(n)) \o Done))
    \o Join \o Integrity \o validateContexts

\* A goroutine per healthy node stops its driver; one per node starts it.
TriggerRestartManyVolDriver ==
    For(StorageNodes, LAMBDA n : Unless(isNodeHealthy(n),
            Add \o Go(Collected(StopVolDriverAndWait(n)) \o Done)))
    \o Join
    \o For(StorageNodes, LAMBDA n : Add \o Go(Collected(StartVolDriverAndWait(n)) \o Done))
    \o Join \o Integrity \o validateContexts

KvdbNodes == SelectSeq(Scene.nodes, LAMBDA n : n \in pkg.kvdb)

TriggerRestartKvdbVolDriver ==
    NoteAndExit(Ask("GetAllKvdbNodes"), "trigger")
    \o Noted(Ask("RefreshNodeRegistry")) \o Noted(Ask("RefreshDriverEndpoints"))
    \o For(KvdbNodes, LAMBDA n : GetContextsOnNode(Note) \o Collected(StopVolDriverAndWait(n))
                                 \o Collected(StartVolDriverAndWait(n)) \o validateContexts)
    \o Integrity

Reboot(n) ==
    Noted(On("RebootNode", n)) \o Noted(Until("Connection", n)) \o Noted(Until("DriverDown", n))
    \o Noted(Until("Ready", n)) \o Noted(Until("DriverUp", n)) \o validateContexts
TriggerRebootNodes == OneByOne(Reboot) \o Integrity


TriggerCrashNodes ==
    For(StorageNodes, LAMBDA n : Unless(isNodeHealthy(n),
            Noted(On("CrashNode", n)) \o Noted(Until("Connection", n)) \o Noted(Until("Ready", n))
            \o Noted(Until("DriverUp", n)) \o validateContexts))

\* The nodes of getNodesByChaosLevel at the highest level: all of them.  One that has
\* become unhealthy since it was selected is not rebooted, and is waited for.
TriggerRebootManyNodes ==
    For(StorageNodes, LAMBDA n : Unless(isNodeHealthy(n), <<[do |-> "select", n |-> n]>>))
    \o Expand("reboot") \o Join
    \o Expand("wait") \o Join
    \o validateContexts
RebootSelected(n) == Add \o Go(Unless(isNodeHealthy(n), Noted(On("RebootNode", n))) \o Done)
AwaitSelected(n) ==
    Add \o Go(Noted(Until("Connection", n)) \o Noted(Until("Ready", n)) \o Noted(Until("DriverUp", n)) \o Done)

\* A goroutine per node.  The error of IsNodeReady is overwritten.
TriggerPowerOffAllVMs ==
    For(StorageNodes, LAMBDA n : Add \o Go(Noted(On("PowerOff", n)) \o Done)) \o Join
    \o For(StorageNodes, LAMBDA n : Add \o Go(Noted(On("PowerOn", n)) \o Done)) \o Join
    \o For(StorageNodes, LAMBDA n : Logged(Until("Ready", n)) \o Noted(Until("DriverUp", n)))
    \o For(Apps, LAMBDA k : Skip(k, FALSE) \o Collected(ValidateContext(k)))
    \o Integrity

\* The driver of a member is stopped and started; the cycle ends when the members are
\* not all healthy, or cannot be listed, while it is down.
Restarted(n) == Collected(StartVolDriverAndWait(n))
TriggerKVDBFailover ==
    LET first == Head(StorageNodes) IN
    Noted(Ask("RefreshDriverEndpoints"))
    \o <<[Look("KvdbMembers", first) EXCEPT !.bad = Note \o Note \o Note, !.ok =
         <<[Look("KvdbHealthy", first) EXCEPT !.bad = Note, !.ok =
              Fn("cycle", For(KvdbNodes, LAMBDA n :
                  GetContextsOnNode(<<>>) \o Collected(StopVolDriverAndWait(n))
                  \o <<[Look("KvdbMembers", first) EXCEPT !.bad = Note \o Note \o Restarted(n) \o Exit("cycle"),
                        !.ok = OrElse(Look("KvdbHealthy", first), Restarted(n) \o Exit("cycle"))]>>
                  \o Restarted(n)))
              \o Integrity]>>]>>

----------------------------------------------------------------------------
\* The pods of the applications

TriggerAppTaskDown == For(Apps, LAMBDA k : Noted(Ask("DeleteTasks")) \o ValidateSkipping(k))

\* The flag is not cleared, and nobody reads the channel.
TriggerAppTasksDown ==
    For(Apps, LAMBDA k : Noted(Ask("DeleteTasks")) \o Make \o Skip(k, TRUE) \o ValidateContext(k) \o Close)

TriggerValidatePdsApps == For(Apps, LAMBDA k : Collected(ValidatePDSDataServices(k)))
============================================================================
