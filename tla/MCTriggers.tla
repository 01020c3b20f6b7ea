----------------------------- MODULE MCTriggers -----------------------------
(***************************************************************************)
(* The instance TLC checks.                                                   *)
(***************************************************************************)
EXTENDS Triggers

GoRoutines == <<"g1", "g2">>
App == [vols |-> <<"v1">>, skip |-> FALSE, excluded |-> FALSE, scale |-> 1, fstrim |-> FALSE]
On2 == [GoodVolume EXCEPT !.on = {"n1", "n2"}, !.want = 2, !.label = "high"]
On1 == [GoodVolume EXCEPT !.on = {"n1"}, !.want = 1]
Vols(r) == [v \in {"v1"} |-> r]
Memory == [kvdb |-> {"n1"}, flags |-> {}, opts |-> {}, counter |-> 0, setIoPriority |-> TRUE, extra |-> 0, trash |-> 0,
           suspended |-> {}, decommissionedNode |-> "none", api |-> {}, reg |-> {}]
Plain == [script |-> <<>>, nodes |-> <<"n1", "n2">>, vols |-> Vols(On2), ctxs |-> <<App>>, pkg |-> Memory,
          fresh |-> [app |-> [App EXCEPT !.vols = <<"v2">>], vols |-> [v \in {"v2"} |-> On1]],
          faults |-> 1, aks |-> FALSE, integrity |-> FALSE, topology |-> FALSE, ring |-> FALSE, dmthin |-> FALSE, backups |-> FALSE,
          api |-> FALSE, calls |-> [g1 |-> <<>>, g2 |-> <<>>], list |-> 1, bare |-> {}]
In(p, script, f) == [p EXCEPT !.script = script, !.faults = f]
One == [Plain EXCEPT !.nodes = <<"n1">>, !.vols = Vols(On1)]

Plain3 == [Plain EXCEPT !.nodes = <<"n1", "n2", "n3">>]

Of(p, vols) == [p EXCEPT !.vols = vols]
With(p, apps) == [p EXCEPT !.ctxs = apps]
On3 == [GoodVolume EXCEPT !.on = {"n1", "n2", "n3"}, !.want = 3]
Unlabelled == [On2 EXCEPT !.label = "none"]
\* The requests of three clients.
Api == [One EXCEPT !.api = TRUE, !.ctxs = <<>>]
Ready == [Api EXCEPT !.nodes = <<"n1", "n2">>, !.pkg.api = {"parsed", "drivers", "IsTorpedoInitDone"}, !.pkg.reg = {"n1", "n2"}]
Clients(p, a, b, f) == [p EXCEPT !.script = a, !.calls.g1 = b, !.faults = f]
Emails == [Plain EXCEPT !.ring = TRUE, !.ctxs = <<>>]

TriggerScenes == <<
    In(Plain, <<"CrashVolDriver">>, 1),
    In(One, <<"CrashPXDaemon">>, 1),
    In(Plain, <<"KubeletRestart">>, 1),
    In([Plain EXCEPT !.aks = TRUE], <<"KubeletRestart">>, 1),
    In(One, <<"RestartVolDriver">>, 1),
    In(Plain, <<"NodeMaintenanceCycle">>, 1),
    In(Plain, <<"PoolMaintenanceCycle">>, 1),
    In(Plain, <<"RestartManyVolDriver">>, 1),
    In(Plain, <<"RestartKvdbVolDriver">>, 1),
    In([Plain EXCEPT !.integrity = TRUE], <<"RestartKvdbVolDriver">>, 1),
    In([One EXCEPT !.integrity = TRUE], <<"RestartKvdbVolDriver">>, 0),
    In(One, <<"RebootNodes">>, 1),
    In(Plain, <<"CrashNodes">>, 1),
    In(One, <<"CrashNodes", "AppTaskDown">>, 1),
    In(Plain, <<"RebootManyNodes">>, 1),
    In(Plain, <<"PowerOffAllVMs">>, 1),
    In(Plain, <<"KVDBFailover">>, 1),
    In([Plain EXCEPT !.pkg.kvdb = {"n2"}], <<"KVDBFailover">>, 1),
    In([Plain EXCEPT !.topology = TRUE], <<"AppTaskDown">>, 1),
    In(With(Plain, <<[App EXCEPT !.excluded = TRUE]>>), <<"AppTaskDown", "AppTasksDown">>, 1),
    In(Plain, <<"AppTasksDown", "AppTaskDown">>, 1),
    In(Of(Plain, Vols(On1)), <<"HAIncrease", "HAIncrease">>, 1),
    In(Plain, <<"HADecrease", "HADecrease">>, 1),
    In(Plain, <<"HAIncreaseWithPVCResize", "HADecrease", "HAIncreaseWithPVCResize">>, 1),
    In(Plain3, <<"HAIncreaseAndReboot">>, 1),
    In(Plain3, <<"HAIncreaseAndRestartPX">>, 1),
    In(Plain3, <<"HAIncreaseAndCrashPX">>, 1),
    In(Of(Plain3, Vols(On3)), <<"HAIncreaseAndCrashPX">>, 0),
    In(With(Plain, <<App, App>>), <<"DeployApps">>, 1),
    In(Plain, <<"VolumeCreatePxRestart", "VolumeClone">>, 1),
    In(Plain, <<"VolumeResize", "VolumesDelete">>, 1),
    In(Plain, <<"UpdateIOProfile", "UpdateIOProfile">>, 1),
    In(Plain, <<"UpdateVolume", "UpdateVolume">>, 1),
    In(Of(Plain, Vols(Unlabelled)), <<"UpdateVolume">>, 1),
    In([Plain EXCEPT !.pkg.trash = 1], <<"Trashcan", "Trashcan">>, 1),
    In(Plain, <<"Trashcan", "Trashcan", "RelaxedReclaim", "RelaxedReclaim">>, 1),
    In(With(Plain, <<[App EXCEPT !.fstrim = TRUE]>>), <<"AutoFsTrim">>, 1),
    In(With(One, <<[App EXCEPT !.fstrim = TRUE]>>), <<"AutoFsTrim">>, 1),
    In(Plain, <<"MetadataPoolResizeDisk">>, 1),
    In([One EXCEPT !.dmthin = TRUE], <<"PoolAddDisk", "ResizeDiskAndReboot">>, 1),
    In(One, <<"AddDiskAndReboot", "AddDiskAndReboot">>, 1),
    In([One EXCEPT !.dmthin = TRUE], <<"AddDiskAndReboot">>, 1),
    In([Plain3 EXCEPT !.backups = TRUE], <<"NodeDecommission", "NodeRejoin">>, 1),
    In(Of(Plain, Vols(On1)), <<"NodeDecommission", "NodeRejoin">>, 1),
    In(Plain, <<"NodeDecommission", "NodeRejoin">>, 0),
    In(Emails, <<"ValidatePdsApps", "ValidatePdsApps", "ValidatePdsApps">>, 0) >>

RequestScenes == <<
    Clients(Api, <<"inittorpedo", "getnodes">>, <<"rebootn1", "rebootother">>, 1),
    Clients(Ready, <<"rebootall">>, <<"rebootrandom">>, 1),
    Clients(Ready, <<"storagenodes", "collectsupport", "pxversion", "getpxctloutput", "inittorpedo">>, <<>>, 1),
    Clients([Ready EXCEPT !.bare = {"n1"}], <<"storagelessnodes", "ispxinstalled">>, <<>>, 1),
    Clients(Ready, <<"ispxinstalled", "runhelmcmd", "createns", "deletens", "getclusterid", "getclusternodestatus">>, <<>>, 1),
    Clients(Ready, <<"getkubevirtvmsbyns", "getkubevirtvmsbynslabels", "addLabel", "stork/upgrade", "deletepod",
                     "getpxbackupnamespace", "createvolumesnapshotclass">>, <<>>, 1),
    Clients(Ready, <<"scheduleapps">>, <<"rebootn1">>, 0),
    Clients(Ready, <<"scheduleapps">>, <<>>, 1),
    Clients([Ready EXCEPT !.list = 2], <<"scheduleapps">>, <<>>, 0),
    Clients([Ready EXCEPT !.list = 0], <<"scheduleapps">>, <<"getnodes">>, 0) >>

AllScenes == TriggerScenes \o RequestScenes
=============================================================================
