---------------------------- MODULE MCAppVolumes ----------------------------
(* The contexts AppVolumes is model-checked on. *)
EXTENDS AppVolumes, TLC

obj(kind, claims) == [kind |-> kind, claims |-> claims, grown |-> FALSE]
Scripts(s1, s2, s3) == "c1" :> s1 @@ "c2" :> s2 @@ "c3" :> s3

\* A claim and a stateful set with one claim; any backend will do.
Plain == [script |-> Scripts(<<>>, <<>>, <<>>),
          specs |-> <<obj("PersistentVolumeClaim", <<"p">>), obj("StatefulSet", <<"s">>)>>,
          backend |-> "p" :> "none" @@ "s" :> "none",
          pure |-> FALSE, essentials |-> FALSE, skip |-> FALSE, retain |-> 1, rounds |-> [c \in Callers |-> 1], faults |-> 1]

\* TriggerCsiSnapShot and TriggerCsiSnapRestore on two claims, and the first repeatedly on
\* one claim beside another caller that restores and deletes.
SnapshotTrigger == <<"DeleteCsiSnaps", "CreateCsiSnaps", "ValidateCsiSnaps">>
Snapshots == [Plain EXCEPT !.script = Scripts(SnapshotTrigger, <<"RestoreCsiSnap">>, <<>>)]
Rounds == [Plain EXCEPT !.script = Scripts(SnapshotTrigger, <<"DeleteCsiSnaps">>, <<>>),
                        !.specs = <<obj("PersistentVolumeClaim", <<"p">>)>>,
                        !.rounds = [Plain.rounds EXCEPT !["c1"] = 3], !.essentials = TRUE]

\* Two resizing triggers and one that deletes the volumes, and two that delete them.
Resizes == [Plain EXCEPT !.script = Scripts(<<"ResizeVolume">>, <<"ResizeVolume">>, <<"DeleteVolumes">>)]
Deletes == [Plain EXCEPT !.script = Scripts(<<"DeleteVolumes">>, <<"DeleteVolumes">>, <<>>)]
\* A spec list that also holds a storage class, a snapshot and a persistent volume.
DeletesAll == [Deletes EXCEPT !.specs = <<obj("StorageClass", <<>>), obj("PersistentVolumeClaim", <<"p">>),
                                          obj("VolumeSnapshot", <<>>), obj("StatefulSet", <<"s">>),
                                          obj("PersistentVolume", <<>>)>>]
DeletesOwn == [DeletesAll EXCEPT !.skip = TRUE]

\* Pure and other volumes, a machine and a deployment: the rest of the operations.
Mixed ==
    [Plain EXCEPT
        !.script = Scripts(<<"GetVolumes", "ValidateVolumes", "ResizeVolume">>, <<>>, <<>>),
        !.specs = <<obj("StatefulSet", <<"s", "t">>), obj("VirtualMachine", <<"v">>),
                    obj("PersistentVolumeClaim", <<"u">>),
                    [obj("ModelsDeployment", <<"d">>) EXCEPT !.grown = TRUE]>>,
        !.backend = "s" :> "pure_block" @@ "t" :> "pure_file" @@ "u" :> "pure_file"
                    @@ "v" :> "pure_block" @@ "d" :> "none",
        !.pure = TRUE]
MixedSnapshots ==
    [Mixed EXCEPT !.script = Scripts(<<"CreateCsiSnaps", "ValidateCsiSnaps", "DeleteCsiSnaps",
                                       "RestoreCsiSnap">>, <<>>, <<>>)]

AllContexts == {Snapshots, Rounds, Resizes, DeletesAll, DeletesOwn, Mixed, MixedSnapshots}
=============================================================================
