---------------------------- MODULE MCLongevity ----------------------------
(* Instances of Longevity for TLC. *)
EXTENDS Longevity

MCOtherEvents == {"deployApps", "addBackupCluster"}
DeployNewApps == <<"deployApps">>
BackupSetup == <<"deployBackupApps", "addBackupCluster">>
AllEnabled == Goroutines

\* One edit disables the email report and enables the rest, one is malformed.
DisableEmail == [keys |-> Goroutines, enabled |-> Tests, malformed |-> FALSE]
DisableSome == [keys |-> Tests, enabled |-> {}, malformed |-> TRUE]
Edits == {DisableEmail, DisableSome}
=============================================================================
