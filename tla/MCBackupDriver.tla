--------------------------- MODULE MCBackupDriver ---------------------------
(* The scenes BackupDriver is model-checked on. *)
EXTENDS BackupDriver

call(op, kind, name) == [op |-> op, kind |-> kind, name |-> name]
byUid(op, kind, name, uid) == call(op, kind, name) @@ [uid |-> uid]
of(op, user, group, role) == [op |-> op, of |-> [users |-> user, groups |-> group, roles |-> role]]
many(op, coll, names) == [op |-> op, what |-> {coll}, many |-> names]
policies(names) == [op |-> "DeleteBackupSchedulePolicy", names |-> names, kind |-> "SchedulePolicy"]
obj(name, uid, owner) == [name |-> name, uid |-> uid, owner |-> owner, st |-> "Active"]
ent(name, id) == [name |-> name, id |-> id]
backups(names) == [i \in DOMAIN names |-> [name |-> names[i], uid |-> i, owner |-> "u1", st |-> "Success"]]

NoRealm == [users |-> {}, groups |-> {}, roles |-> {}]
Plain == [script |-> [c \in Callers |-> <<>>], user |-> [c \in Callers |-> "u1"],
          realm |-> NoRealm, store |-> <<>>, scheduled |-> <<>>,
          newestFirst |-> FALSE, ends |-> {"Success"}, faults |-> 0]
Two(s1, s2) == [c \in Callers |-> IF c = "c1" THEN s1 ELSE s2]

\* Pages of two backups while others are created and deleted.
Pages(front, s2) ==
    [Plain EXCEPT !.script = Two(<<call("Delete", "Backup", "b4"), call("Inspect", "Backup", "b5")>>, s2),
                   !.store = [Backup |-> backups(<<"b1", "b2", "b3", "b4", "b5">>)], !.newestFirst = front]
Creates == <<call("Create", "Backup", "b6"), call("Create", "Backup", "b7")>>
Deletes == <<call("Delete", "Backup", "b1"), call("WaitForBackupDeletion", "Backup", "b1")>>

\* Backups and restores that run, are waited for and deleted.
Waits(wait) ==
    [Plain EXCEPT !.script = Two(<<call("Create", "Backup", "b"), call(wait, "Backup", "b")>>,
                                  <<call("Delete", "Backup", "b"), call("WaitForBackupDeletion", "Backup", "b"),
                                    call("Create", "Backup", "b")>>),
                   !.ends = {"Success", "PartialSuccess", "Failed"}, !.faults = 1]
Restores ==
    [Plain EXCEPT !.script = Two(<<call("Create", "Restore", "r"), call("WaitForRestoreRunning", "Restore", "r"),
                                   call("WaitForRestoreCompletion", "Restore", "r")>>,
                                 <<call("Delete", "Restore", "r"), call("WaitForRestoreDeletion", "Restore", "r")>>),
                  !.ends = {"PartialSuccess", "Aborted"}, !.faults = 1]

\* Two users with clusters of one name, and an administrator's view of both.
Clusters ==
    [Plain EXCEPT !.script = Two(<<call("Update", "Cluster", "k"), call("UpdateBackupShare", "Cluster", "k")>>,
                                 <<call("Delete", "Cluster", "k"), call("WaitForClusterDeletion", "Cluster", "k")>>),
                  !.user = [c \in Callers |-> IF c = "c1" THEN "admin" ELSE "u1"],
                  !.store = [Cluster |-> <<obj("k", 1, "u1"), obj("k", 2, "admin")>>], !.faults = 1]

\* One test deletes a cluster or a location by its UID and waits for it, the other waits by
\* name, or for a UID that was never there, and takes the name again.
Renamed(kind, wait, other) ==
    [Plain EXCEPT !.script = Two(<<byUid("Delete", kind, "k", 1), byUid(wait, kind, "k", 1), byUid(wait, kind, "k", 3)>>,
                                 <<call(other, kind, "k"), call("Create", kind, "k")>>),
                  !.store = (kind :> <<obj("k", 1, "u1"), obj("k", 2, "u2")>>), !.faults = 1]

\* Administrators' calls that share the secret.
Policies ==
    [Plain EXCEPT !.script = Two(<<policies(<<"p1", "p2">>)>>,
                                 <<policies(<<"p2">>), call("BackupSchedulePolicy", "SchedulePolicy", "p2")>>),
                   !.store = [SchedulePolicy |-> <<obj("p1", 1, "admin"), obj("p2", 2, "admin")>>], !.faults = 1]
Rules ==
    [Plain EXCEPT !.script = Two(<<call("CreateRuleForBackup", "Rule", "r"), call("DeleteRuleForBackup", "Rule", "r")>>,
                                 <<call("CreateRuleForBackup", "Rule", ""), call("CreateRuleForBackup", "Rule", "r")>>),
                  !.faults = 1]

\* Users, groups and roles.
Realm == [users |-> {ent("u1", 1), ent("u2", 2)}, groups |-> {ent("g1", 3), ent("g2", 4)}, roles |-> {ent("r1", 5)}]
Groups(s2) ==
    [Plain EXCEPT !.script = Two(<<many("DeleteMultipleGroups", "groups", <<"g1", "g2">>)>>, s2),
                   !.realm = Realm, !.faults = 1]
Grants == <<of("AddGroupToUser", "u1", "g1", "r1"), of("AddRoleToGroup", "u1", "g2", "r1")>>
Renews == <<of("DeleteGroup", "u1", "g1", "r1"), of("AddGroup", "u1", "g1", "r1")>>
Users ==
    [Plain EXCEPT !.script = Two(<<of("AddRoleToUser", "u1", "g1", "r1"), of("GetUserRole", "u1", "g1", "r1"),
                                   many("DeleteMultipleUsers", "users", <<"u1", "u3">>)>>,
                                 <<of("DeleteUser", "u1", "g1", "r1"), of("AddUser", "u1", "g1", "r1"),
                                   of("DeleteRoleFromUser", "u1", "g1", "r1")>>),
                  !.realm = Realm, !.faults = 1]

\* Every other call once, one after the other.
ObjectTour ==
    [Plain EXCEPT
        !.script = Two(
            <<call("Init", "Cluster", "")>>
            \o [i \in 1..3 |-> call(<<"Create", "Inspect", "Delete">>[i], "CloudCredential", "c")]
            \o [i \in 1..4 |-> call(<<"Create", "Validate", "Delete", "WaitForBackupLocationDeletion">>[i],
                                    "BackupLocation", "l")]
            \o [i \in 1..4 |-> call(<<"Create", "GetAllScheduleBackupUIDs", "Delete", "WaitForBackupScheduleDeletion">>[i],
                                    "BackupSchedule", "s")]
            \o <<call("BackupScheduleWaitForNBackupsCompletion", "Backup", "s") @@ [count |-> 2],
                 call("GetBackupStatusWithReason", "Backup", "b2"), call("Inspect", "Restore", "r")>>, <<>>),
        !.scheduled = <<"b1", "b2">>,
        !.store = [Backup |-> backups(<<"b1", "b2", "b3">>)], !.faults = 2]
RealmTour ==
    [Plain EXCEPT
        !.script = Two(
            <<of("CreateRole", "u1", "g1", "r2"), of("AddRoleToGroup", "u1", "g1", "r2"),
              of("DeleteRoleFromGroup", "u1", "g1", "r2"), of("DeleteRole", "u1", "g1", "r2"),
              of("GetRandomUserFromGroup", "u1", "g1", "r1"), of("GetMembersOfGroup", "u1", "g1", "r1"),
              of("GetRolesForUser", "u1", "g1", "r1"), call("FetchUserDetailsFromID", "Backup", "u1"),
              of("GetAdminTokenFromSecret", "u1", "g1", "r1")>>, <<>>),
        !.realm = Realm, !.faults = 2]

AllScenes ==
    <<Pages(TRUE, Creates), Pages(FALSE, Creates), Pages(FALSE, Deletes), Waits("WaitForBackupCompletion"),
      Waits("WaitForBackupPartialCompletion"), Waits("WaitForDeletePending"), Waits("GetVolumeBackupIDs"),
      Waits("WaitForBackupRunning"), Restores, Clusters, Policies, Rules, Groups(Grants), Groups(Renews),
      Users, ObjectTour, RealmTour,
      Renamed("Cluster", "WaitForClusterDeletionWithUID", "WaitForClusterDeletion"),
      Renamed("BackupLocation", "WaitForBackupLocationDeletion", "WaitForBackupLocationDeletion")>>
=============================================================================
