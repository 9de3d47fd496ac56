------------------------------ MODULE Upgrade ------------------------------
(***************************************************************************)
(* database/migrate.go, premigration_backup.go and sqlite_driver.go: a     *)
(* start of the server (InitDB) or of `migrate up` (MigrateUp) takes the   *)
(* mandatory snapshot and applies what is pending, and an operator deploys *)
(* releases, restores snapshots and forces a dirty version.                *)
(*                                                                         *)
(* A release is the version of its last migration.  golang-migrate writes  *)
(* the version row, the body of a migration and the row again in three     *)
(* transactions, and its lock is a flag of the process, so two processes   *)
(* may migrate one file.  Corrupt files, MigrateDown and the one-time      *)
(* bridge below the floor are left out.                                    *)
(***************************************************************************)
EXTENDS Naturals

CONSTANTS
  Procs,     \* what may open the file: the server, `migrate up`
  server,
  Releases,  \* as versions
  Floor,     \* SupportedUpgradeFloorVersion
  Repeatable,\* versions whose body succeeds if it is applied again
  MaxWrites, \* bound: how often the data changes
  MaxEvents  \* bound: failures and deeds of the operator

ASSUME UpgradeAssumption ==
  /\ server \in Procs
  /\ Releases \subseteq Nat \ {0}
  /\ Repeatable \subseteq Nat \ {0}
  /\ Floor \in Nat \ {0} /\ \A r \in Releases : r >= Floor
  /\ MaxWrites \in Nat \ {0} /\ MaxEvents \in Nat

VARIABLES
  db,        \* the file: its version row, what its tables are, and its data
  snapshots, \* the files of pre-migration/, by the two versions in their names
  pc,        \* per process, its step
  noted,     \* the version it read for the snapshot, or of its migration
  release,   \* the binary that is installed for it
  writes,    \* how many states the data has had
  uncovered, \* states of the data without a snapshot, for a reason named below
  events

file == <<db, writes>>
upgradeVars == <<file, snapshots, pc, noted, release, uncovered, events>>

(* version 0 is a file without a version row.  schema counts the bodies    *)
(* that are applied, data names the users' data (0 is none) and wrote the  *)
(* schema it was last written under.                                       *)
File == [version : Nat, dirty : BOOLEAN, schema : Nat, data : Nat, wrote : Nat]

Clean(v, d) == [version |-> v, dirty |-> FALSE, schema |-> v, data |-> d, wrote |-> v]

(* Nothing is installed, or a release at the floor or above has run.       *)
UpgradeInit ==
  /\ release \in [Procs -> Releases]
  /\ \E r \in Releases : db \in {Clean(0, 0), Clean(r, 1)}
  /\ writes = db.data
  /\ snapshots = {} /\ uncovered = {}
  /\ pc = [p \in Procs |-> "down"]
  /\ noted = [p \in Procs |-> 0]
  /\ events = 0

Goto(p, step, version) ==
  /\ pc' = [pc EXCEPT ![p] = step]
  /\ noted' = [noted EXCEPT ![p] = version]

Running(p) == pc[p] # "down"
Stopped == \A p \in Procs : ~Running(p)

(* A snapshot that goes back to before the data's first migration.         *)
Saved(d) ==
  \E s \in snapshots : s.db.data = d /\ ~s.db.dirty /\ s.db.schema = s.db.wrote

(* A server serves when its migrations are done, `migrate up` ends.        *)
End(p) == IF p = server THEN "serving" ELSE "down"

-----------------------------------------------------------------------------
(* migrateFileWithPreBackup.                                               *)

shouldTakePreMigrationBackup(p) ==
  /\ db.version # 0 /\ ~db.dirty
  /\ db.version < release[p]
  /\ db.version >= Floor

(* MigrationVersion, and the decision.                                     *)
Start(p) ==
  /\ pc[p] = "down"
  /\ IF shouldTakePreMigrationBackup(p)
     THEN Goto(p, "backup", db.version) ELSE Goto(p, "check", 0)
  /\ UNCHANGED <<file, snapshots, release, uncovered, events>>

(* A mutation of BackupSnapshot: it fails, and the start goes on.          *)
BackupFailsOpen(p) ==
  /\ Goto(p, "check", 0)
  /\ UNCHANGED <<snapshots, uncovered>>

(* VACUUM INTO a file that gets its name when it is complete.              *)
BackupSnapshot(p) ==
  /\ snapshots' = snapshots \cup {[from |-> noted[p], to |-> release[p], db |-> db]}
  /\ Goto(p, "check", 0)
  /\ UNCHANGED uncovered

(* A mutation of ReuseSnapshot: it refuses to overwrite the file.          *)
RefuseSnapshot(p) ==
  /\ Goto(p, "down", 0)
  /\ UNCHANGED <<snapshots, uncovered>>

(* A snapshot with the right two versions in its name is taken for the     *)
(* one of this upgrade, whatever was written since.                        *)
ReuseSnapshot(p) ==
  /\ uncovered' = IF Saved(db.data) THEN uncovered ELSE uncovered \cup {db.data}
  /\ Goto(p, "check", 0)
  /\ UNCHANGED snapshots

takePreMigrationBackup(p) ==
  /\ pc[p] = "backup"
  /\ IF \E s \in snapshots : s.from = noted[p] /\ s.to = release[p]
     THEN ReuseSnapshot(p) ELSE BackupSnapshot(p)
  /\ UNCHANGED <<file, release, events>>

(* The version row as RunMigrations finds it.                              *)
checkMigrationPreflight(p) ==
  /\ db.version = 0 => db.schema = 0
  /\ ~db.dirty
  /\ db.version <= release[p]
  /\ db.version = 0 \/ db.version >= Floor

(* A mutation of RunMigrations: a start clears the dirty flag and goes on. *)
RunMigrationsForcing(p) ==
  /\ pc[p] = "check"
  /\ db' = [db EXCEPT !.dirty = FALSE]
  /\ Goto(p, IF db.version <= release[p] THEN "up" ELSE "down", 0)
  /\ UNCHANGED <<writes, snapshots, release, uncovered, events>>

RunMigrations(p) ==
  /\ pc[p] = "check"
  /\ Goto(p, IF checkMigrationPreflight(p) THEN "up" ELSE "down", 0)
  /\ UNCHANGED <<file, snapshots, release, uncovered, events>>

-----------------------------------------------------------------------------
(* runPendingMigrations: golang-migrate's Up, over the driver's            *)
(* transactions.                                                           *)

Up(p) ==
  /\ pc[p] = "up"
  /\ \/ /\ db.dirty \/ db.version > release[p]
        /\ Goto(p, "down", 0)
     \/ /\ ~db.dirty /\ db.version = release[p]
        /\ Goto(p, End(p), 0)
     \/ /\ ~db.dirty /\ db.version < release[p]
        /\ Goto(p, "mark", db.version + 1)
  /\ UNCHANGED <<file, snapshots, release, uncovered, events>>

SetVersion(p, dirty) == db' = [db EXCEPT !.version = noted[p], !.dirty = dirty]

MarkDirty(p) ==
  /\ pc[p] = "mark"
  /\ SetVersion(p, TRUE)
  /\ Goto(p, "run", noted[p])
  /\ UNCHANGED <<writes, snapshots, release, uncovered, events>>

(* The body is applied as a whole, and one that asks first what is there   *)
(* (IF NOT EXISTS, a backfill of what is empty) again, if another process  *)
(* has applied it.                                                         *)
AppliedAgain(p) == db.schema >= noted[p] /\ noted[p] \in Repeatable

Run(p) ==
  /\ pc[p] = "run"
  /\ \/ db.schema = noted[p] - 1 /\ db' = [db EXCEPT !.schema = noted[p]]
     \/ AppliedAgain(p) /\ UNCHANGED db
  /\ Goto(p, "clean", noted[p])
  /\ UNCHANGED <<writes, snapshots, release, uncovered, events>>

(* What it creates is there already: it rolls back.  (A body that fails on *)
(* the data is an Abort.)                                                  *)
RunFails(p) ==
  /\ pc[p] = "run" /\ db.schema # noted[p] - 1 /\ ~AppliedAgain(p)
  /\ Goto(p, "down", 0)
  /\ UNCHANGED <<file, snapshots, release, uncovered, events>>

MarkClean(p) ==
  /\ pc[p] = "clean"
  /\ SetVersion(p, FALSE)
  /\ IF noted[p] = release[p] THEN Goto(p, End(p), 0) ELSE Goto(p, "mark", noted[p] + 1)
  /\ UNCHANGED <<writes, snapshots, release, uncovered, events>>

Migrate(p) ==
  \/ takePreMigrationBackup(p) \/ RunMigrations(p)
  \/ Up(p) \/ MarkDirty(p) \/ Run(p) \/ RunFails(p) \/ MarkClean(p)

-----------------------------------------------------------------------------
(* The users, failures, and the operator (migration-recovery.md).          *)

(* p has its snapshot behind it and its migrations before it.              *)
PastBackup(p) == pc[p] \in {"check", "up", "mark", "run", "clean"}

(* A server that still runs while another process upgrades, or after it    *)
(* has left the file dirty, writes what no snapshot will have: a start     *)
(* takes none of a dirty file, and a force takes none at all.              *)
Write ==
  /\ pc[server] = "serving" /\ writes < MaxWrites
  /\ writes' = writes + 1
  /\ db' = [db EXCEPT !.data = writes', !.wrote = db.schema]
  /\ uncovered' = IF db.dirty \/ \E p \in Procs : PastBackup(p) THEN uncovered \cup {writes'} ELSE uncovered
  /\ UNCHANGED <<snapshots, pc, noted, release, events>>

Happens == events < MaxEvents /\ events' = events + 1

(* A statement fails or the snapshot cannot be written, or the process is  *)
(* stopped or killed: what is committed stays.                             *)
Abort(p) ==
  /\ Happens /\ Running(p)
  /\ Goto(p, "down", 0)
  /\ UNCHANGED <<file, snapshots, release, uncovered>>

Deploy(p) ==
  /\ Happens /\ ~Running(p)
  /\ \E r \in Releases \ {release[p]} : release' = [release EXCEPT ![p] = r]
  /\ UNCHANGED <<file, snapshots, pc, noted, uncovered>>

Restore ==
  /\ Happens /\ Stopped
  /\ \E s \in snapshots : db' = s.db
  /\ UNCHANGED <<writes, snapshots, pc, noted, release, uncovered>>

(* The operator has verified that the schema is the dirty version's.       *)
MigrateForce(p) ==
  /\ Happens /\ Stopped
  /\ db.dirty /\ db.version <= release[p]
  /\ db.schema = db.version
  /\ db' = [db EXCEPT !.dirty = FALSE]
  /\ Goto(p, "up", 0)
  /\ UNCHANGED <<writes, snapshots, release, uncovered>>

UpgradeNext ==
  \/ \E p \in Procs : Start(p) \/ Migrate(p) \/ Abort(p) \/ Deploy(p) \/ MigrateForce(p)
  \/ Write \/ Restore

UpgradeSpec == UpgradeInit /\ [][UpgradeNext]_upgradeVars

(* docker-compose.yml restarts the server, and a start runs to its end.    *)
UpgradeFairSpec == UpgradeSpec /\ WF_upgradeVars(Start(server)) /\ \A p \in Procs : WF_upgradeVars(Migrate(p))

-----------------------------------------------------------------------------
UpgradeTypeOK ==
  /\ db \in File
  /\ snapshots \subseteq [from : Nat, to : Releases, db : File]
  /\ writes \in 0..MaxWrites
  /\ db.data <= writes /\ \A s \in snapshots : s.db.data <= writes
  /\ pc \in [Procs -> {"down", "backup", "check", "up", "mark", "run", "clean", "serving"}]
  /\ noted \in [Procs -> Nat]
  /\ release \in [Procs -> Releases]
  /\ uncovered \subseteq 0..writes /\ events \in 0..MaxEvents

(* A clean version row tells the truth about the tables, and no server     *)
(* runs on a schema that lacks one of its migrations, whatever two         *)
(* processes, crashes, restores and a verified force have done to the file *)
(* (checkMigrationPreflight, the dirty flag of SetVersion).  The exception *)
(* is a version that a second process has applied again after the first    *)
(* went on to a later one.                                                 *)
SchemaIsKnown ==
  /\ ~db.dirty => \/ db.version = db.schema
                  \/ db.version \in Repeatable /\ db.version < db.schema
  /\ pc[server] = "serving" => db.schema >= release[server]

(* Data that was migrated and not written since has a snapshot from before *)
(* (ErrPreMigrationBackupFailed: "the only way back"), unless a snapshot   *)
(* of an earlier attempt was taken for it, or a server wrote it during the *)
(* upgrade of another process.                                             *)
RollbackPoint ==
  db.data # 0 /\ db.schema > db.wrote => Saved(db.data) \/ db.data \in uncovered

(* The same for every state of the data: false, because                    *)
(* findReusablePreMigrationBackup goes by the name alone.                  *)
AlwaysRollbackPoint == db.data # 0 /\ db.schema > db.wrote => Saved(db.data)

(* Restarts settle: the server serves, or the file is dirty, ahead of the  *)
(* release, or an installation that stopped between two migrations below   *)
(* the floor, and stays so until the operator does something.              *)
Refused ==
  \/ db.dirty \/ db.version > release[server]
  \/ db.version \in 1..(Floor - 1)

RestartsSettle == []<>(pc[server] = "serving") \/ <>[]Refused

(* migration-recovery.md has it that a start which stopped between two     *)
(* migrations is resumed: false below the floor, on a new installation.    *)
RestartsResume ==
  []<>(pc[server] = "serving") \/ <>[](db.dirty \/ db.version > release[server])
=============================================================================
