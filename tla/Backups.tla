------------------------------ MODULE Backups -------------------------------
(***************************************************************************)
(* The SQLite database on its volume, its backups (server/                 *)
(* database_backup.py) and the volume's snapshots (scripts/                *)
(* volume_snapshot.py).  The database is in WAL mode (init_db.py): commits *)
(* go to a log beside it, which the last connection to close writes back   *)
(* and removes, and which a kill leaves behind.  SQLite itself is modelled *)
(* by what the code relies on: a page is the number of the commit that     *)
(* wrote it.                                                               *)
(***************************************************************************)
EXTENDS Naturals, FiniteSets

CONSTANTS
  Pages,
  MaxCommits,        \* bound on the commits
  MaxCopies          \* bound on the backups and on the snapshots kept

ASSUME BackupsAssumption == Pages # {} /\ {MaxCommits, MaxCopies} \subseteq Nat

VARIABLES
  service,     \* "busy" with connections open, "resting" without, "down"
  main,        \* the database file
  log,         \* what its log holds; NoLog when there is none
  commits,     \* how many there were
  moments,     \* the contents the database had, one after each commit
  backup,      \* a backup being made
  backups,     \* the published ones
  restore,     \* a restore of a backup
  snapshot,    \* a snapshot being made
  archives,    \* the published ones
  volume       \* a volume restored from one, or what others put at its path

backupVars == <<service, main, log, commits, moments, backup, backups, restore,
                snapshot, archives, volume>>

databaseVars == <<service, main, log, commits, moments>>

Nothing == [p \in {} |-> 0]
NoLog == [there |-> FALSE, frames |-> Nothing]
Log(frames) == [there |-> TRUE, frames |-> frames]

\* f, and g where f says nothing.
Over(f, g) == [p \in DOMAIN f \cup DOMAIN g |-> IF p \in DOMAIN f THEN f[p] ELSE g[p]]
Content(file, itsLog) == Over(itsLog.frames, file)
Pausing == [at |-> "none"]

\* The snapshot's signature holds sizes and times, so it tells of every change to a
\* file after the file was signed.
Changing(files) ==
  snapshot' = IF snapshot.at = "none" THEN snapshot
              ELSE [snapshot EXCEPT !.changed = @ \cup (files \cap snapshot.signed)]

-----------------------------------------------------------------------------
(* The service and SQLite *)

\* The first connection makes the log, or recovers one that is there.
Open ==
  /\ service = "resting"
  /\ service' = "busy" /\ log' = Log(log.frames)
  /\ IF log.there THEN UNCHANGED snapshot ELSE Changing({"log"})
  /\ UNCHANGED <<main, commits, moments, backup, backups, restore, archives, volume>>

Commit(written) ==
  /\ service = "busy" /\ commits < MaxCommits
  /\ commits' = commits + 1
  /\ log' = Log(Over([p \in written |-> commits'], log.frames))
  /\ moments' = moments \cup {Content(main, log')}
  /\ Changing({"log"})
  /\ UNCHANGED <<service, main, backup, backups, restore, archives, volume>>

\* A page of the log is written back.
Checkpoint(p) ==
  /\ service = "busy" /\ p \in DOMAIN log.frames /\ main[p] # log.frames[p]
  /\ main' = [main EXCEPT ![p] = log.frames[p]]
  /\ Changing({"main"})
  /\ UNCHANGED <<service, log, commits, moments, backup, backups, restore, archives, volume>>

\* The last connection closes; a backup being copied holds one.
Close ==
  /\ service = "busy" /\ backup.at # "copying"
  /\ main' = Content(main, log) /\ log' = NoLog /\ service' = "resting"
  /\ Changing(IF main' = main THEN {"log"} ELSE {"main", "log"})
  /\ UNCHANGED <<commits, moments, backup, backups, restore, archives, volume>>

StopService ==
  /\ service = "resting"
  /\ service' = "down" /\ backup' = Pausing
  /\ UNCHANGED <<main, log, commits, moments, backups, restore, snapshot, archives, volume>>

\* The log stays; so does a backup's temporary file, which no listing shows.
Kill ==
  /\ service = "busy"
  /\ service' = "down" /\ backup' = Pausing
  /\ UNCHANGED <<main, log, commits, moments, backups, restore, snapshot, archives, volume>>

\* restore_database_backup: "The application must be stopped".
StartService ==
  /\ service = "down" /\ restore.at = "none"
  /\ service' = "resting"
  /\ UNCHANGED <<main, log, commits, moments, backup, backups, restore, snapshot, archives, volume>>

-----------------------------------------------------------------------------
(* create_database_backup, delete_database_backup *)

BeginBackup ==
  /\ service # "down" /\ backup.at = "none" /\ Cardinality(backups) < MaxCopies
  /\ service' = "busy" /\ log' = Log(log.frames)
  /\ IF log.there THEN UNCHANGED snapshot ELSE Changing({"log"})
  /\ backup' = [at |-> "copying", got |-> Nothing, since |-> commits]
  /\ UNCHANGED <<main, commits, moments, backups, restore, archives, volume>>

\* SQLite starts a backup again when the database changed between two steps of it.
StillCopied == IF backup.since = commits THEN backup.got ELSE Nothing

CopyPages(p) ==
  /\ backup.at = "copying" /\ p \notin DOMAIN StillCopied
  /\ backup' = [backup EXCEPT !.got = Over([q \in {p} |-> Content(main, log)[p]], StillCopied),
                              !.since = commits]
  /\ UNCHANGED <<databaseVars, backups, restore, snapshot, archives, volume>>

\* The last step found every page copied; the copy is checked.
FinishBackup ==
  /\ backup.at = "copying" /\ DOMAIN backup.got = Pages
  /\ backup' = [at |-> "checked", got |-> backup.got]
  /\ UNCHANGED <<databaseVars, backups, restore, snapshot, archives, volume>>

\* The copy, or an archive of it written beside it, takes its name in one step.
Published == {backup.got}

PublishBackup ==
  /\ backup.at = "checked"
  /\ \E file \in Published : backups' = backups \cup {file}
  /\ backup' = Pausing
  /\ UNCHANGED <<databaseVars, restore, snapshot, archives, volume>>

DeleteBackup(file) ==
  /\ service # "down" /\ backups' = backups \ {file}
  /\ UNCHANGED <<databaseVars, backup, restore, snapshot, archives, volume>>

-----------------------------------------------------------------------------
(* restore_database_backup *)

\* MUTANT: the log is not looked for.
LogIgnored == TRUE

\* A log beside the database refuses the restore.
LogAbsent == ~log.there

BeginRestore(file) ==
  /\ service = "down" /\ restore.at = "none" /\ LogAbsent
  /\ restore' = [at |-> "copying", from |-> file, got |-> Nothing]
  /\ UNCHANGED <<databaseVars, backup, backups, snapshot, archives, volume>>

CopyBack(p) ==
  /\ restore.at = "copying" /\ p \in DOMAIN restore.from \ DOMAIN restore.got
  /\ restore' = [restore EXCEPT !.got = Over([q \in {p} |-> restore.from[p]], @)]
  /\ UNCHANGED <<databaseVars, backup, backups, snapshot, archives, volume>>

\* The copy is checked and takes the database's place.
ReplaceDatabase ==
  /\ restore.at = "copying" /\ DOMAIN restore.got = Pages
  /\ main' = restore.got /\ restore' = Pausing
  /\ Changing({"main"})
  /\ UNCHANGED <<service, log, commits, moments, backup, backups, archives, volume>>

\* The restore fails or is killed; the database is as it was.
AbandonRestore ==
  /\ restore.at = "copying"
  /\ restore' = Pausing
  /\ UNCHANGED <<databaseVars, backup, backups, snapshot, archives, volume>>

-----------------------------------------------------------------------------
(* create_volume_snapshot, restore_volume_snapshot *)

BeginSnapshot ==
  /\ snapshot.at = "none" /\ Cardinality(archives) < MaxCopies
  /\ snapshot' = [at |-> "signing", signed |-> {}, changed |-> {}, log |-> NoLog, main |-> Nothing]
  /\ UNCHANGED <<databaseVars, backup, backups, restore, archives, volume>>

\* A missing log is signed as missing: its coming is a change.
SignFile(f) ==
  /\ snapshot.at = "signing" /\ f \notin snapshot.signed
  /\ snapshot' = [snapshot EXCEPT !.signed = @ \cup {f},
                                  !.at = IF snapshot.signed = {} THEN @ ELSE "main"]
  /\ UNCHANGED <<databaseVars, backup, backups, restore, archives, volume>>

\* The tree is walked in order: lums.db comes before lums.db-wal.
ArchiveMain ==
  /\ snapshot.at = "main"
  /\ snapshot' = [snapshot EXCEPT !.main = main, !.at = "log"]
  /\ UNCHANGED <<databaseVars, backup, backups, restore, archives, volume>>

ArchiveLog ==
  /\ snapshot.at = "log"
  /\ snapshot' = [snapshot EXCEPT !.log = log, !.at = "comparing"]
  /\ UNCHANGED <<databaseVars, backup, backups, restore, archives, volume>>

\* MUTANT: the signatures are not compared.
SteadyAnyway == TRUE

\* The signature is the one taken before.
Steady == snapshot.changed = {}

\* os.link publishes a finished archive and never replaces one.
PublishSnapshot ==
  /\ snapshot.at = "comparing" /\ Steady
  /\ archives' = archives \cup {[main |-> snapshot.main, log |-> snapshot.log]}
  /\ snapshot' = Pausing
  /\ UNCHANGED <<databaseVars, backup, backups, restore, volume>>

\* "Source tree changed during snapshot creation", another failure, or a kill.
AbandonSnapshot ==
  /\ snapshot.at # "none"
  /\ snapshot' = Pausing
  /\ UNCHANGED <<databaseVars, backup, backups, restore, archives, volume>>

\* The archive is extracted beside the target; killed, it leaves only that.
BeginExtraction(a) ==
  /\ volume = Pausing
  /\ volume' = [at |-> "extracting", from |-> a, main |-> Nothing, log |-> NoLog]
  /\ UNCHANGED <<databaseVars, backup, backups, restore, snapshot, archives>>

ExtractFile(f) ==
  /\ volume.at = "extracting"
  /\ volume' = [volume EXCEPT ![f] = volume.from[f]]
  /\ volume' # volume
  /\ UNCHANGED <<databaseVars, backup, backups, restore, snapshot, archives>>

Extracted == volume.main = volume.from.main /\ volume.log = volume.from.log

\* renameat2(RENAME_NOREPLACE)
PublishVolume ==
  /\ volume.at = "extracting" /\ Extracted
  /\ volume' = [volume EXCEPT !.at = "published"]
  /\ UNCHANGED <<databaseVars, backup, backups, restore, snapshot, archives>>

AbandonExtraction ==
  /\ volume.at = "extracting"
  /\ volume' = Pausing
  /\ UNCHANGED <<databaseVars, backup, backups, restore, snapshot, archives>>

-----------------------------------------------------------------------------

BackupsInit ==
  /\ service = "resting" /\ main = [p \in Pages |-> 0] /\ log = NoLog
  /\ commits = 0 /\ moments = {main}
  /\ backup = Pausing /\ backups = {} /\ restore = Pausing
  /\ snapshot = Pausing /\ archives = {} /\ volume = Pausing

BackupsNext ==
  \/ Open \/ Close \/ StopService \/ Kill \/ StartService
  \/ \E written \in SUBSET Pages \ {{}} : Commit(written)
  \/ \E p \in Pages : Checkpoint(p) \/ CopyPages(p) \/ CopyBack(p)
  \/ BeginBackup \/ FinishBackup \/ PublishBackup
  \/ \E file \in backups : DeleteBackup(file) \/ BeginRestore(file)
  \/ ReplaceDatabase \/ AbandonRestore
  \/ BeginSnapshot \/ ArchiveMain \/ ArchiveLog \/ PublishSnapshot \/ AbandonSnapshot
  \/ \E f \in {"main", "log"} : SignFile(f) \/ ExtractFile(f)
  \/ \E a \in archives : BeginExtraction(a)
  \/ PublishVolume \/ AbandonExtraction

BackupsSpec == BackupsInit /\ [][BackupsNext]_backupVars

-----------------------------------------------------------------------------
(* What is claimed *)

\* The database, whatever is restored over it and whenever it is killed, holds
\* what it held after some commit, never parts of two: a restore would lay the log
\* of the old database over the new.
DatabaseIsWhole == Content(main, log) \in moments

\* So does everything published from it: a backup taken page by page between
\* commits, a snapshot of a volume in use and a volume extracted from it.
CopiesAreWhole ==
  /\ backups \subseteq moments
  /\ \A a \in archives : Content(a.main, a.log) \in moments
  /\ volume.at = "published" => Content(volume.main, volume.log) \in moments

=============================================================================
