------------------------------- MODULE Startup -------------------------------
(***************************************************************************)
(* The start of the server's container with SQLite: docker-entrypoint.sh   *)
(* runs init_db.py, security_migration.py, the migrations of packages,     *)
(* logins and searches and the two of the SOC, and then serves.  A unit is *)
(* what one marker of schema_migrations stands for, or a part without one. *)
(* A statement that defines a table or a column commits on its own; rows   *)
(* and the marker are committed together.  `set -e` ends the start at the  *)
(* first failure, and the container is started again.                      *)
(* Columns and indexes are named where another unit needs them.            *)
(***************************************************************************)
EXTENDS Naturals, Sequences

VARIABLES
  at,         \* the unit that runs, 0 while the container is down
  tables,     \* tables and columns that are defined
  recorded,   \* schema_migrations
  enabled,    \* whether the administrator's account is enabled
  rights,     \* its rows in user_permissions, from 018 on those of its role
  taken       \* history: rights it was given, and has no more

startupVars == <<at, tables, recorded, enabled, rights, taken>>

\* A unit: what it needs, the definitions it makes, the rights it gives, whether
\* it has a marker, and whether it is one transaction.
Unit(needs, makes, gives) ==
  [needs |-> needs, makes |-> makes, gives |-> gives, marked |-> TRUE, whole |-> FALSE]

Unmarked(unit) == [unit EXCEPT !.marked = FALSE]
Whole(unit) == [unit EXCEPT !.whole = TRUE]

Tables(needs, makes) == Unit(needs, makes, {})
Grant(gives) == Unit({"users", "role", "user_permissions"}, {}, gives)

BaseRights == {"clients.view", "users.manage"}
LaterRights == {"backups.manage", "system.update", "infrastructure.manage", "alerts.manage"}

\* Handing out permissions, which no role has by default.
Delegation == "permissions.manage"
Rights == BaseRights \cup LaterRights \cup {Delegation}

\* PERMISSION_DEPENDENCIES: these depend on all of BaseRights.
Dependent == {Delegation, "system.update", "infrastructure.manage"}
HasNeeds(selected) == selected \cap Dependent # {} => BaseRights \subseteq selected

-----------------------------------------------------------------------------

InitDb == Unmarked(Tables({}, {"clients", "update_jobs"}))

SecurityTables ==
  Unmarked(Tables({}, {"users", "audit_log", "schema_migrations", "system_update_jobs"}))

V001 == Tables({"clients"}, {"client_token_hash", "enabled"})
V002 == Tables({"users"}, {"role"})

\* The defaults of every role, as the release that runs it has them.
V003 == Unit({"users", "role"}, {"user_permissions"}, BaseRights \cup LaterRights)

V004 == Tables({"users"}, {"admin_note"})
V005 == Grant({"backups.manage"})
V006 == Tables({"users"}, {"language"})
V007 == Tables({"users"}, {"user_functions", "function_id"})
V009 == Tables({"clients"}, {"client_telemetry"})
V010 == Tables({"client_telemetry"}, {"recorded_at_index"})
V011 == Tables({"client_telemetry"}, {"network_bytes"})
V012 == Tables({"clients"}, {"client_system_status"})
V013 == Tables({"client_telemetry", "users"}, {"disk_percent", "user_dashboard_settings"})
V014 == Tables({"clients"}, {"client_telemetry_events"})
V015 == Grant({"system.update"})
V016 == Unit({"users", "clients", "role", "user_permissions"},
             {"infrastructure_nodes", "infrastructure_relations"}, {"infrastructure.manage"})
V017 == Grant({"alerts.manage"})

\* What it does to rights depends on the accounts: RecordRbac, LeavePending.
V018 == Whole(Tables({"users", "role", "user_permissions"}, {"roles"}))

PackageManagement == Tables({"update_jobs"}, {"action"})
LoginLimits == Tables({}, {"login_rate_limits"})
PackageSearchTable == Tables({"clients"}, {"package_search_requests"})
SocStorage == Unmarked(Whole(Tables({}, {"soc_event_inbox", "soc_incidents"})))
SocWorker == Whole(Tables({"soc_event_inbox"}, {"claim_token", "recovery_index"}))

\* The entrypoint's order, and that of run_migration.
Order ==
  <<InitDb, SecurityTables, V001, V002, V003, V004, V005, V006, V007, V009, V010,
    V011, V012, V013, V014, V015, V016, V017, V018, PackageManagement, LoginLimits,
    PackageSearchTable, SocStorage, SocWorker>>

Units == 1 .. Len(Order)
ServerRuns == Len(Order) + 1
MayStayPending == {i \in Units : Order[i] = V018}

-----------------------------------------------------------------------------

\* MUTANT: rights are given on every start, INSERT OR IGNORE being harmless.
PendingOrGrants(i) == i \notin recorded \/ Order[i].gives # {}

\* migration_already_applied
Pending(i) == ~Order[i].marked \/ i \notin recorded

Skip ==
  /\ at \in Units /\ ~Pending(at)
  /\ at' = at + 1
  /\ UNCHANGED <<tables, recorded, enabled, rights, taken>>

Runs(i) == at = i /\ Pending(i) /\ Order[i].needs \subseteq tables

\* CREATE TABLE IF NOT EXISTS, add_column_if_missing
Define(d) ==
  /\ at \in Units /\ Runs(at) /\ ~Order[at].whole
  /\ d \in Order[at].makes \ tables
  /\ tables' = tables \cup {d}
  /\ UNCHANGED <<at, recorded, enabled, rights, taken>>

\* MUTANT: the marker is committed before the unit's definitions are made.
MayRecordEarly(i) == TRUE

MayRecord(i) == Order[i].whole \/ Order[i].makes \subseteq tables

Marker(i) == IF Order[i].marked THEN {i} ELSE {}

ChangeRights(new) ==
  /\ rights' = new
  /\ taken' = (taken \cup rights) \ new

\* The unit's rows, record_migration, commit
CommitUnit(new) ==
  /\ Runs(at) /\ MayRecord(at)
  /\ tables' = IF Order[at].whole THEN tables \cup Order[at].makes ELSE tables
  /\ ChangeRights(new)
  /\ recorded' = recorded \cup Marker(at)
  /\ at' = at + 1
  /\ UNCHANGED enabled

\* INSERT OR IGNORE of the rights the unit gives
Record ==
  /\ at \in Units \ MayStayPending
  /\ CommitUnit(rights \cup Order[at].gives)

\* migrate_custom_rbac takes the delegation from an account that may not have it ...
MayDelegate == enabled /\ BaseRights \subseteq rights
Cleaned == IF MayDelegate THEN rights ELSE rights \ {Delegation}

\* ... and gives it to the first that may when nobody has it.  Which account that
\* is, and who else has it, lies with the other accounts.
RecordRbac ==
  /\ at \in MayStayPending
  /\ \/ CommitUnit(Cleaned)
     \/ MayDelegate /\ CommitUnit(rights \cup {Delegation})

\* No account may have the delegation: only the cleanup is committed, and 018 is
\* left for the next start.
LeavePending ==
  /\ at \in MayStayPending /\ Runs(at)
  /\ ~MayDelegate
  /\ ChangeRights(Cleaned)
  /\ at' = at + 1
  /\ UNCHANGED <<tables, recorded, enabled>>

\* A crash, a failure of a unit (a locked database, say) or docker stop.
StopContainer ==
  /\ at # 0
  /\ at' = 0
  /\ UNCHANGED <<tables, recorded, enabled, rights, taken>>

StartContainer ==
  /\ at = 0
  /\ at' = 1
  /\ UNCHANGED <<tables, recorded, enabled, rights, taken>>

\* By hand, in the database of a container that is down: no handler writes it.
SetEnabled ==
  /\ at = 0
  /\ enabled' = ~enabled
  /\ UNCHANGED <<at, tables, recorded, rights, taken>>

\* update_user_permissions: whoever has the delegation decides on a selection that
\* is complete.  From 018 on somebody has it, before that nobody while a server serves.
SelectRights(selected) ==
  /\ at = ServerRuns /\ MayStayPending \subseteq recorded
  /\ HasNeeds(selected)
  /\ ChangeRights(selected)
  /\ UNCHANGED <<at, tables, recorded, enabled>>

-----------------------------------------------------------------------------

MadeBy(units) == UNION {Order[i].makes : i \in units}
GivenBy(units) == UNION {Order[i].gives : i \in units}
Marked(last) == {i \in 1..last : Order[i].marked}

\* The database of an older release, which knew the units up to one of them and
\* whose V003 gave what its own units gave, or none.  Before 018 any account may
\* have the delegation.
StartupInit ==
  /\ at = 0
  /\ enabled \in BOOLEAN
  /\ \E last \in 0 .. Len(Order) :
       /\ recorded = Marked(last) /\ tables = MadeBy(1..last)
       /\ LET given == IF 5 \in recorded THEN BaseRights \cup GivenBy(recorded \ {5}) ELSE {}
              more  == IF 5 \in recorded THEN {Delegation} ELSE {}
          IN rights \in SUBSET (given \cup more) /\ taken = given \ rights
  /\ MayStayPending \subseteq recorded /\ Delegation \in rights =>
       BaseRights \subseteq rights

StartupNext ==
  \/ Skip \/ Record \/ RecordRbac \/ LeavePending
  \/ StopContainer \/ StartContainer \/ SetEnabled
  \/ \E d \in MadeBy(Units) : Define(d)
  \/ \E selected \in SUBSET Rights : SelectRights(selected)

StartupSpec == StartupInit /\ [][StartupNext]_startupVars

-----------------------------------------------------------------------------
(* What is claimed *)

\* Wherever starts were cut short: no unit runs before the tables it needs are
\* there, which would end every start, and a server that serves has all of
\* them, with every marker but that of 018, which may wait.
SchemaIsReady ==
  /\ at \in Units => Order[at].needs \subseteq tables
  /\ at = ServerRuns =>
       /\ Marked(Len(Order)) \ MayStayPending \subseteq recorded
       /\ MadeBy(Units \ MayStayPending) \subseteq tables

\* A right the administrator was given and has no more is not given back by a
\* start, of this release or of a later one, with one exception: 018 may give the
\* delegation, when it is recorded, which is once, and to an enabled account
\* that manages users and sees clients.
TakenStaysTaken ==
  [][\A r \in taken : at \in Units /\ r \in rights' =>
       /\ r = Delegation /\ MayDelegate
       /\ ~(MayStayPending \subseteq recorded) /\ MayStayPending \subseteq recorded']_startupVars

=============================================================================
