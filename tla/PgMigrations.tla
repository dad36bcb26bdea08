----------------------------- MODULE PgMigrations -----------------------------
(***************************************************************************)
(* The PostgreSQL schema: migration_runner.py and the migrations of        *)
(* server/migrations.  Runners, which may be of different releases, each   *)
(* take the session's advisory lock, validate the history, and apply what  *)
(* is pending, a transaction for every migration with its row of           *)
(* schema_migrations.  A runner that dies loses its lock and transaction.  *)
(***************************************************************************)
EXTENDS Naturals, Sequences

CONSTANT Runners

VARIABLES
  ledger,      \* schema_migrations: version -> the release whose statements ran
  schema,      \* the tables that are there
  lock,        \* the runner that holds the advisory lock
  runner       \* of every runner: release, where it is, what it has read, its transaction

pgVars == <<ledger, schema, lock, runner>>

Migration(needs, makes) == [needs |-> needs, makes |-> makes]

CoreSchema == Migration({}, {"clients", "update_jobs", "update_history"})
SecuritySchema == Migration({}, {"users", "audit_log", "login_rate_limits"})
RbacSchema == Migration({"users"}, {"roles", "user_roles", "user_permission_overrides"})
RbacSeed == Migration({"roles"}, {"system_roles"})
InfrastructureTopology ==
  Migration({"clients", "users"}, {"infrastructure_nodes", "infrastructure_relations"})
TelemetrySchema == Migration({"clients", "users"}, {"client_telemetry", "user_dashboard_settings"})
PackageSearches == Migration({"clients"}, {"package_search_requests"})
AlertsSchema == Migration({}, {"alert_rules", "alerts", "alert_history"})

\* The order of MIGRATIONS
Migrations ==
  <<CoreSchema, SecuritySchema, RbacSchema, RbacSeed, InfrastructureTopology,
    TelemetrySchema, PackageSearches, AlertsSchema>>

Versions == 1 .. Len(Migrations)

\* Releases before, at and after the last one, by the versions they register
\* and the text (so the checksum) they have for one: "edited" has another
\* text for version 5.
Registered(release) == IF release = "older" THEN 1 .. 6 ELSE Versions
Text(release, v) == IF release = "edited" /\ v = 5 THEN "other" ELSE "text"
Releases == {"older", "current", "edited"}

Unstarted == [at |-> "idle", applied |-> {}, next |-> 0]
Go(r, state) == runner' = [runner EXCEPT ![r] = [@ EXCEPT !.run = state]]
Run(r) == runner[r].run

-----------------------------------------------------------------------------

\* run_migrations begins and waits for pg_advisory_lock.
StartRun(r) ==
  /\ Run(r).at = "idle"
  /\ Go(r, [Unstarted EXCEPT !.at = "waiting"])
  /\ UNCHANGED <<ledger, schema, lock>>

\* MUTANT: the lock is shared.
FreeShared(r) == TRUE

Free(r) == lock = {}

Lock(r) ==
  /\ Run(r).at = "waiting" /\ Free(r)
  /\ lock' = lock \cup {r}
  /\ Go(r, [Unstarted EXCEPT !.at = "locked"])
  /\ UNCHANGED <<ledger, schema>>

\* _load_and_validate_history: registered, and with the same checksum.
Validates(r, v) ==
  v \in Registered(runner[r].release) /\ ledger[v] = Text(runner[r].release, v)

Recorded == {v \in Versions : ledger[v] # "none"}

LoadHistory(r) ==
  /\ Run(r).at = "locked"
  /\ IF \A v \in Recorded : Validates(r, v)
     THEN Go(r, [at |-> "applying", applied |-> Recorded, next |-> 1]) /\ UNCHANGED lock
     ELSE Go(r, Unstarted) /\ lock' = lock \ {r}
  /\ UNCHANGED <<ledger, schema>>

SkipApplied(r) ==
  /\ Run(r).at = "applying" /\ Run(r).next \in Run(r).applied
  /\ Go(r, [Run(r) EXCEPT !.next = @ + 1])
  /\ UNCHANGED <<ledger, schema, lock>>

Applies(r, v) ==
  /\ Run(r).at = "applying" /\ Run(r).next = v
  /\ v \in Registered(runner[r].release) \ Run(r).applied

Fits(v) ==
  Migrations[v].needs \subseteq schema /\ Migrations[v].makes \cap schema = {}

\* The statements and the row of the history, in one transaction.  A table that
\* is there, or one that is missing, fails it.
Apply(r) ==
  \E v \in Versions :
    /\ Applies(r, v)
    /\ Fits(v)
    /\ schema' = schema \cup Migrations[v].makes
    /\ ledger' = [ledger EXCEPT ![v] = Text(runner[r].release, v)]
    /\ Go(r, [Run(r) EXCEPT !.next = @ + 1])
    /\ UNCHANGED lock

\* The end of the list, an exception, or the runner's connection is lost.
EndRun(r) ==
  /\ Run(r).at # "idle"
  /\ Go(r, Unstarted)
  /\ lock' = lock \ {r}
  /\ UNCHANGED <<ledger, schema>>

-----------------------------------------------------------------------------

PgMigrationsInit ==
  /\ ledger = [v \in Versions |-> "none"]
  /\ schema = {} /\ lock = {}
  /\ runner \in [Runners -> {[release |-> release, run |-> Unstarted] :
                               release \in Releases}]

PgMigrationsNext ==
  \E r \in Runners :
    StartRun(r) \/ Lock(r) \/ LoadHistory(r) \/ SkipApplied(r) \/ Apply(r) \/ EndRun(r)

PgMigrationsSpec == PgMigrationsInit /\ [][PgMigrationsNext]_pgVars

-----------------------------------------------------------------------------
(* What is claimed *)

\* What a runner read of the history holds when it applies a migration, however
\* many ran, died or were of another release: the statements fit the schema, and
\* each migration that is there is one its release knows, with the same text.
AppliesToKnownSchema ==
  \A r \in Runners : \A v \in Versions :
    Applies(r, v) =>
      /\ Fits(v)
      /\ \A w \in Recorded :
           w \in Registered(runner[r].release) /\ ledger[w] = Text(runner[r].release, w)

=============================================================================
