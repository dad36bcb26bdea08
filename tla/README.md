# LUMS in TLA+

A verification project for LUMS, the Linux Update Management System: TLA+ models
of its components, TLC runs over small instances, and TLAPS proofs for every
value of the constants. Paths are relative to the repository; `app.py` is
`server/app.py`.

## 1. Inventory

LUMS is a Flask server under gunicorn (2 processes x 2 threads) with SQLite or
PostgreSQL, an agent and a watcher on every Linux machine, a SOC pipeline inside
the server, and a host updater beside its container.

| Component | State it keeps | Operations | Talks to | What makes it correct |
|---|---|---|---|---|
| Update-job store (`app.py`, `init_db.py`) | `update_jobs`, `update_job_packages`, `update_history`, `available_updates`, `clients.enabled` | create, claim, checkpoint, result, abandon, report, disable | operators, agents, watchers | a job is created, started and finished once, with one history row; status, counts and package rows agree; only its owner changes it |
| Agent and watcher (`agent/agent.py`, `watcher.py`) | the job at hand and the results so far, in memory | find running, find pending, claim, run packages, checkpoint, report | the store, the package manager | only claimed jobs run; what is recorded has happened; every job ends |
| Self-update queue (`app.py`) | `system_update_jobs` with a progress log | claim, progress, roll back, complete, fail | host-updater workers | one active update; steps in order; approval first |
| Package search (`app.py`, `postgres_package_search.py`, `agent.py`) | `package_search_jobs`, client tokens | create, claim, result, rotate, disable | operators, agents | a search ends once, and one agent runs it |
| Users and roles (`app.py`, `security.py`, `postgres_rbac.py`, `security_migration.py`) | users, roles, permissions, overrides | create, change, delete, migrate | every handler | somebody can always manage users and permissions; rights are what was chosen |
| Logins (`app.py`, `security.py`, `postgres_login.py`) | failure counters, locks, sessions | log in, fail, lock, log out | browsers | a lock holds against every attempt that looks after it; a session belongs to a current account |
| SOC inbox and worker (`server/soc/collector_*.py`, `worker.py`) | `soc_event_inbox` with status, attempts, claim token | ingest, claim, recover, process, fail | collectors, incident store | every event is processed once or given up after its attempts |
| SOC analysis (`pipeline.py`, `deduplication.py`, `correlation.py`, `incident_builder.py`) | none: a function | analyse a batch | the worker | duplicates explained, windows exact, incidents independent of order |
| SOC incidents (`incident_store.py`, `incidents.py`) | incidents, evidence, history | save, save again, append, transition | worker, operators | saving again changes nothing; the history tells the status |
| SOC admission (`soc/admission.py`, `trusted_time.py`, `crl_validation.py`) | active list, deadline, time readings | recover, refresh, admit, restart | TLS servers, a time source | nothing is admitted after the end of the revocation list |
| Alerts (`alerts.py`, `alerts_routes.py`, `postgres_alerts.py`) | rules, alerts, history | edit a rule, trigger, escalate, acknowledge, resolve | operators | the history of an alert explains it; an edit is not undone, an alert not raised by an old rule |
| Telemetry (`app.py`, `postgres_telemetry.py`) | samples, snapshots, events | ingest, record events, expire, list | agents, pages | an event per failure; the list tells what is, or is full of what is newer |
| Topology (`app.py`, `postgres_infrastructure.py`) | nodes, relations | create, delete, show | operators | no relation without its ends, none twice |
| Start and migrations (`docker-entrypoint.sh`, `init_db.py`, `*_migration.py`, `migration_runner.py`) | tables, markers, rights; advisory lock and history | define, record, apply | the databases | a start cut short anywhere can be continued; no migration on a schema it does not fit |
| Backups (`database_backup.py`, `scripts/volume_snapshot.py`) | the database with its log, backups, archives | back up, restore, snapshot, extract | file system, SQLite | every copy holds what the database held after some commit |
| Agent platform layer, upgrade script, audit log and health pages, translations and pages | - | - | - | not modelled, see section 6 |

The behaviours that are hard:

- SQLite handlers read before their transaction begins, so a verdict may be stale
  when it is used; PostgreSQL handlers look again inside the transaction, mostly with
  the row locked, but at the login limit without any lock. Where the two databases
  differ, a module has a variable that says which one it is.
- Agent and watcher are independent services that share no lock and may execute
  the same job; the watcher resumes a running job without a claim.
- A machine, a program or a server process may die between any two steps, and an
  answer may be lost after the server has acted.
- SOC claims expire while their worker may still be at work.
- Definitions of a SQLite schema commit one by one; rows and markers do not.
- A database in WAL mode is two files, and copies are taken while it is in use.

`PROJECT.json` lists every such hazard at its line with the properties that watch it.

## 2. Modules

Every module states what is left out in its opening comment. `...Props` modules
hold the claims of a component, `...Proofs` modules its theorems; where there is
no `...Props` module the claims end the component's module.

### Update jobs: `UpdateJobs`, `UpdateJobsProps`, `JobLifecycle`

The variables are the tables (`jobs` holds `update_jobs` with its
`update_job_packages` rows, `history` is `update_history`, `available` is
`available_updates`, `enabled` is `clients.enabled`) and, for every server
thread, the `request` it carries and how far it has come (`pc`). A handler is

- `Arrive`: token check (`client_auth_required`) and validation of the body
  (`WellFormed`), against the state at that moment only;
- `...Check`: the handler's SELECTs with all its refusals (`Admissible`, `Refuse`);
- `...Write`: the transaction, all of it or nothing (`Conflict` is the rollback
  when the guarded UPDATE of a result or an abandonment meets a job that is no
  longer running).

Between any two of these, every other thread may act, a client may be disabled
(`DisableClient`) and the thread may die with its uncommitted work (`Die`).
`claim_update_job` reads inside `BEGIN IMMEDIATE` and is one step.
`update_job_checkpoint` writes without looking at the status again, and so does
the model. SQLite's single writer makes a transaction one step; a busy timeout
(a 500 with nothing written) has the effect of `Die`.

`JobLifecycle` is the abstract promise: phases created - running - finished and an
append-only log with one entry per finish. `UpdateJobsProps` maps the store to
it (`Phase`, `Log`) and states `ImplementsLifecycle`.

### Agent and watcher: `UpdateExecution`, `UpdateExecutionProps`

`UpdateExecution` EXTENDS the store and adds the programs: `proc` is the local
state of an agent or a watcher, `ran` records what the package manager really did
(it exists only in the model, to compare with what the server records). One
action per stretch between two requests: `Wake`, `FindRunning`, `ReadPackages`
(the second SELECT of `get_running_update_job`), `FindPending`, `SkipPackage`,
`StartPackage`, `PackageEnds`, `SystemEnds`, `AllPackagesDone`, `Send`,
`TurnedAway`. A request is carried by a thread of the store; the step that ends it
answers the program (`ThreadGrants`, `ThreadRecords`, `ThreadFinishes`,
`ThreadRefuses`). Faults: `Crash` (program or machine), `LoseAnswer` (the program
gives up, the request lives on), `WorkerDies`, `OperatorDisables`.

The results of a program are produced in row order, which the model keeps by
naming packages with numbers. The idle check is a choice (idle or not).

### Self-update queue: `HostUpdateJobs`, `HostUpdateJobsProps`

Every handler under `/api/host-updater/jobs` is one `BEGIN IMMEDIATE`
transaction and one action: `Claim`, `Progress`, `StartRollback`, `Complete`,
`Fail`. The workers are left entirely open: any worker id may send any request
at any time, which covers a lost worker, a restarted one with its old id, and
repeated requests. `Queue` is external: the repository's own
`request_system_update` refuses to create a job; the tests insert rows, and so
does `Queue`, approved or not.

### The SOC

- `SocInbox`: registration and revocation of collectors, the two steps of an
  upload (`Identify`, `IngestBatch`), claims with stale recovery (`ClaimNext`,
  `Recovered`), the end of an event (`Finalize`, `RecordFailure`, `LoseClaim`), and
  workers that die. What a worker makes of its event is open. `SocEventLifecycle`
  is the abstract promise, queued - processed or given up with bounded tries, and
  `SocInboxProps` maps the inbox to it.
- `SocAnalysis`: deduplication, detection, grouping, sliding windows and incident
  identity as operators; the two loops that carry state (`Deduplicate`, `LeftEdges`)
  are recursive functions, a sort is the enumeration of a set by rank (`Ordered`).
  `SocAnalysisProps` builds every small batch and compares the sliding window with
  a definition without loops.
- `SocIncidents`: saving (`SaveMany`, a batch or nothing), appending, `Transition`.
- `SocPipeline` composes the three: `EvaluateClaim` reads the processed rows of
  the window, `FinalizeClaim` saves the incidents and marks the row in one
  transaction, and other workers act in between; `InstallCatalog`, `StartWorker` and
  `Operate` change rules and incidents meanwhile. `EventOf` adds the collector's id of
  an event to its fields unless the payload has that field already
  (`_payload_for_engine`), so two events may have the same content, and the analysis
  keeps one of them: what is promised of the other is an incident of its twin.
- `SocAdmission`: the controller's methods as actions over `boottime`, the time
  `provider` with its last synchronisation and reading, the `controller` with its
  list and deadline, and whether the last connection was `admitted`. The provider may
  read a wall clock that is wrong or was set back, or none; a recovery's verifier
  takes time (`StartVerification`, `CompleteRecovery`).

### What users do: `Rbac`, `UserAccounts`, `Logins`, `Alerts`, `Topology`

- `Rbac` is how a selection of permissions is stored and what is effective, in the
  old schema, with custom roles and on PostgreSQL. `UserAccounts` builds on it:
  authorisation is `ReadRole` and `ReadOverrides`, the handler a later step
  (`CreateUser`, `UpdatePermissions`, `DeleteUser`); `Migrate018` is migration 018.
- `Logins`: an attempt is `CheckLimit`, `VerifyPassword`, on PostgreSQL `LookAgain` or
  `RefuseLocked` in the transaction of the verdict, and then `CountFailure` or `Succeed`.
  The last look at the limit is a plain SELECT under READ COMMITTED, so another attempt
  may commit a lock between it and the verdict: these are steps of their own, and
  `racing` remembers which attempts a lock found past their last look. Only the row of
  an account that is admitted is locked (`RowLocked`). Locks expire and accounts are
  deleted and created anew.
- `Alerts`: on SQLite a thread's manager loads rules and alerts first and decides by
  them later. On PostgreSQL editing a rule and raising an alert read the rule
  (`PgReadRule`, FOR UPDATE or FOR SHARE) and write later in the transaction
  (`PgUpdateRule`, `PgTrigger`, or `PgRollBack`); what keeps others away in between is
  the lock (`InTheWay`) and nothing else. The other handlers are one statement that
  decides, or hold the row of the alert.
- `Topology`: the creation of a relation looks up both ends (`FindEnd`), then a
  duplicate (`FindDuplicate`), then inserts; a page reads nodes and relations one
  after the other.

### What machines do: `Telemetry`, `PackageSearch`, `Startup`, `PgMigrations`, `Backups`

- `Telemetry`: reading the last snapshot and saving are two steps on SQLite and one on
  PostgreSQL, and a request may have no snapshot. `Listed` is the list a page shows: the
  newest `MaxListed` of the events computed from samples (`EventsFromRows`) and of the
  recorded ones, with what the last snapshot says and none of them shows
  (`StillFailed`), again cut to the newest.
- `PackageSearch`: every request is sent by an agent process, identified, and served
  later; the agent gives up after its timeout and then reports a failure.
- `Startup`: the scripts of the entrypoint as units with what they need, define and
  grant; `Define` commits one definition, `Record` rows and marker together, and
  `StopContainer` cuts a start short anywhere. The rights are those of the first
  administrator. Migration 018 takes the delegation (`permissions.manage`) from an account
  that may not have it and gives it to the first that may when nobody has it
  (`RecordRbac`), or is left for the next start (`LeavePending`); whether the account is
  enabled may change while the container is down (`SetEnabled`).
- `PgMigrations`: runners of an older, the current or an edited release under one
  advisory lock.
- `Backups`: pages carry the number of the commit that wrote them; the service commits
  to its log, checkpoints, stops or is killed (`Kill` leaves the log), while backups,
  restores, snapshots and extractions go page by page or file by file.

### Model-checking modules

`MC...` modules give the constants values and divide a run into scenarios or parts.
A behaviour belongs to one (`scenario` or `part` is chosen at the start and never
changes). The parts of `MCSoc`, `MCAdministration` and `MCOperations` are
components that share no row that matters to another, so no property relates
them: exploring them side by side in one run finds every behaviour of each and
not their product, the others staying as they begin. Components that do interact
are composed: `UpdateExecution` on `UpdateJobs`, `SocPipeline` on `SocInbox`,
`SocAnalysis` and `SocIncidents`, `UserAccounts` on `Rbac`.

## 3. Runs

| Run | Instance | Shows |
|---|---|---|
| `update_jobs` | three scenarios, two threads: two clients and a job; a job on two packages with every handler; two jobs | one history row per ended job, counts explain the status, package rows follow it, only the owner changes a job, refinement of `JobLifecycle` |
| `execution_faults` | agent and watcher, two packages, two faults of four kinds | what is recorded happened; a success is complete |
| `execution_ends` | agent and watcher with one fault, or the watcher alone with two, fairness | every created job ends; the watcher alone repeats nothing |
| `soc` | every batch of up to three events; two incidents with two pieces of evidence; two collectors; two workers on two events | the algorithms agree with their definitions; nothing is rewritten; what is accepted is stored; a fresh claim is safe; refinement of `SocEventLifecycle` |
| `soc_inbox_settles` | two workers that may crash for ever, fairness | every event is processed or given up |
| `soc_pipeline` | two workers whose claims expire; one that may crash while rules change and an operator acts; one alone with late events; two workers and one event sent under two ids (`twins`) | incidents rest on processed events; no detection is lost, though it may be that of an event with the same content; alone no burst is lost |
| `administration` | accounts, logins, alerts, topology, two threads, both databases | `SomebodyStaysInCharge`, `RightsAreKept`, `LocksHold`, `SessionsAreCurrent`, `AlertHistoryTells`, `RulesAreCurrent`, `TopologyHolds` |
| `operations` | telemetry, searches, self-updates, starts, PostgreSQL runners, backups, admission | `OneEventPerFailure`, `ListTells`, `SearchesEndOnce`, `OneActiveUpdate`, `StartedInOrder`, `StepsInOrder`, `SchemaIsReady`, `TakenStaysTaken`, `AppliesToKnownSchema`, `DatabaseIsWhole`, `CopiesAreWhole`, `AdmitsInTime` |
| `execution_repeats` | agent and watcher, no fault | **violated**: a recorded success is executed again |
| `execution_system_never_ends` | watcher, whole-system job, fairness | **violated**: the job never ends |
| `soc_pipeline_burst_lost` | two workers, nothing goes wrong | **violated**: a burst raises no incident |
| `soc_pipeline_reworded` | one worker, a rule worded anew | **violated**: evaluating an event again builds its incident with other content |

The largest is `operations` with 2.0 million distinct states; `administration` has
156 thousand and `soc` 131 thousand.

### Bounds

Every bound is a constant, named in its module and used in guards.

- Two threads (programs, workers, runners) give every race of two handlers on one
  row; the guards of a third could only be read between the same writes.
- `MaxJobs`: the properties relate a job to its history or two jobs to one another.
  Two packages give every derived status. `timeout` decides everywhere like another
  non-success, so the runs use success and failed. `MaxFaults` limits the faults of a
  behaviour.
- `MaxResults` is 100 in the code and `KeepProgress` too; what matters is whether a job
  or a log is longer, so they are 2 and 6 (a walk through the steps has up to 7
  entries, so logs are cut).
- SOC batches of three events at times 0, 1, 3, 5 with a window of 3 and an inactivity
  of 2 meet both limits exactly and miss them by one; two attempts have a first and a
  last; incidents keep up to three history entries.
- `MaxFailures` is 7: five lock, and two threads meet the lock and race with it. `MaxAccountIds` is 2, a
  deleted account and its successor.
- One node, two relations, a client: a self-relation, a duplicate and a relation that
  loses its end. `MaxTokens` and `MaxCalls` are 2: a rotated token, a request
  that was given up and the one after it.
- `MaxListed` is 2 where the code has 500: three samples make up to three threshold events
  beside the recorded ones, so each of the three cuts cuts something, and a service that
  is failed is pushed off the list in some states.
- `Startup` begins with the database of an older release that knew a first part of today's
  units; a database that had a later unit before an earlier one is not among them.
- Two pages are the least that can be torn; two commits make two that differ.
- Admission takes ticks up to `MaxClock` 5 and two lists, which end after 4 (its own
  end less nothing) and 5 (its age), with wall clocks up to two ticks behind and one
  ahead.

Symmetry is used in safety runs only. `CHECK_DEADLOCK FALSE` appears where the system
may stop or the bounds end it: a disabled machine, revoked collectors, a worker
without work, the limits on what is created.

### Fairness

- `FairSpec` of `UpdateExecution`: weak fairness of every program (the timers fire every
  15 minutes and 30 seconds, package operations and requests have timeouts), weak
  fairness of every thread (gunicorn finishes or kills a request), strong fairness of
  claiming (a machine with a pending job is found idle again and again).
- `FairSpec` of `SocInbox`: workers are restarted and go on, claims grow stale when their
  time has come, and strong fairness of claiming, for workers take turns.
- Faults are never required and never prevented, up to their bounds.

## 4. Disagreements and other observations

The violated runs:

- `execution_repeats`: the watcher's recovery (`agent/watcher.py:99`) cannot tell a job
  abandoned by a dead program from one the agent is executing now. Both run the
  packages. The administration guide (section 50) says a recorded success must not
  be executed again; the watcher alone keeps this promise (`AloneRepeatsNothing`).
- `execution_system_never_ends`: `run_system_update` (`agent/agent.py:1655`) reports one
  entry with `"package": None`; the server wants none from a whole-system job.
- `soc_pipeline_burst_lost`: the history is read before the transaction and holds earlier
  rows only (`worker.py:294`); events held by two workers at once are never
  evaluated together, though the comment at `worker.py:374` says correlation crosses batches.
- `soc_pipeline_reworded`: the same comment says that deterministic incident ids and evidence
  inserts make re-evaluation idempotent. Ids are made of the ids of rule and events,
  contents of the rule's name as well: after a rule is worded anew and the worker
  restarted, a processed event that is evaluated again as history has an incident of the
  old id and new content. `_validate_incident_identity` refuses it, and the transaction of
  the current event, which has nothing to do with it, is rolled back at each of its
  attempts. While the rules stay the same, re-evaluation is idempotent.

Seen while modelling, and not stated as runs because no document promises otherwise or
the models state what does hold:

- A job may be created with more packages than a result may list (`app.py:5628`); such
  a job is executed again and again. The passing liveness run keeps to the limit.
- A checkpoint's status check (`app.py:5382`) is outside the transaction that writes, so
  it may change a package row of a finished job; `RecordsAreTrue` and
  `RowsFollowStatus` bound what can come of it.
- A job on a client that is disabled stays running.
- With SQLite, and not with PostgreSQL: a relation may be created twice, a failure may be
  recorded twice, and an edit of an alert rule may write back what another edit changed
  (`alerts_routes.py`). The properties say so by naming the database.
- A login limit that is locked does not stop attempts that have looked before: with SQLite
  from the first look on, with PostgreSQL from the look inside the transaction on
  (`postgres_auth.py:83` takes no lock). Such an attempt is counted once more, or
  admitted, and then the limit is cleared with the lock in it. `LocksHold` says that it is
  only these, and each once.
- A service that has been failed for long is pushed off the list of events by 500 newer
  events: its recorded event keeps `client_telemetry_events` from adding it anew and is
  then cut off. `ListTells` allows for a full list and nothing else.
- A start may give the delegation back: migration 018 may have taken it and stayed pending,
  and a later start, after the account was enabled, gives it
  (`tests/test_custom_rbac_migration.py:706`). `TakenStaysTaken` names this one exception.
- An agent that dies during a search leaves it running.
- Reading the dashboard settings rewrites settings that were read outside a transaction
  (`app.py:4105`).
- `server/static/backup-restore.md`: its `docker cp` of `lums.db` alone omits a log that
  a killed service left.
- `restore_database_backup` is called by tests only, and `run_migrations` and
  `AdmissionController` have no caller in the server; they are modelled as their
  modules and tests define them.
- The safety margin of admission must cover the error of the synchronisation and the
  tolerance between clocks for a connection never to be admitted after the real end
  of a list: `AdmitsInTime` states this bound exactly.

## 5. Proofs

All theorems hold for every value of the constants, from the named ASSUMEs of the
modules and nothing else. These are: ids of absent things are not ids; sets of packages,
permissions and users are finite; bounds are numbers; batches are sequences of events;
the permissions in use contain what they depend on; instants are integers; the
internal id of an event is an integer and differs between events (it is a digest
in the code); a catalog has finitely many correlation rules, whose windows, inactivity
limits and minimum counts are positive (`correlation.py` refuses others); the worker of
the scenarios with one worker is a worker. TLC evaluates each on the runs.

| Module | Theorems | The argument |
|---|---|---|
| `UpdateJobsProofs` | `TypeCorrect`, `HistoryIsExact`, `PendingStaysUntouched`, `ResultsAreDecided`, `RowsFollow`, `EmptyJobs`, `CountsAreExplained`, `OnlyOwner`, `LifecycleImplemented` | verdicts that are stale and still sound, see below |
| `UpdateExecutionProofs` | `RecordsStayTrue`, `SuccessStaysComplete`, `ExecutionUsesStore`, `ExecutionLifecycle`, `AloneNeverRepeats` | what a program, a request and a row say was done, see below |
| `StorageProofs` | `AlwaysAppliesToKnownSchema` | one runner holds the lock, the history is a first part of the list, the schema is what it makes, and who applies has read all of it |
| | `SchemaGetsReady`, `TakenRightsStayTaken` | the units before the current one have left all they define, however often they were cut short (`Passed`); a right that was taken was given by units whose markers are recorded, and these do not run again, or is the delegation, which no unit gives but 018 (`TakenFrom`) |
| | `DatabaseStaysWhole`, `CopiesStayWhole` | see below |
| `AdministrationProofs` | `SomebodyAlwaysInCharge`, `RightsAlwaysKept` | what is effective is the largest valid part of a set (lemmas on `Effective`); accounts have roles (`HaveRoles`), and no overrides before migration 018 (`NoOverridesYet`); `MayLose` asks inside the transaction, so stale authorisation does no harm |
| | `LocksAlwaysHold`, `SessionsAlwaysCurrent` | `LoginsInv`: under a lock whoever is past its last look is one the lock found there (`RacersKnown`), and while a row is locked for admission nobody else has it and the account stays as it was verified (`RowsHeld`); only `CountFailure` and `Succeed` give a verdict |
| | `TopologyAlwaysHolds` | ends exist (`EndsThere`), none twice (`NoneTwice`), a page sees one moment (`MomentsWhole`) |
| | `HistoryTells`, `RulesStayCurrent` | a step moves one rule or one alert, and every write of an alert writes the history row that tells it (`AllTell`); managers loaded earlier are of SQLite (`ManagersOfSqlite`); what a transaction has read of a rule is still its row (`ReadingsAreCurrent`), since locks that exclude one another are not held together (`LocksExclude`) |
| | `HistoryAlwaysTells`, `NothingEverRewritten` | every operation on incidents writes a row that is `Good` (its history tells its status) and `Keeps` what the old one says |
| `OperationsProofs` | `TypeCorrect`, `OneActive`, `InOrder`, `StepOrder`, `CompletedWhole`, `FinalRows` | each handler is a `Moves` step on one row, a claim or the owner's work on an active job; `RowInv` (the log is a walk, ends where the status says, and if uncut shows every step) is kept by each, `LoggedIs` says what cutting does |
| | `SearchesAlwaysEndOnce` | agents and reports name claimed searches (`AgentsClaimed`, `ReportsClaimed`), no two agents the same (`OwnSearch`) |
| | `FailuresRecordedOnce` | the last snapshot tells whether the last failure is over (`StatusTells`) |
| | `ListAlwaysTells` | samples stay in the order of time whatever the order of saving (`TelemetrySound`, `InsertedIs`), and the loop over them is followed round by round (`EventsTell`); a sorted list is a permutation of its rows (`SortedIs`), so what its first `MaxListed` do not show is no newer than any of them (`NewestIs`), and a part that is full of newer events fills the whole (`NewestFull`) |
| | `AlwaysAdmitsInTime` | see below |
| `SocInboxProofs` | `TypeCorrect`, `FreshClaimAlwaysSafe`, `AcceptedAlwaysStored`, `InboxImplementsLifecycle` | claims are apart, see below |
| `SocAnalysisProofs` | `WindowsAlwaysRight`, `DuplicatesAlwaysExplained`, `OrderNeverMatters` | see below |
| `SocPipelineProofs` | `PipelineUsesInbox`, `PipelineClaimsAreSafe`, `PipelineStoresAccepted`, `PipelineImplementsLifecycle`, `IncidentsAlwaysRest`, `DetectionsNeverLost`, `OneWorkerLosesNoBurst`, `AloneWorkerLosesNoBurst` | see below |

`UpdateJobsProofs` rests on one idea. A thread between its SELECTs and its write holds
a verdict; `StaleButSound` says what of it can be trusted: the job exists, is
the client's, has left pending for good, has the package, and the result fits.
Only "it is still running" can have become false, and the guarded UPDATEs ask
exactly that again. `Typed` is the type invariant strengthened with this; with
it the history (`Recorded`: the rows of a job number one if it is finished and
none otherwise), the untouched pending rows and the decided results are
inductive. The type invariant alone is not: without `StaleButSound` a checkpoint
could write into a row that does not exist. `CountsAreExplained` adds that the
three counts of a result are cardinalities of parts of its list.

`UpdateExecutionProofs` follows a result on its way. `ExecInv` says that what a program
holds (`ProgramsSound`), what a request in transit holds (`RequestsSound`) and what
the store holds (`RecordsAreTrue`, `SuccessIsComplete`) is in `ran`. The middle part is
needed because a lost answer leaves its request at work after the program has
forgotten it. `ExecutionUsesStore` shows that every step of the composition is a step of
`UpdateJobs` or leaves its variables alone, and so brings the theorems of the store over.
`AloneNeverRepeats` is about the scenario in which `NoRepeatOfRecordedSuccess` has its
positive counterpart. `EndsInv` adds to `ExecInv` that every program and every request is
about a job of its own machine, and, for a watcher that is alone, that only the watcher
holds jobs and that each request in transit is one it waits for. So between the read of
the package states and the next start nobody but the watcher itself can write a success:
what it knows is what is stored (`AloneSound`).

`StorageProofs` on backups: the invariant compares copies with the database page by page.
A database with its log is one commit (`DatabaseSound`); what a backup (`BackupSound`), a
restore (`RestoreSound`) or an extraction (`VolumeSound`) has copied so far agrees with
one moment, since each holds what keeps that moment in place; a snapshot of files in use
is kept only if the signature of the files is as before, and while it is, the part
already archived is still what is there (`SnapshotSound`).

`AlwaysAdmitsInTime`: a reading the controller trusts is behind real time by at most the
error of a synchronisation and the tolerance between the clocks, `SyncError +
Consistency` (`ProviderSound` bounds the first, the check of a reading against `boottime`
the second). So the deadline set from a reading is no later than `RealEnd`, the bound
that `AdmitsInTime` names (`ControllerSound`), and a connection is admitted before it.

`SocInboxProofs` has an invariant of five parts beside the types. Each row fits
(`RowsFit`: it has a token exactly while it is processed, the number of its last
attempt, and a row that waits has an attempt left); an event has one row (`RowsOnce`); a
request names its collector (`UploadsNamed`); a worker's claim names a row and one of
its attempts (`ClaimsKnown`), and no two workers have the same attempt (`ClaimsApart`).
The last two are what makes a late worker harmless: rows only ever continue
(`RowsContinue`: attempts do not fall), so a claim taken over has a token the late worker
cannot have, and `Owns` refuses it. A claim that is not stale is passed over by recovery
and by claiming, which is `FreshClaimIsSafe`. The life of an event follows from what any
step may make of a row (`Moves`) and from the one row an event has; what a batch adds
(`NewItemsAre`, `IngestRows`) gives `AcceptedIsStored`.

`SocPipelineProofs`: every step of the pipeline is a step of the inbox or leaves it alone
(`StopWorker` is a `Crash` to it), so the theorems of the inbox hold of the whole.
`PipelineInv` then says that what a worker has found rests on rows that are processed
and on its own, and that it reports each match of its own event or of the twin that was
kept. Processed rows stay processed, ids are injective and an event has one row, so
what was true at `EvaluateClaim` is true at `FinalizeClaim`, whoever acted in between:
this gives `IncidentsRestOnProcessed` and `NoDetectionLost`.

For a single worker (`AloneSpec`, with crashes, expiring claims and operators, but one
catalog) `AloneInv` says that rows are first tried in the order they came in
(`ClaimsInOrder`): while the worker is at the first attempt of a row, every processed row
came before it. Its history then is all that lies in the window (`WholeHistory`), the
batch is kept whole by deduplication (`BatchWhole`), and the events of a burst that the
row completes are together in one sliding window (`TogetherIs`), which is reported
(`BuiltReportsBurst`, `BurstsFound`). A burst of processed events either was one before,
or contains the row that was processed last. The theorems state this under `Undisturbed`:
no event was tried twice, no two say the same, and no more rows received before an event
lie in its window than `history_limit`. Without it the promise does not follow
from the code: a row that is tried again has no later rows in its history, of twins
only one is analysed, and a longer history is cut.

`SocAnalysisProofs` is about functions of a batch of any length. An enumeration by rank lists
every member once and in order, and a set has one such listing (so the groups of a
batch and of its reverse are the same list: `OrderNeverMatters`). A recursive function
is proved about by descent: if a round fails, the least failing round has a predecessor
that holds (lemma `Least`, from the well-foundedness of the naturals). By descent
`Deduplicate` has told of every event so far (`Told`), and the left edge of each window is
the first event that reaches it, which is what `WindowOf` defines without a loop.

Only model-checked:

- `CreatedJobsEnd` and `EventsSettle`: liveness under fairness and ENABLED are out of the
  prover's reach.
- `AloneLosesNoBurst` without the hypothesis `Undisturbed`: in the scenario of the run
  nothing disturbs the worker and its batches have no twins, so TLC checks the property
  as it stands; with two workers it is false, as the violated run shows.

The library's induction theorems take an operator as a parameter and cannot be used
here; the descent above replaces them where a recursion is a function. RECURSIVE
operators occur in no module with theorems.

## 6. Not modelled

- Agent platform layer (`agent/` package managers and measurements): command lines and
  parsing of their output, without state; the models take its outcome as a choice.
- Installation upgrade script (`scripts/update_lums.py`): it only checks; its replacement
  of the container is disabled in the script (line 871), so it changes no state. The
  volume snapshots beside it are in `Backups`.
- Audit log and health pages: inserts and reads without decisions.
- Translations, templates and browser code (`i18n.py` alone is 8096 lines): presentation.
- Parts of modelled components: simulation mode and the idle measurement of the agent;
  the heartbeat and the release lookup of the self-update queue; the length of lock
  steps; user profiles, functions and notes; descriptive fields of nodes; validation,
  charts and export of telemetry, dashboard settings; parsing and signatures of
  certificates and the TLS context; the comparison operators of detection rules and
  limits on the size of events.

Abstractions that hold throughout: times (but where a property is about them), versions,
free texts and log lines are left out; authentication is the state of the token or
the session, not its cryptography; a transaction is one step.
