---------------------------- MODULE MCOperations ----------------------------
(***************************************************************************)
(* What machines do: the agents' telemetry and package searches, the queue *)
(* of the installation's own updates, the start of the server,             *)
(* PostgreSQL's migrations, backups, and the admission of connections to   *)
(* the SOC. TLC explores each on its own, while the others stay as they    *)
(* begin. Threads, agent processes, workers and runners are the same model *)
(* values, which are exchanged together.                                   *)
(***************************************************************************)
EXTENDS Telemetry, PackageSearch, HostUpdateJobsProps, Startup, PgMigrations, Backups,
        SocAdmission, TLC

CONSTANTS c1, p1, p2

MCAgentOf == [a \in {p1, p2} |-> c1]

\* One list is too old before it ends, the other ends before it is too old.
MCCrls == {[this |-> 0, next |-> 7], [this |-> 1, next |-> 4]}

MCWallErrors == {-2, 0, 1}

Symmetry == Permutations({p1, p2})

VARIABLE part    \* the part that is explored

operationsVars == <<part, telemetryVars, searchVars, jobs, startupVars, pgVars, backupVars, admissionVars>>

\* There is one database under all of them; only what is explored varies besides.
OperationsInit ==
  /\ part \in {"telemetry", "searches", "updates", "startup", "migrations", "backups",
              "admission"}
  /\ TelemetryInit /\ PackageSearchInit /\ Init /\ BackupsInit /\ AdmissionInit
  /\ engine = store /\ (part \in {"telemetry", "searches"} \/ store = "sqlite")
  /\ IF part = "startup" THEN StartupInit
     ELSE at = 0 /\ tables = {} /\ recorded = {} /\ enabled = TRUE /\ rights = {} /\ taken = {}
  /\ IF part = "migrations" THEN PgMigrationsInit
     ELSE /\ ledger = <<>> /\ schema = {} /\ lock = {}
          /\ runner = [r \in Runners |-> [release |-> "current", run |-> Unstarted]]

OperationsNext ==
  \/ /\ part = "telemetry" /\ TelemetryNext
     /\ UNCHANGED <<part, searchVars, jobs, startupVars, pgVars, backupVars, admissionVars>>
  \/ /\ part = "searches" /\ PackageSearchNext
     /\ UNCHANGED <<part, telemetryVars, jobs, startupVars, pgVars, backupVars, admissionVars>>
  \/ /\ part = "updates" /\ Next
     /\ UNCHANGED <<part, telemetryVars, searchVars, startupVars, pgVars, backupVars, admissionVars>>
  \/ /\ part = "startup" /\ StartupNext
     /\ UNCHANGED <<part, telemetryVars, searchVars, jobs, pgVars, backupVars, admissionVars>>
  \/ /\ part = "migrations" /\ PgMigrationsNext
     /\ UNCHANGED <<part, telemetryVars, searchVars, jobs, startupVars, backupVars, admissionVars>>
  \/ /\ part = "backups" /\ BackupsNext
     /\ UNCHANGED <<part, telemetryVars, searchVars, jobs, startupVars, pgVars, admissionVars>>
  \/ /\ part = "admission" /\ AdmissionNext
     /\ UNCHANGED <<part, telemetryVars, searchVars, jobs, startupVars, pgVars, backupVars>>

OperationsSpec == OperationsInit /\ [][OperationsNext]_operationsVars

=============================================================================
