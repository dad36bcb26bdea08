----------------------------- MODULE UpdateJobs -----------------------------
(***************************************************************************)
(* The server's store of update jobs and the HTTP handlers that work on it *)
(* (server/app.py).  Gunicorn serves several requests at once, every       *)
(* handler opens its own SQLite connection, and a handler that SELECTs     *)
(* before its first UPDATE does so outside any transaction.  A request is  *)
(* therefore carried by a thread through separate steps:                   *)
(*                                                                         *)
(*   Arrive     client_auth_required and the validation of the body        *)
(*   ...Check   the handler's SELECTs and the refusals they lead to        *)
(*   ...Write   the handler's transaction, committed or rolled back whole  *)
(*                                                                         *)
(* claim_update_job reads inside BEGIN IMMEDIATE, so its two parts are one *)
(* step.  What the SELECTs of the other handlers return beyond their       *)
(* verdict (owner, action, package rows) never changes in a job, so only   *)
(* the verdict can be stale at the write.                                  *)
(*                                                                         *)
(* Times, versions, messages and the reboot flag are left out.             *)
(***************************************************************************)
EXTENDS Naturals, Sequences, FiniteSets

CONSTANTS
  Clients,      \* registered client machines
  Packages,     \* package names
  Threads,      \* server threads: the requests that can be in progress at once
  Actions,      \* the job actions in use
  ItemResults,  \* the package outcomes in use
  Kinds,        \* the handlers in use
  NoPackage,    \* a result entry whose "package" is null
  MaxJobs,      \* BOUND on the jobs ever created
  MaxResults    \* MAX_PACKAGE_RESULTS of update_job_result

ASSUME ActionsAssumption ==
  Actions \subseteq
    {"UPDATE_PACKAGE", "INSTALL_PACKAGE", "REMOVE_PACKAGE", "UPDATE_SYSTEM"}
ASSUME ItemResultsAssumption ==
  ItemResults \subseteq {"success", "failed", "timeout"}
ASSUME KindsAssumption ==
  Kinds \subseteq {"create", "report", "claim", "checkpoint", "result", "abandon"}
ASSUME NoPackageAssumption == NoPackage \notin Packages
ASSUME PackagesAssumption == IsFiniteSet(Packages)
ASSUME BoundsAssumption == MaxJobs \in Nat /\ MaxResults \in Nat

VARIABLES
  enabled,      \* clients.enabled, with token_revoked_at null
  available,    \* table available_updates: the packages a client last reported
  jobs,         \* tables update_jobs and update_job_packages; the id is the index
  history,      \* table update_history, in insertion order
  pc,           \* where each server thread is in its handler
  request       \* the request each server thread carries

vars == <<enabled, available, jobs, history, pc, request>>

-----------------------------------------------------------------------------
(* The tables *)

ResultStatuses   == {"success", "partial", "failed"}
FinishedStatuses == ResultStatuses \cup {"abandoned"}
JobStatuses      == {"pending", "running"} \cup FinishedStatuses
ItemStatuses     == {"pending"} \cup ItemResults

\* The package rows of one job: UNIQUE(job_id, package) makes them a function.
PackageRows == UNION {[S -> ItemStatuses] : S \in SUBSET Packages}

JobRows == [client : Clients, action : Actions, status : JobStatuses,
            items : PackageRows]

HistoryRows == [client : Clients, job : Nat, status : FinishedStatuses,
                package_count : Nat, successful_count : Nat, failed_count : Nat]

JobIds == 1..Len(jobs)

Successful(results) == {p \in DOMAIN results : results[p] = "success"}
Failed(results)     == {p \in DOMAIN results : results[p] # "success"}

\* MUTANT: one success is enough.
DerivedStatusLenient(results) ==
  CASE Successful(results) # {} \/ Failed(results) = {} -> "success"
    [] OTHER -> "failed"

\* derived_status of update_job_result.
DerivedStatus(results) ==
  CASE Failed(results) = {}     -> "success"
    [] Failed(results) # {} /\ Successful(results) # {} -> "partial"
    [] OTHER                    -> "failed"

-----------------------------------------------------------------------------
(* The requests *)

CreateRequests ==
  [kind : {"create"}, client : Clients, action : Actions,
   packages : SUBSET Packages]

ReportRequests == [kind : {"report"}, client : Clients, updates : SUBSET Packages]

JobRequests == [kind : {"claim", "abandon"}, client : Clients, job : 1..MaxJobs]

CheckpointRequests ==
  [kind : {"checkpoint"}, client : Clients, job : 1..MaxJobs,
   package : Packages, status : ItemResults]

\* The "packages" list of a result, one entry for each package it names.
ResultLists ==
  UNION {[S -> ItemResults] : S \in SUBSET (Packages \cup {NoPackage})}

ResultRequests ==
  [kind : {"result"}, client : Clients, job : 1..MaxJobs,
   status : ResultStatuses, results : ResultLists]

ClientRequests == ReportRequests \cup JobRequests \cup CheckpointRequests
                    \cup ResultRequests

Requests == CreateRequests \cup ClientRequests

NoRequest == [kind |-> "none"]

\* What the handlers refuse before they open the database.  A whole-system
\* job ignores the packages of its request.
WellFormed(r) ==
  CASE r.kind = "create" -> (r.action = "UPDATE_SYSTEM") <=> (r.packages = {})
    [] r.kind = "result" -> /\ Cardinality(DOMAIN r.results) <= MaxResults
                            /\ NoPackage \notin DOMAIN r.results
    [] OTHER             -> TRUE

\* Jobs are created by a logged-in operator, everything else is asked by a
\* client whose token is looked up before the view runs.
Authenticated(r) == r.kind = "create" \/ enabled[r.client]

-----------------------------------------------------------------------------
Init ==
  /\ enabled = [c \in Clients |-> TRUE]
  /\ available \in [Clients -> SUBSET Packages]
  /\ jobs = <<>>
  /\ history = <<>>
  /\ pc = [t \in Threads |-> "idle"]
  /\ request = [t \in Threads |-> NoRequest]

AtStep(t, kind, step) == request[t].kind = kind /\ pc[t] = step

\* The thread has answered and takes the next request.
Done(t) ==
  /\ pc' = [pc EXCEPT ![t] = "idle"]
  /\ request' = [request EXCEPT ![t] = NoRequest]

\* The handler's SELECTs let the request through; the write is still to come.
Checked(t) ==
  /\ pc' = [pc EXCEPT ![t] = "checked"]
  /\ UNCHANGED <<enabled, available, jobs, history, request>>

Arrive(t, r) ==
  /\ pc[t] = "idle"
  /\ r.kind \in Kinds
  /\ Authenticated(r)
  /\ WellFormed(r)
  /\ pc' = [pc EXCEPT ![t] = "entered"]
  /\ request' = [request EXCEPT ![t] = r]
  /\ UNCHANGED <<enabled, available, jobs, history>>

\* MUTANTS: the owner, the status is not looked at.
RunningJobOfAnyone(r) == r.job \in JobIds /\ jobs[r.job].status = "running"
OwnUnfinishedJob(r) ==
  /\ r.job \in JobIds
  /\ jobs[r.job].client = r.client
  /\ jobs[r.job].status \in {"pending", "running"}

\* The job exists, belongs to the authenticated client and is running.
OwnRunningJob(r) ==
  /\ r.job \in JobIds
  /\ jobs[r.job].client = r.client
  /\ jobs[r.job].status = "running"

\* MUTANT: the submitted status is believed.
ResultFitsUnderived(r) ==
  LET job == jobs[r.job] IN
  IF job.action = "UPDATE_SYSTEM"
  THEN DOMAIN r.results = {}
  ELSE DOMAIN r.results = DOMAIN job.items

\* What update_job_result demands of the list it is sent.
ResultFits(r) ==
  LET job == jobs[r.job] IN
  IF job.action = "UPDATE_SYSTEM"
  THEN DOMAIN r.results = {}
  ELSE /\ DOMAIN r.results = DOMAIN job.items
       /\ r.status = DerivedStatus(r.results)

\* The verdict of each handler's SELECTs.
Admissible(r) ==
  CASE r.kind = "create" ->
         /\ enabled[r.client]
         /\ r.action = "UPDATE_SYSTEM" => available[r.client] # {}
         /\ r.action = "UPDATE_PACKAGE" => r.packages \subseteq available[r.client]
    [] r.kind = "claim" ->
         /\ r.job \in JobIds
         /\ jobs[r.job].client = r.client
         /\ jobs[r.job].status = "pending"
    [] r.kind = "abandon"    -> OwnRunningJob(r)
    [] r.kind = "checkpoint" -> OwnRunningJob(r) /\ r.package \in DOMAIN jobs[r.job].items
    [] r.kind = "result"     -> OwnRunningJob(r) /\ ResultFits(r)
    [] OTHER -> TRUE

\* A 400, 403, 404 or 409 after the SELECTs: nothing is written.
Refuse(t) ==
  /\ pc[t] = "entered"
  /\ ~Admissible(request[t])
  /\ Done(t)
  /\ UNCHANGED <<enabled, available, jobs, history>>

-----------------------------------------------------------------------------
(* create_update_job *)

CreateCheck(t) ==
  /\ AtStep(t, "create", "entered")
  /\ Admissible(request[t])
  /\ Checked(t)

\* The job and its package rows are inserted in one transaction.
CreateWrite(t) ==
  LET r == request[t] IN
  /\ AtStep(t, "create", "checked")
  /\ Len(jobs) < MaxJobs
  /\ jobs' = Append(jobs,
       [client |-> r.client, action |-> r.action, status |-> "pending",
        items |-> [p \in r.packages |-> "pending"]])
  /\ Done(t)
  /\ UNCHANGED <<enabled, available, history>>

(* claim_update_job *)

\* MUTANT: a running job can be claimed again.
ClaimAgain(t) ==
  LET r == request[t] IN
  /\ AtStep(t, "claim", "entered")
  /\ r.job \in JobIds
  /\ jobs[r.job].client = r.client
  /\ jobs' = [jobs EXCEPT ![r.job].status = "running"]
  /\ Done(t)
  /\ UNCHANGED <<enabled, available, history>>

Claim(t) ==
  /\ AtStep(t, "claim", "entered")
  /\ Admissible(request[t])
  /\ jobs' = [jobs EXCEPT ![request[t].job].status = "running"]
  /\ Done(t)
  /\ UNCHANGED <<enabled, available, history>>

(* update_job_checkpoint *)

CheckpointCheck(t) ==
  /\ AtStep(t, "checkpoint", "entered")
  /\ Admissible(request[t])
  /\ Checked(t)

\* The UPDATE names the package row only: the job's status is not read again.
CheckpointWrite(t) ==
  LET r == request[t] IN
  /\ AtStep(t, "checkpoint", "checked")
  /\ jobs' = [jobs EXCEPT ![r.job].items[r.package] = r.status]
  /\ Done(t)
  /\ UNCHANGED <<enabled, available, history>>

(* update_job_result and abandon_update_job *)

ResultCheck(t) ==
  /\ AtStep(t, "result", "entered")
  /\ Admissible(request[t])
  /\ Checked(t)

\* MUTANT: the closing UPDATE names the job only.
StillRunningAssumed(r) == r.job \in JobIds

\* "... AND status = 'running'" of the closing UPDATE.
StillRunning(r) == jobs[r.job].status = "running"

HistoryRow(r, status, total, good, bad) ==
  [client |-> r.client, job |-> r.job, status |-> status,
   package_count |-> total, successful_count |-> good, failed_count |-> bad]

\* Package rows, job row and history row are one transaction.  The list of a
\* whole-system job is empty, so its three counts are 0.
ResultWrite(t) ==
  LET r == request[t] IN
  /\ AtStep(t, "result", "checked")
  /\ StillRunning(r)
  /\ jobs' = [jobs EXCEPT ![r.job].status = r.status, ![r.job].items = r.results]
  /\ history' = Append(history,
       HistoryRow(r, r.status, Cardinality(DOMAIN r.results),
                  Cardinality(Successful(r.results)),
                  Cardinality(Failed(r.results))))
  /\ Done(t)
  /\ UNCHANGED <<enabled, available>>

AbandonCheck(t) ==
  /\ AtStep(t, "abandon", "entered")
  /\ Admissible(request[t])
  /\ Checked(t)

AbandonWrite(t) ==
  LET r == request[t] IN
  /\ AtStep(t, "abandon", "checked")
  /\ StillRunning(r)
  /\ jobs' = [jobs EXCEPT ![r.job].status = "abandoned"]
  /\ history' = Append(history,
       HistoryRow(r, "abandoned", Cardinality(DOMAIN jobs[r.job].items), 0, 0))
  /\ Done(t)
  /\ UNCHANGED <<enabled, available>>

\* rowcount # 1: rollback and 409.
Conflict(t) ==
  /\ AtStep(t, "result", "checked") \/ AtStep(t, "abandon", "checked")
  /\ ~StillRunning(request[t])
  /\ Done(t)
  /\ UNCHANGED <<enabled, available, jobs, history>>

(* save_client_report *)

ReportWrite(t) ==
  /\ AtStep(t, "report", "entered")
  /\ available' = [available EXCEPT ![request[t].client] = request[t].updates]
  /\ Done(t)
  /\ UNCHANGED <<enabled, jobs, history>>

-----------------------------------------------------------------------------
\* delete_client: the row stays, the token is revoked, the reported updates go.
\* Nothing in the server enables a client again.
DisableClient(c) ==
  /\ enabled' = [enabled EXCEPT ![c] = FALSE]
  /\ available' = [available EXCEPT ![c] = {}]
  /\ UNCHANGED <<jobs, history, pc, request>>

\* The worker process dies: what its connection had not committed is gone.
Die(t) ==
  /\ pc[t] # "idle"
  /\ Done(t)
  /\ UNCHANGED <<enabled, available, jobs, history>>

\* The steps a thread takes on the request it carries.
Serve(t) ==
  \/ Refuse(t) \/ Conflict(t)
  \/ CreateCheck(t) \/ CreateWrite(t)
  \/ Claim(t)
  \/ CheckpointCheck(t) \/ CheckpointWrite(t)
  \/ ResultCheck(t) \/ ResultWrite(t)
  \/ AbandonCheck(t) \/ AbandonWrite(t)
  \/ ReportWrite(t)

Next ==
  \/ \E t \in Threads, r \in Requests : Arrive(t, r)
  \/ \E t \in Threads : Serve(t) \/ Die(t)
  \/ \E c \in Clients : DisableClient(c)

Spec == Init /\ [][Next]_vars

=============================================================================
