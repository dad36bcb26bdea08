--------------------------- MODULE HostUpdateJobs ---------------------------
(***************************************************************************)
(* The queue of self-update jobs of the LUMS installation and the          *)
(* /api/host-updater/jobs handlers that drive a job through its steps      *)
(* (server/app.py).  Every handler does all its work inside one            *)
(* BEGIN IMMEDIATE transaction, so every handler is one step.              *)
(*                                                                         *)
(* The callers hold the host-updater token and name themselves in          *)
(* "worker_id"; which requests a worker sends, and when, is left open.     *)
(* Times, messages, the error text and the heartbeat row are left out.     *)
(***************************************************************************)
EXTENDS Naturals, Sequences

CONSTANTS
  Workers,       \* the worker ids in use
  NoWorker,      \* details_json without a "worker_id"
  KeepProgress,  \* progress entries kept of a job: history[-100:]
  MaxJobs        \* BOUND on the jobs ever queued

ASSUME NoWorkerAssumption == NoWorker \notin Workers
ASSUME KeepProgressAssumption == KeepProgress \in Nat \ {0}
ASSUME MaxJobsAssumption == MaxJobs \in Nat

VARIABLE jobs    \* table system_update_jobs; the id is the index

-----------------------------------------------------------------------------
(* The table *)

UpdateSteps   == {"preflight", "backup", "prepare", "switch", "verify"}
LoggedSteps   == UpdateSteps \cup {"rollback"}
Steps         == LoggedSteps \cup {"queued", "result"}
Active        == {"running", "rolling_back"}
FailedStates  == {"failed", "rolled_back", "rollback_failed"}
Final         == FailedStates \cup {"completed"}
Statuses      == {"queued"} \cup Active \cup Final
RollbackReports == {"not_started", "succeeded", "failed", "not_required"}

NextStep ==
  [preflight |-> "backup", backup |-> "prepare", prepare |-> "switch",
   switch |-> "verify"]

JobIds == 1..Len(jobs)

Start(n) == IF n > KeepProgress THEN n - KeepProgress + 1 ELSE 1

\* (history + entry)[-100:]
Logged(progress, step) ==
  LET all == Append(progress, step) IN SubSeq(all, Start(Len(all)), Len(all))

-----------------------------------------------------------------------------
Init == jobs = <<>>

\* Jobs are put into the table from outside: request_system_update refuses.
\* "approved" stands for an approval that is confirmed, names who gave it and
\* when, and names the job's own target tag and commit.
Queue(approved) ==
  /\ Len(jobs) < MaxJobs
  /\ jobs' = Append(jobs,
       [status |-> "queued", step |-> "queued", approved |-> approved,
        worker |-> NoWorker, progress |-> <<>>, rollback |-> "none"])

Queued == {j \in JobIds : jobs[j].status = "queued"}
NothingActive == \A j \in JobIds : jobs[j].status \notin Active
IsFirst(j) == j \in Queued /\ \A i \in Queued : j <= i

Taken(job, w) ==
  [job EXCEPT !.status = "running", !.step = "preflight", !.worker = w,
              !.progress = <<"preflight">>]

\* MUTANT: the query for an active job is missing.
ClaimBesideActive(w, j) ==
  /\ IsFirst(j)
  /\ jobs[j].approved
  /\ jobs' = [jobs EXCEPT ![j] = Taken(@, w)]

\* MUTANT: the first approved job is taken instead of the first.
ClaimFirstApproved(w, j) ==
  /\ NothingActive
  /\ j \in Queued
  /\ jobs[j].approved
  /\ \A i \in Queued : jobs[i].approved => j <= i
  /\ jobs' = [jobs EXCEPT ![j] = Taken(@, w)]

\* host_updater_claim_job: the first queued job, unless an update is active or
\* that job lacks its approval.
Claim(w, j) ==
  /\ NothingActive
  /\ IsFirst(j)
  /\ jobs[j].approved
  /\ jobs' = [jobs EXCEPT ![j] = Taken(@, w)]

\* _update_job_owned_by
Owned(w, j) == j \in JobIds /\ jobs[j].worker = w

\* MUTANT: any step of the update may be reported next.
MayReportAnyStep(job, step) ==
  \/ job.status = "running" /\ step \in UpdateSteps
  \/ job.status = "rolling_back" /\ step = "rollback"

\* The same step again or the next one; in a rollback, the rollback.
MayReport(job, step) ==
  \/ /\ job.status = "running"
     /\ \/ step = job.step
        \/ job.step \in DOMAIN NextStep /\ step = NextStep[job.step]
  \/ job.status = "rolling_back" /\ step = "rollback"

\* host_updater_job_progress
Progress(w, j, step) ==
  /\ Owned(w, j)
  /\ MayReport(jobs[j], step)
  /\ jobs' = [jobs EXCEPT ![j].step = step, ![j].progress = Logged(@, step)]

\* host_updater_job_start_rollback
StartRollback(w, j) ==
  /\ Owned(w, j)
  /\ jobs[j].status = "running"
  /\ jobs' = [jobs EXCEPT ![j].status = "rolling_back", ![j].step = "rollback",
                          ![j].progress = Logged(@, "rollback")]

\* host_updater_job_complete
Complete(w, j) ==
  /\ Owned(w, j)
  /\ jobs[j].status = "running"
  /\ jobs[j].step = "verify"
  /\ jobs' = [jobs EXCEPT ![j].status = "completed", ![j].step = "result"]

\* A plain failure ends a running update, a rollback outcome ends a rollback.
MayFail(job, final, report) ==
  \/ /\ job.status = "running"
     /\ final = "failed" /\ report \in {"not_started", "not_required"}
  \/ /\ job.status = "rolling_back"
     /\ \/ final = "rolled_back" /\ report = "succeeded"
        \/ final = "rollback_failed" /\ report = "failed"

\* host_updater_job_fail
Fail(w, j, final, report) ==
  /\ Owned(w, j)
  /\ MayFail(jobs[j], final, report)
  /\ jobs' = [jobs EXCEPT ![j].status = final, ![j].step = "result",
                          ![j].rollback = report]

Handled(w, j) ==
  \/ Claim(w, j)
  \/ \E step \in LoggedSteps : Progress(w, j, step)
  \/ StartRollback(w, j)
  \/ Complete(w, j)
  \/ \E final \in FailedStates, report \in RollbackReports : Fail(w, j, final, report)

Next ==
  \/ \E approved \in BOOLEAN : Queue(approved)
  \/ \E w \in Workers, j \in JobIds : Handled(w, j)

Spec == Init /\ [][Next]_jobs

=============================================================================
