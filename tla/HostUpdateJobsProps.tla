------------------------ MODULE HostUpdateJobsProps ------------------------
(***************************************************************************)
(* What is claimed of the self-update queue.                               *)
(***************************************************************************)
EXTENDS HostUpdateJobs

UpdateJob ==
  [status : Statuses, step : Steps, approved : BOOLEAN,
   worker : Workers \cup {NoWorker}, progress : Seq(LoggedSteps),
   rollback : RollbackReports \cup {"none"}]

\* The table's rows have the types the handlers assume, and no log outgrows
\* what is kept of it.
TypeOK ==
  /\ jobs \in Seq(UpdateJob)
  /\ Len(jobs) <= MaxJobs
  /\ \A j \in JobIds : Len(jobs[j].progress) <= KeepProgress

\* One update at a time: whatever the workers send, the query of the claim
\* handler keeps two jobs from being active together.
OneActiveUpdate ==
  \A i, j \in JobIds :
    jobs[i].status \in Active /\ jobs[j].status \in Active => i = j

\* Jobs are started strictly by age and only with their approval: a job that
\* has left the queue was approved, and so was every older one.  (An older job
\* that never gets its approval therefore holds up all later ones.)
StartedInOrder ==
  \A i, j \in JobIds :
    i <= j /\ jobs[j].status # "queued" =>
      jobs[i].status # "queued" /\ jobs[i].approved

Follows(a, b) == a = b \/ b = "rollback" \/ (a \in DOMAIN NextStep /\ b = NextStep[a])

\* The progress log of a job is a walk through the update's steps, none skipped
\* and none taken back; once in the rollback it stays there.
LogIsWalk(job) ==
  \A k \in 1..(Len(job.progress) - 1) :
    /\ Follows(job.progress[k], job.progress[k + 1])
    /\ job.progress[k] = "rollback" => job.progress[k + 1] = "rollback"

\* As long as nothing was cut off the log begins with the claim.
LogIsWhole(job) ==
  job.status # "queued" =>
    /\ job.progress # <<>>
    /\ Len(job.progress) < KeepProgress => job.progress[1] = "preflight"

LastStep(job) == job.progress[Len(job.progress)]

\* Where the log ends agrees with the job's status.
LogFitsStatus(job) ==
  CASE job.status = "queued"    -> job.progress = <<>>
    [] job.status = "running"   -> LastStep(job) = job.step /\ job.step \in UpdateSteps
    [] job.status = "completed" -> LastStep(job) = "verify"
    [] job.status = "failed"    -> LastStep(job) \in UpdateSteps
    [] OTHER                    -> LastStep(job) = "rollback"

\* A job is completed only after preflight, backup, prepare, switch and verify,
\* in this order, and never after a rollback was started; a rollback outcome is
\* reported only of a job that was rolled back.
StepsInOrder ==
  \A j \in JobIds : LogIsWalk(jobs[j]) /\ LogIsWhole(jobs[j]) /\ LogFitsStatus(jobs[j])

\* A finished job stays as it is, and from its claim to its end a job stays with
\* the worker that claimed it.
FinishedIsFinal ==
  [][\A j \in JobIds :
       /\ jobs[j].status \in Final => jobs'[j] = jobs[j]
       /\ jobs[j].worker # NoWorker => jobs'[j].worker = jobs[j].worker]_jobs

\* What a completed job's whole log contains.
CompletedTookEveryStep ==
  \A j \in JobIds :
    jobs[j].status = "completed" /\ Len(jobs[j].progress) < KeepProgress =>
      \A s \in UpdateSteps : \E k \in DOMAIN jobs[j].progress : jobs[j].progress[k] = s

=============================================================================
