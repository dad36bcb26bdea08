-------------------------- MODULE OperationsProofs --------------------------
(***************************************************************************)
(* What the daily operation of the server keeps: the queues that workers   *)
(* poll, the telemetry and the admission of TLS connections.               *)
(*                                                                         *)
(* System updates, for every set of worker ids, every number of jobs and   *)
(* every length of the kept log.                                           *)
(*                                                                         *)
(* SearchesEndOnce for any clients, agent processes and number of searches *)
(* and requests: an agent and a report name only searches that were        *)
(* claimed, and no two agents claimed one.                                 *)
(*                                                                         *)
(* OneEventPerFailure for any requests side by side: the status a request  *)
(* compares with is the last one saved, so a status that is not failed     *)
(* tells that the failure before it is over.                               *)
(*                                                                         *)
(* ListTells for any samples, retention and overlapping requests: the      *)
(* samples stay in the order of time, the loop over them is followed round *)
(* by round, and only what MaxListed entries as new stand before is cut.   *)
(*                                                                         *)
(* AdmitsInTime for any lists and limits: a trusted reading is behind real *)
(* time by no more than the error of the last synchronisation and the drift*)
(* since, so no deadline lies behind the real end.                         *)
(***************************************************************************)
EXTENDS HostUpdateJobsProps, PackageSearch, Telemetry, SocAdmission, FiniteSetTheorems,
        SequenceTheorems, WellFoundedInduction, TLAPS

-----------------------------------------------------------------------------
(* System updates: the inductive invariant *)

\* The steps an update has taken when it is at a step.
TakenBy ==
  [preflight |-> {"preflight"},
   backup    |-> {"preflight", "backup"},
   prepare   |-> {"preflight", "backup", "prepare"},
   switch    |-> {"preflight", "backup", "prepare", "switch"},
   verify    |-> UpdateSteps]

Logs(job, step) == \E k \in DOMAIN job.progress : job.progress[k] = step

\* An uncut log shows every step the update has taken.
LogShowsSteps(job) ==
  Len(job.progress) < KeepProgress =>
    /\ job.status = "running" => \A s \in TakenBy[job.step] : Logs(job, s)
    /\ job.status = "completed" => \A s \in UpdateSteps : Logs(job, s)

RowInv(job) ==
  /\ Len(job.progress) <= KeepProgress
  /\ job.status = "queued" <=> job.worker = NoWorker
  /\ LogIsWalk(job) /\ LogIsWhole(job) /\ LogFitsStatus(job)
  /\ LogShowsSteps(job)

HostJobRows == TypeOK /\ \A j \in JobIds : RowInv(jobs[j])

HostUpdateJobsInv == HostJobRows /\ OneActiveUpdate /\ StartedInOrder

-----------------------------------------------------------------------------
(* The log *)

\* What cutting the log to its last KeepProgress entries leaves: the whole log
\* when there was room, else everything but the oldest entry.
LEMMA LoggedIs ==
  ASSUME NEW p \in Seq(LoggedSteps), NEW s \in LoggedSteps, Len(p) <= KeepProgress
  PROVE  /\ Logged(p, s) \in Seq(LoggedSteps)
         /\ Len(p) < KeepProgress =>
              /\ Len(Logged(p, s)) = Len(p) + 1
              /\ \A k \in 1..Len(p) : Logged(p, s)[k] = p[k]
         /\ Len(p) = KeepProgress =>
              /\ Len(Logged(p, s)) = Len(p)
              /\ \A k \in 1..(Len(p) - 1) : Logged(p, s)[k] = p[k + 1]
         /\ Logged(p, s)[Len(Logged(p, s))] = s
<1> DEFINE all == Append(p, s)
           m == Start(Len(all))
<1>1. Len(p) \in Nat /\ KeepProgress \in Nat \ {0}
  BY LenProperties, KeepProgressAssumption
<1>2. /\ all \in Seq(LoggedSteps)
      /\ Len(all) = Len(p) + 1
      /\ \A k \in 1..Len(p) : all[k] = p[k]
      /\ all[Len(p) + 1] = s
  BY AppendProperties
<1>3. m = IF Len(p) = KeepProgress THEN 2 ELSE 1
  BY <1>1, <1>2 DEF Start
<1>4. m \in 1..(Len(all) + 1) /\ Len(all) \in 0..Len(all)
  BY <1>1, <1>2, <1>3
<1>5. /\ SubSeq(all, m, Len(all)) \in Seq(LoggedSteps)
      /\ Len(SubSeq(all, m, Len(all))) = Len(all) - m + 1
      /\ \A k \in 1..(Len(all) - m + 1) : SubSeq(all, m, Len(all))[k] = all[m + k - 1]
  BY <1>1, <1>2, <1>3
<1>6. Logged(p, s) = SubSeq(all, m, Len(all))
  BY DEF Logged
<1> DEFINE log == Logged(p, s)
           n   == Len(all)
<1>7. /\ log \in Seq(LoggedSteps)
      /\ Len(log) = n - m + 1
      /\ \A k \in 1..(n - m + 1) : log[k] = all[m + k - 1]
  BY <1>5, <1>6
<1>8. n = Len(p) + 1
  BY <1>2
<1> HIDE DEF all, m, n, log
<1>9. CASE Len(p) < KeepProgress
  <2>1. m = 1 /\ Len(log) = Len(p) + 1 /\ \A k \in 1..(Len(p) + 1) : log[k] = all[k]
    BY <1>1, <1>3, <1>7, <1>8, <1>9
  <2> QED
    BY <1>1, <1>2, <1>7, <1>9, <2>1 DEF log
<1>10. CASE Len(p) = KeepProgress
  <2>1. m = 2 /\ Len(log) = Len(p) /\ \A k \in 1..Len(p) : log[k] = all[k + 1]
    BY <1>1, <1>3, <1>7, <1>8, <1>10
  <2>2. log[Len(log)] = s
    BY <1>1, <1>2, <1>10, <2>1
  <2>3. \A k \in 1..(Len(p) - 1) : log[k] = p[k + 1]
    BY <1>1, <1>2, <1>10, <2>1
  <2> QED
    BY <1>1, <1>7, <1>10, <2>1, <2>2, <2>3 DEF log
<1> QED
  BY <1>1, <1>9, <1>10

\* A log that is a walk stays one when it is continued as it may be, and shows
\* what it showed before unless it is full.
LEMMA LogContinues ==
  ASSUME NEW job \in UpdateJob, NEW new \in UpdateJob, NEW s \in LoggedSteps,
         job.status # "queued", RowInv(job),
         Follows(LastStep(job), s), LastStep(job) = "rollback" => s = "rollback",
         new.progress = Logged(job.progress, s), new.status # "queued"
  PROVE  /\ Len(new.progress) <= KeepProgress
         /\ LogIsWalk(new) /\ LogIsWhole(new)
         /\ LastStep(new) = s
         /\ Len(new.progress) < KeepProgress =>
              /\ Len(job.progress) < KeepProgress
              /\ Logs(new, s)
              /\ \A x : Logs(job, x) => Logs(new, x)
<1> DEFINE p == job.progress
           q == new.progress
<1>1. p \in Seq(LoggedSteps) /\ Len(p) <= KeepProgress
  BY DEF UpdateJob, RowInv
<1>2. Len(p) \in Nat /\ KeepProgress \in Nat \ {0} /\ Len(p) # 0
  BY <1>1, LenProperties, EmptySeq, KeepProgressAssumption DEF RowInv, LogIsWhole
<1>3. /\ \A k \in 1..(Len(p) - 1) :
           Follows(p[k], p[k + 1]) /\ (p[k] = "rollback" => p[k + 1] = "rollback")
      /\ Len(p) < KeepProgress => p[1] = "preflight"
      /\ Follows(p[Len(p)], s) /\ (p[Len(p)] = "rollback" => s = "rollback")
  BY DEF RowInv, LogIsWalk, LogIsWhole, LastStep
<1>4. /\ q \in Seq(LoggedSteps)
      /\ Len(p) < KeepProgress =>
           Len(q) = Len(p) + 1 /\ \A k \in 1..Len(p) : q[k] = p[k]
      /\ Len(p) = KeepProgress =>
           Len(q) = Len(p) /\ \A k \in 1..(Len(p) - 1) : q[k] = p[k + 1]
      /\ q[Len(q)] = s
  <2> DEFINE log == Logged(p, s)
  <2>1. q = log
    OBVIOUS
  <2> HIDE DEF p
  <2>2. /\ log \in Seq(LoggedSteps)
        /\ Len(p) < KeepProgress =>
             Len(log) = Len(p) + 1 /\ \A k \in 1..Len(p) : log[k] = p[k]
        /\ Len(p) = KeepProgress =>
             Len(log) = Len(p) /\ \A k \in 1..(Len(p) - 1) : log[k] = p[k + 1]
        /\ log[Len(log)] = s
    BY <1>1, LoggedIs, Zenon
  <2> HIDE DEF log, q
  <2> QED
    BY <2>1, <2>2, Zenon
<1>5. Len(q) \in Nat \ {0} /\ DOMAIN q = 1..Len(q) /\ DOMAIN p = 1..Len(p)
  BY <1>1, <1>2, <1>4, LenProperties
<1> HIDE DEF p, q
<1>6. CASE Len(p) < KeepProgress
  <2>1. Len(q) = Len(p) + 1 /\ \A k \in 1..Len(p) : q[k] = p[k]
    BY <1>4, <1>6
  <2>2. \A k \in 1..(Len(q) - 1) :
          Follows(q[k], q[k + 1]) /\ (q[k] = "rollback" => q[k + 1] = "rollback")
    <3> TAKE k \in 1..(Len(q) - 1)
    <3>1. CASE k = Len(p)
      BY <1>2, <1>3, <1>4, <2>1, <3>1
    <3>2. CASE k \in 1..(Len(p) - 1)
      BY <1>2, <1>3, <1>4, <2>1, <3>2
    <3> QED
      BY <1>2, <2>1, <3>1, <3>2
  <2>3. q[1] = "preflight" /\ q # <<>> /\ Len(q) <= KeepProgress
    BY <1>2, <1>3, <1>5, <1>6, <2>1, EmptySeq
  <2>4. Logs(new, s)
    BY <1>4, <1>5 DEF Logs, q
  <2>5. ASSUME NEW x, Logs(job, x) PROVE Logs(new, x)
    BY <1>2, <1>5, <2>1, <2>5 DEF Logs, p, q
  <2> QED
    BY <1>4, <1>6, <2>2, <2>3, <2>4, <2>5
       DEF LogIsWalk, LogIsWhole, LastStep, p, q
<1>7. CASE Len(p) = KeepProgress
  <2>1. Len(q) = Len(p) /\ \A k \in 1..(Len(p) - 1) : q[k] = p[k + 1]
    BY <1>4, <1>7
  <2>2. \A k \in 1..(Len(q) - 1) :
          Follows(q[k], q[k + 1]) /\ (q[k] = "rollback" => q[k + 1] = "rollback")
    <3> TAKE k \in 1..(Len(q) - 1)
    <3>1. CASE k + 1 = Len(q)
      <4>1. q[k] = p[Len(p)] /\ q[k + 1] = s
        BY <1>2, <1>4, <2>1, <3>1
      <4> QED
        BY <1>3, <4>1
    <3>2. CASE k + 1 \in 1..(Len(q) - 1)
      <4>1. q[k] = p[k + 1] /\ q[k + 1] = p[k + 2] /\ k + 1 \in 1..(Len(p) - 1)
        BY <1>2, <2>1, <3>2
      <4>2. Follows(p[k + 1], p[k + 1 + 1])
              /\ (p[k + 1] = "rollback" => p[k + 1 + 1] = "rollback")
        BY <1>3, <4>1
      <4>3. k + 1 + 1 = k + 2
        OBVIOUS
      <4> QED
        BY <4>1, <4>2, <4>3
    <3> QED
      BY <1>2, <2>1, <3>1, <3>2
  <2>3. q # <<>> /\ ~(Len(q) < KeepProgress) /\ Len(q) <= KeepProgress
    BY <1>2, <1>5, <1>7, <2>1, EmptySeq
  <2> QED
    BY <1>4, <1>7, <2>2, <2>3 DEF LogIsWalk, LogIsWhole, LastStep, p, q
<1> QED
  BY <1>1, <1>2, <1>6, <1>7 DEF p

-----------------------------------------------------------------------------
(* What each handler makes of a row *)

LEMMA TakenRow ==
  ASSUME NEW job \in UpdateJob, NEW w \in Workers
  PROVE  Taken(job, w) \in UpdateJob /\ RowInv(Taken(job, w))
<1> DEFINE row == Taken(job, w)
<1>1. /\ row.status = "running" /\ row.step = "preflight" /\ row.worker = w
      /\ row.progress = <<"preflight">>
  BY DEF Taken, UpdateJob
<1>2. row \in UpdateJob
  <2>1. <<"preflight">> \in Seq(LoggedSteps) /\ "preflight" \in Steps
    BY DEF Steps, LoggedSteps, UpdateSteps
  <2> QED
    BY <2>1 DEF Taken, UpdateJob, Statuses, Active
<1>3. /\ Len(row.progress) = 1 /\ row.progress[1] = "preflight"
      /\ DOMAIN row.progress = {1} /\ row.progress # <<>>
  BY <1>1
<1> HIDE DEF row
<1>4. LogIsWalk(row) /\ LogIsWhole(row) /\ LogFitsStatus(row)
  BY <1>1, <1>3 DEF LogIsWalk, LogIsWhole, LogFitsStatus, LastStep, UpdateSteps
<1>5. LogShowsSteps(row)
  BY <1>1, <1>3 DEF LogShowsSteps, TakenBy, Logs
<1>6. Len(row.progress) <= KeepProgress /\ (row.status = "queued" <=> row.worker = NoWorker)
  BY <1>1, <1>3, KeepProgressAssumption, NoWorkerAssumption
<1> QED
  BY <1>2, <1>4, <1>5, <1>6 DEF RowInv, row

LEMMA ReportedRow ==
  ASSUME NEW job \in UpdateJob, RowInv(job), NEW s \in LoggedSteps, MayReport(job, s),
         NEW row, row = [job EXCEPT !.step = s, !.progress = Logged(@, s)]
  PROVE  /\ row \in UpdateJob /\ RowInv(row)
         /\ row.status = job.status /\ row.worker = job.worker
<1>1. Logged(job.progress, s) \in Seq(LoggedSteps)
  BY LoggedIs DEF UpdateJob, RowInv
<1>2. /\ row \in UpdateJob
      /\ row.status = job.status /\ row.worker = job.worker /\ row.step = s
      /\ row.progress = Logged(job.progress, s)
  BY <1>1 DEF UpdateJob, Steps
<1>3. job.status \in Active /\ job.status # "queued" /\ LogFitsStatus(job)
  BY DEF MayReport, Active, RowInv
<1>4. /\ Follows(LastStep(job), s)
      /\ LastStep(job) = "rollback" => s = "rollback"
      /\ job.status = "running" => LastStep(job) = job.step /\ s \in UpdateSteps
      /\ job.status = "rolling_back" => s = "rollback"
  BY <1>3 DEF MayReport, LogFitsStatus, Follows, NextStep, UpdateSteps, Active
<1>5. /\ Len(row.progress) <= KeepProgress
      /\ LogIsWalk(row) /\ LogIsWhole(row) /\ LastStep(row) = s
      /\ Len(row.progress) < KeepProgress =>
           /\ Len(job.progress) < KeepProgress
           /\ Logs(row, s) /\ \A x : Logs(job, x) => Logs(row, x)
  BY <1>2, <1>3, <1>4, LogContinues
<1>6. LogFitsStatus(row)
  BY <1>2, <1>3, <1>4, <1>5 DEF LogFitsStatus, Active
<1>7. LogShowsSteps(row)
  <2> SUFFICES ASSUME Len(row.progress) < KeepProgress, job.status = "running"
               PROVE  \A x \in TakenBy[s] : Logs(row, x)
    BY <1>2, <1>3 DEF LogShowsSteps, Active
  <2>1. \A x \in TakenBy[job.step] : Logs(row, x)
    BY <1>5 DEF RowInv, LogShowsSteps
  <2>2. job.step \in UpdateSteps
    BY <1>3 DEF LogFitsStatus
  <2>3. s = job.step \/ TakenBy[s] = TakenBy[job.step] \cup {s}
    BY <2>2 DEF MayReport, NextStep, TakenBy, UpdateSteps
  <2> QED
    BY <1>5, <2>1, <2>3
<1> QED
  BY <1>2, <1>5, <1>6, <1>7 DEF RowInv

LEMMA RollbackRow ==
  ASSUME NEW job \in UpdateJob, RowInv(job), job.status = "running",
         NEW row, row = [job EXCEPT !.status = "rolling_back", !.step = "rollback",
                                    !.progress = Logged(@, "rollback")]
  PROVE  /\ row \in UpdateJob /\ RowInv(row)
         /\ row.status = "rolling_back" /\ row.worker = job.worker
<1>0. "rollback" \in LoggedSteps
  BY DEF LoggedSteps
<1>1. Logged(job.progress, "rollback") \in Seq(LoggedSteps)
  BY <1>0, LoggedIs DEF UpdateJob, RowInv
<1>2. /\ row \in UpdateJob
      /\ row.status = "rolling_back" /\ row.worker = job.worker
      /\ row.progress = Logged(job.progress, "rollback")
  BY <1>0, <1>1 DEF UpdateJob, Steps, Statuses, Active
<1>3. Follows(LastStep(job), "rollback")
  BY DEF Follows
<1>4. /\ Len(row.progress) <= KeepProgress
      /\ LogIsWalk(row) /\ LogIsWhole(row) /\ LastStep(row) = "rollback"
  BY <1>0, <1>2, <1>3, LogContinues
<1> QED
  BY <1>2, <1>4 DEF RowInv, LogFitsStatus, LogShowsSteps

\* A handler that only closes a job leaves its log alone.
LEMMA ClosedRow ==
  ASSUME NEW job \in UpdateJob, RowInv(job), job.status \in Active,
         NEW row \in UpdateJob, row.progress = job.progress, row.worker = job.worker,
         row.status \in Final, LogFitsStatus(row),
         row.status = "completed" => job.status = "running" /\ job.step = "verify"
  PROVE  RowInv(row)
<1>1. LogIsWalk(row) /\ LogIsWhole(row)
  BY DEF RowInv, LogIsWalk, LogIsWhole, Active
<1>2. LogShowsSteps(row)
  BY DEF RowInv, LogShowsSteps, Logs, TakenBy, Final, FailedStates
<1> QED
  BY <1>1, <1>2 DEF RowInv, Active, Final, FailedStates

-----------------------------------------------------------------------------
(* What each handler does to the table *)

Becomes(j, row) == jobs' = [jobs EXCEPT ![j] = row]

\* A claim takes the first queued job when nothing is active; every other handler
\* moves an active job, for the worker that holds it, to a row the invariant
\* allows.
Starts(j, row) ==
  /\ NothingActive /\ IsFirst(j) /\ jobs[j].approved
  /\ row.status = "running" /\ row.worker \in Workers

Works(j, row) ==
  /\ jobs[j].status \in Active
  /\ row.status \in Active \cup Final
  /\ row.worker = jobs[j].worker

Moves(j, row) ==
  /\ row \in UpdateJob /\ RowInv(row)
  /\ row.approved = jobs[j].approved
  /\ Starts(j, row) \/ Works(j, row)
  /\ Becomes(j, row)

LEMMA JobRow ==
  ASSUME TypeOK, NEW j \in JobIds
  PROVE  jobs[j] \in UpdateJob
  BY ElementOfSeq DEF TypeOK, JobIds

LEMMA HandlerMoves ==
  ASSUME HostJobRows, NEW w \in Workers, NEW j \in JobIds, Handled(w, j)
  PROVE  \E row : Moves(j, row)
<1> USE DEF Moves, Becomes
<1>1. jobs[j] \in UpdateJob /\ RowInv(jobs[j])
  BY JobRow DEF HostJobRows
<1>2. CASE Claim(w, j)
  <2> DEFINE row == Taken(jobs[j], w)
  <2>1. row \in UpdateJob /\ RowInv(row)
    BY <1>1, TakenRow
  <2>2. row.approved = jobs[j].approved /\ row.status = "running" /\ row.worker = w
    BY <1>1 DEF Taken, UpdateJob
  <2>3. jobs' = [jobs EXCEPT ![j] = row]
    BY <1>2 DEF Claim
  <2>4. Starts(j, row)
    BY <1>2, <2>2 DEF Claim, Starts
  <2> QED
    BY <2>1, <2>2, <2>3, <2>4
<1>3. ASSUME NEW s \in LoggedSteps, Progress(w, j, s)
      PROVE  \E row : Moves(j, row)
  <2> DEFINE row == [jobs[j] EXCEPT !.step = s, !.progress = Logged(@, s)]
  <2>1. /\ row \in UpdateJob /\ RowInv(row)
        /\ row.status = jobs[j].status /\ row.worker = jobs[j].worker
    BY <1>1, <1>3, ReportedRow DEF Progress
  <2>2. row.approved = jobs[j].approved
    BY <1>1 DEF UpdateJob
  <2>3. jobs' = [jobs EXCEPT ![j] = row]
    BY <1>3 DEF Progress
  <2>4. Works(j, row)
    BY <1>3, <2>1 DEF Progress, MayReport, Works, Active
  <2> QED
    BY <2>1, <2>2, <2>3, <2>4
<1>4. CASE StartRollback(w, j)
  <2> DEFINE row == [jobs[j] EXCEPT !.status = "rolling_back", !.step = "rollback",
                                    !.progress = Logged(@, "rollback")]
  <2>1. /\ row \in UpdateJob /\ RowInv(row)
        /\ row.status = "rolling_back" /\ row.worker = jobs[j].worker
    BY <1>1, <1>4, RollbackRow DEF StartRollback
  <2>2. row.approved = jobs[j].approved
    BY <1>1 DEF UpdateJob
  <2>3. jobs' = [jobs EXCEPT ![j] = row]
    BY <1>4 DEF StartRollback
  <2>4. Works(j, row)
    BY <1>4, <2>1 DEF StartRollback, Works, Active
  <2> QED
    BY <2>1, <2>2, <2>3, <2>4
<1>5. CASE Complete(w, j)
  <2> DEFINE row == [jobs[j] EXCEPT !.status = "completed", !.step = "result"]
  <2>1. /\ row \in UpdateJob /\ row.approved = jobs[j].approved
        /\ row.status = "completed" /\ row.worker = jobs[j].worker
        /\ row.progress = jobs[j].progress
    BY <1>1 DEF UpdateJob, Statuses, Final, Steps
  <2>2. jobs[j].status = "running" /\ jobs[j].step = "verify"
    BY <1>5 DEF Complete
  <2>3. LogFitsStatus(row)
    BY <1>1, <2>1, <2>2 DEF RowInv, LogFitsStatus, LastStep
  <2>4. RowInv(row)
    BY <1>1, <2>1, <2>2, <2>3, ClosedRow DEF Active, Final
  <2>5. jobs' = [jobs EXCEPT ![j] = row]
    BY <1>5 DEF Complete
  <2>6. Works(j, row)
    BY <2>1, <2>2 DEF Works, Active, Final
  <2> QED
    BY <2>1, <2>4, <2>5, <2>6
<1>6. ASSUME NEW final \in FailedStates, NEW report \in RollbackReports,
             Fail(w, j, final, report)
      PROVE  \E row : Moves(j, row)
  <2> DEFINE row == [jobs[j] EXCEPT !.status = final, !.step = "result",
                                    !.rollback = report]
  <2>1. /\ row \in UpdateJob /\ row.approved = jobs[j].approved
        /\ row.status = final /\ row.worker = jobs[j].worker
        /\ row.progress = jobs[j].progress
    BY <1>1 DEF UpdateJob, Statuses, Final, Steps
  <2>2. \/ jobs[j].status = "running" /\ final = "failed"
        \/ jobs[j].status = "rolling_back" /\ final \in {"rolled_back", "rollback_failed"}
    BY <1>6 DEF Fail, MayFail
  <2>3. LogFitsStatus(row)
    <3>1. CASE jobs[j].status = "running"
      BY <1>1, <2>1, <2>2, <3>1 DEF RowInv, LogFitsStatus, LastStep
    <3>2. CASE jobs[j].status = "rolling_back"
      BY <1>1, <2>1, <2>2, <3>2 DEF RowInv, LogFitsStatus, LastStep
    <3> QED
      BY <2>2, <3>1, <3>2
  <2>4. RowInv(row)
    BY <1>1, <2>1, <2>2, <2>3, ClosedRow DEF Active, Final, FailedStates
  <2>5. jobs' = [jobs EXCEPT ![j] = row]
    BY <1>6 DEF Fail
  <2>6. Works(j, row)
    BY <2>1, <2>2 DEF Works, Active, Final
  <2> QED
    BY <2>1, <2>4, <2>5, <2>6
<1> QED
  BY <1>2, <1>3, <1>4, <1>5, <1>6 DEF Handled

LEMMA MoveTable ==
  ASSUME TypeOK, NEW j \in JobIds, NEW row, Moves(j, row)
  PROVE  /\ JobIds' = JobIds /\ Len(jobs') = Len(jobs) /\ jobs' \in Seq(UpdateJob)
         /\ \A i \in JobIds : jobs'[i] = IF i = j THEN row ELSE jobs[i]
  BY ExceptSeq DEF Moves, Becomes, TypeOK, JobIds

LEMMA QueueTable ==
  ASSUME TypeOK, NEW approved \in BOOLEAN, Queue(approved)
  PROVE  /\ jobs' \in Seq(UpdateJob)
         /\ Len(jobs') = Len(jobs) + 1 /\ JobIds' = JobIds \cup {Len(jobs) + 1}
         /\ \A i \in JobIds : jobs'[i] = jobs[i]
         /\ jobs'[Len(jobs) + 1].status = "queued" /\ RowInv(jobs'[Len(jobs) + 1])
<1> DEFINE row == [status |-> "queued", step |-> "queued", approved |-> approved,
                   worker |-> NoWorker, progress |-> <<>>, rollback |-> "none"]
<1>1. row \in UpdateJob
  BY EmptySeq DEF UpdateJob, Statuses, Steps
<1>2. RowInv(row)
  BY KeepProgressAssumption
     DEF RowInv, LogIsWalk, LogIsWhole, LogFitsStatus, LogShowsSteps
<1>3. row.status = "queued"
  OBVIOUS
<1>4. jobs' = Append(jobs, row) /\ jobs \in Seq(UpdateJob) /\ Len(jobs) \in Nat
  BY LenProperties DEF Queue, TypeOK
<1> HIDE DEF row
<1>5. /\ jobs' \in Seq(UpdateJob) /\ Len(jobs') = Len(jobs) + 1
      /\ \A i \in 1..Len(jobs) : jobs'[i] = jobs[i]
      /\ jobs'[Len(jobs) + 1] = row
  BY <1>1, <1>4, AppendProperties
<1>6. JobIds' = JobIds \cup {Len(jobs) + 1}
  BY <1>4, <1>5 DEF JobIds
<1> QED
  BY <1>2, <1>3, <1>5, <1>6 DEF JobIds

-----------------------------------------------------------------------------
(* The theorems *)

LEMMA InitInv == Init => HostUpdateJobsInv
  BY EmptySeq, MaxJobsAssumption DEF Init, HostUpdateJobsInv, HostJobRows, TypeOK, JobIds, OneActiveUpdate, StartedInOrder

LEMMA RowsNext == HostJobRows /\ [Next]_jobs => HostJobRows'
<1> SUFFICES ASSUME HostJobRows, [Next]_jobs PROVE HostJobRows'
  OBVIOUS
<1> USE DEF HostJobRows
<1>1. ASSUME NEW approved \in BOOLEAN, Queue(approved) PROVE HostJobRows'
  <2>1. Len(jobs) \in Nat /\ Len(jobs') <= MaxJobs
    BY <1>1, QueueTable, LenProperties, MaxJobsAssumption DEF Queue, TypeOK
  <2>2. \A i \in JobIds' : RowInv(jobs'[i])
    BY <1>1, QueueTable
  <2> QED
    BY <1>1, <2>1, <2>2, QueueTable DEF TypeOK, RowInv
<1>2. ASSUME NEW w \in Workers, NEW j \in JobIds, Handled(w, j) PROVE HostJobRows'
  <2>1. PICK row : Moves(j, row)
    BY <1>2, HandlerMoves
  <2>2. \A i \in JobIds' : RowInv(jobs'[i])
    BY <2>1, MoveTable DEF Moves
  <2> QED
    BY <2>1, <2>2, MoveTable DEF TypeOK, RowInv
<1>3. CASE UNCHANGED jobs
  BY <1>3 DEF TypeOK, JobIds, RowInv, LogIsWalk, LogIsWhole, LogFitsStatus, LogShowsSteps
<1> QED
  BY <1>1, <1>2, <1>3 DEF Next

LEMMA OrderNext == HostUpdateJobsInv /\ [Next]_jobs => (OneActiveUpdate /\ StartedInOrder)'
<1> SUFFICES ASSUME HostUpdateJobsInv, [Next]_jobs PROVE (OneActiveUpdate /\ StartedInOrder)'
  OBVIOUS
<1> USE DEF HostUpdateJobsInv, HostJobRows
<1>0. Len(jobs) \in Nat /\ \A i \in JobIds : i \in Nat /\ i < Len(jobs) + 1
  BY LenProperties DEF TypeOK, JobIds
<1>1. ASSUME NEW approved \in BOOLEAN, Queue(approved)
      PROVE (OneActiveUpdate /\ StartedInOrder)'
  <2>1. /\ JobIds' = JobIds \cup {Len(jobs) + 1}
        /\ \A i \in JobIds : jobs'[i] = jobs[i]
        /\ jobs'[Len(jobs) + 1].status = "queued"
    BY <1>1, QueueTable
  <2>2. OneActiveUpdate'
    BY <2>1 DEF OneActiveUpdate, Active
  <2>3. StartedInOrder'
    <3> SUFFICES ASSUME NEW i \in JobIds', NEW k \in JobIds', i <= k,
                        jobs'[k].status # "queued"
                 PROVE  jobs'[i].status # "queued" /\ jobs'[i].approved
      BY DEF StartedInOrder
    <3>1. k \in JobIds
      BY <2>1
    <3>2. i \in JobIds
      BY <1>0, <2>1, <3>1
    <3> QED
      BY <2>1, <3>1, <3>2 DEF StartedInOrder
  <2> QED
    BY <2>2, <2>3
<1>2. ASSUME NEW w \in Workers, NEW j \in JobIds, Handled(w, j)
      PROVE (OneActiveUpdate /\ StartedInOrder)'
  <2>1. PICK row : Moves(j, row)
    BY <1>2, HandlerMoves
  <2>2. JobIds' = JobIds /\ \A i \in JobIds : jobs'[i] = IF i = j THEN row ELSE jobs[i]
    BY <2>1, MoveTable
  <2>3. CASE Starts(j, row)
    <3>1. OneActiveUpdate'
      BY <2>2, <2>3 DEF OneActiveUpdate, Starts, NothingActive
    <3>2. StartedInOrder'
      <4> SUFFICES ASSUME NEW i \in JobIds, NEW k \in JobIds, i <= k,
                          jobs'[k].status # "queued"
                   PROVE  jobs'[i].status # "queued" /\ jobs'[i].approved
        BY <2>2 DEF StartedInOrder
      <4>1. row.status # "queued" /\ row.approved
        BY <2>1, <2>3 DEF Starts, Moves
      <4>2. CASE i = j
        BY <2>2, <4>1, <4>2
      <4>3. CASE i # j /\ k # j
        BY <2>2, <4>3 DEF StartedInOrder
      <4>4. CASE i # j /\ k = j
        <5>1. jobs[i].status # "queued"
          BY <1>0, <2>3, <4>4 DEF Starts, IsFirst, Queued
        <5>2. jobs[i].approved
          BY <1>0, <5>1 DEF StartedInOrder
        <5> QED
          BY <2>2, <4>4, <5>1, <5>2
      <4> QED
        BY <4>2, <4>3, <4>4
    <3> QED
      BY <3>1, <3>2
  <2>4. CASE Works(j, row)
    <3>1. jobs[j].status \in Active /\ row.status # "queued" /\ jobs[j].status # "queued"
      BY <2>4 DEF Works, Active, Final, FailedStates
    <3>2. OneActiveUpdate'
      BY <2>2, <3>1 DEF OneActiveUpdate
    <3>3. StartedInOrder'
      BY <2>1, <2>2, <3>1 DEF StartedInOrder, Moves
    <3> QED
      BY <3>2, <3>3
  <2> QED
    BY <2>1, <2>3, <2>4 DEF Moves
<1>3. CASE UNCHANGED jobs
  BY <1>3 DEF OneActiveUpdate, StartedInOrder, JobIds
<1> QED
  BY <1>1, <1>2, <1>3 DEF Next

LEMMA AlwaysIInv == Spec => []HostUpdateJobsInv
<1>1. HostUpdateJobsInv /\ [Next]_jobs => HostUpdateJobsInv'
  BY RowsNext, OrderNext DEF HostUpdateJobsInv
<1> QED
  BY InitInv, <1>1, PTL DEF Spec

\* The rows of the table, and the length of their logs, are what the handlers of
\* server/app.py assume.
THEOREM TypeCorrect == Spec => []TypeOK
<1>1. HostUpdateJobsInv => TypeOK
  BY DEF HostUpdateJobsInv, HostJobRows
<1> QED
  BY AlwaysIInv, <1>1, PTL

\* host_updater_claim_job never lets a second update become active.
THEOREM OneActive == Spec => []OneActiveUpdate
<1>1. HostUpdateJobsInv => OneActiveUpdate
  BY DEF HostUpdateJobsInv
<1> QED
  BY AlwaysIInv, <1>1, PTL

\* Updates are started by age, every one of them approved.
THEOREM InOrder == Spec => []StartedInOrder
<1>1. HostUpdateJobsInv => StartedInOrder
  BY DEF HostUpdateJobsInv
<1> QED
  BY AlwaysIInv, <1>1, PTL

\* The progress handler's step order holds in every log, cut or not.
THEOREM StepOrder == Spec => []StepsInOrder
<1>1. HostUpdateJobsInv => StepsInOrder
  BY DEF HostUpdateJobsInv, HostJobRows, RowInv, StepsInOrder
<1> QED
  BY AlwaysIInv, <1>1, PTL

\* A completed update went through every step.
THEOREM CompletedWhole == Spec => []CompletedTookEveryStep
<1>1. HostUpdateJobsInv => CompletedTookEveryStep
  BY DEF HostUpdateJobsInv, HostJobRows, RowInv, LogShowsSteps, Logs, CompletedTookEveryStep
<1> QED
  BY AlwaysIInv, <1>1, PTL

\* A finished job never changes, a claimed job never changes hands.
THEOREM FinalRows == Spec => FinishedIsFinal
<1> DEFINE A == \A j \in JobIds :
                  /\ jobs[j].status \in Final => jobs'[j] = jobs[j]
                  /\ jobs[j].worker # NoWorker => jobs'[j].worker = jobs[j].worker
<1>1. ASSUME HostUpdateJobsInv, Next PROVE A
  <2>1. ASSUME NEW approved \in BOOLEAN, Queue(approved) PROVE A
    BY <1>1, <2>1, QueueTable DEF HostUpdateJobsInv, HostJobRows
  <2>2. ASSUME NEW w \in Workers, NEW j \in JobIds, Handled(w, j) PROVE A
    <3>1. PICK row : Moves(j, row)
      BY <1>1, <2>2, HandlerMoves DEF HostUpdateJobsInv
    <3>2. \A i \in JobIds : jobs'[i] = IF i = j THEN row ELSE jobs[i]
      BY <1>1, <3>1, MoveTable DEF HostUpdateJobsInv, HostJobRows
    <3>3. /\ jobs[j].status \notin Final
          /\ jobs[j].worker # NoWorker => row.worker = jobs[j].worker
      <4>1. CASE Starts(j, row)
        BY <1>1, <4>1 DEF Starts, IsFirst, Queued, HostUpdateJobsInv, HostJobRows, RowInv, Final, FailedStates
      <4>2. CASE Works(j, row)
        BY <4>2 DEF Works, Active, Final, FailedStates
      <4> QED
        BY <3>1, <4>1, <4>2 DEF Moves
    <3> QED
      BY <3>2, <3>3
  <2> QED
    BY <1>1, <2>1, <2>2 DEF Next
<1>2. HostUpdateJobsInv /\ [Next]_jobs => [A]_jobs
  BY <1>1
<1> QED
  BY AlwaysIInv, <1>2, PTL DEF Spec, FinishedIsFinal

-----------------------------------------------------------------------------
(* Package searches *)

SearchStatuses == {"pending", "running", "completed", "failed"}
SearchRows == [client : SearchClients, status : SearchStatuses, reporter : {<<>>} \cup SearchCalls]
States == {"idle", "asking", "searching", "sent", "failing", "gaveUp"}
Calls ==
  {NoCall}
    \cup [kind : {"claim"}, token : Nat]
    \cup [kind : {"result"}, search : Nat, result : {"completed", "failed"}, token : Nat,
          seen : SearchStatuses \cup {"none"}]

PackageSearchTypeOK ==
  /\ store \in {"sqlite", "postgres"}
  /\ clients \in [SearchClients -> [token : Nat, revoked : BOOLEAN, enabled : BOOLEAN]]
  /\ searches \in Seq(SearchRows)
  /\ creating \subseteq SearchClients
  /\ agents \in [SearchAgents -> [at : States, search : Nat, waitsFor : Nat]]
  /\ calls \in [SearchCalls -> Calls]

Claimed(i) == i \in SearchIds /\ searches[i].status # "pending"

\* An agent past its claim has a search that was claimed.
AgentsClaimed ==
  \A a \in SearchAgents : agents[a].at \notin {"idle", "asking"} => Claimed(agents[a].search)

\* So does a report, answered or not.
ReportsClaimed ==
  \A k \in SearchCalls : calls[k].kind = "result" => Claimed(calls[k].search)

\* Agents that search were given different searches.
OwnSearch ==
  \A a, b \in SearchAgents :
    agents[a].at = "searching" /\ agents[b].at = "searching" /\ a # b =>
      agents[a].search # agents[b].search

PackageSearchInv == PackageSearchTypeOK /\ AgentsClaimed /\ ReportsClaimed /\ OwnSearch

LEMMA CallsOfAgents ==
  ASSUME NEW k \in SearchCalls
  PROVE  k[1] \in SearchAgents /\ k[2] \in Nat
  BY PackageSearchAssumption DEF SearchCalls

LEMMA RowsOfSearches ==
  ASSUME PackageSearchTypeOK, NEW i \in SearchIds
  PROVE  searches[i] \in SearchRows
  BY DEF PackageSearchTypeOK, SearchIds

LEMMA ReportsHave ==
  ASSUME PackageSearchTypeOK, NEW k \in SearchCalls, calls[k].kind = "result"
  PROVE  /\ calls[k] \in [kind : {"result"}, search : Nat, result : {"completed", "failed"},
                          token : Nat, seen : SearchStatuses \cup {"none"}]
         /\ calls[k].result \in {"completed", "failed"}
<1>1. calls[k] \in Calls
  BY DEF PackageSearchTypeOK
<1> QED
  BY <1>1 DEF Calls, NoCall

\* A request adds a call of its agent, whose search stays.
LEMMA SendKeeps ==
  ASSUME PackageSearchInv, NEW a \in SearchAgents, NEW call \in Calls, NEW at \in States,
         Send(a, call, at),
         at \notin {"asking", "searching"} => agents[a].at \notin {"idle", "asking"},
         at # "searching",
         call.kind = "result" => Claimed(call.search),
         UNCHANGED <<store, clients, searches, creating>>
  PROVE  PackageSearchInv'
<1> USE DEF PackageSearchInv
<1>1. PICK n \in 1 .. MaxCalls :
        /\ calls' = [calls EXCEPT ![<<a, n>>] = call]
        /\ agents' = [agents EXCEPT ![a] =
             [at |-> at, search |-> agents[a].search, waitsFor |-> n]]
  BY DEF Send, SetCall, Move, Agent
<1>2. n \in Nat
  BY PackageSearchAssumption
<1>3. PackageSearchTypeOK'
  BY <1>1, <1>2 DEF PackageSearchTypeOK
<1>4. AgentsClaimed'
  BY <1>1 DEF AgentsClaimed, PackageSearchTypeOK, Claimed, SearchIds
<1>5. ReportsClaimed'
  BY <1>1 DEF ReportsClaimed, PackageSearchTypeOK, Claimed, SearchIds
<1>6. OwnSearch'
  BY <1>1 DEF OwnSearch, PackageSearchTypeOK
<1> QED
  BY <1>3, <1>4, <1>5, <1>6

\* Users and administrators: searches are only added.
LEMMA UsersStep ==
  ASSUME PackageSearchInv, NEW c \in SearchClients,
         \/ RotateToken(c) \/ DisableClient(c)
         \/ AllowSearch(c) \/ SqliteCreateSearch(c) \/ PgCreateSearch(c)
  PROVE  PackageSearchInv'
<1> USE DEF PackageSearchInv
<1>1. CASE RotateToken(c) \/ DisableClient(c) \/ AllowSearch(c)
  <2>1. UNCHANGED <<store, searches, agents, calls>>
    BY <1>1 DEF RotateToken, DisableClient, AllowSearch
  <2>2. clients' \in [SearchClients -> [token : Nat, revoked : BOOLEAN, enabled : BOOLEAN]]
    <3> USE DEF PackageSearchTypeOK
    <3>1. CASE RotateToken(c)
      <4> DEFINE row == [clients[c] EXCEPT !.token = @ + 1, !.revoked = FALSE]
      <4>1. row \in [token : Nat, revoked : BOOLEAN, enabled : BOOLEAN]
        <5>1. clients[c] \in [token : Nat, revoked : BOOLEAN, enabled : BOOLEAN]
          OBVIOUS
        <5>2. [clients[c] EXCEPT !.token = @ + 1] \in
                [token : Nat, revoked : BOOLEAN, enabled : BOOLEAN]
          BY <5>1
        <5> QED
          BY <5>2
      <4>2. clients' = [clients EXCEPT ![c] = row]
        BY <3>1 DEF RotateToken
      <4> QED
        BY <4>1, <4>2
    <3>2. CASE DisableClient(c)
      <4> DEFINE row == [clients[c] EXCEPT !.enabled = FALSE, !.revoked = TRUE]
      <4>1. row \in [token : Nat, revoked : BOOLEAN, enabled : BOOLEAN]
        OBVIOUS
      <4>2. clients' = [clients EXCEPT ![c] = row]
        BY <3>2 DEF DisableClient
      <4> QED
        BY <4>1, <4>2
    <3>3. CASE AllowSearch(c)
      BY <3>3 DEF AllowSearch
    <3> QED
      BY <1>1, <3>1, <3>2, <3>3
  <2>3. creating' \subseteq SearchClients
    BY <1>1 DEF RotateToken, DisableClient, AllowSearch, PackageSearchTypeOK
  <2>4. PackageSearchTypeOK'
    BY <2>1, <2>2, <2>3 DEF PackageSearchTypeOK
  <2> QED
    BY <2>1, <2>4 DEF AgentsClaimed, ReportsClaimed, OwnSearch, Claimed, SearchIds
<1>2. CASE SqliteCreateSearch(c) \/ PgCreateSearch(c)
  <2> DEFINE row == [client |-> c, status |-> "pending", reporter |-> <<>>]
  <2>1. /\ searches' = Append(searches, row)
        /\ creating' \subseteq SearchClients
        /\ UNCHANGED <<store, clients, agents, calls>>
    BY <1>2 DEF SqliteCreateSearch, PgCreateSearch, AddSearch, PackageSearchTypeOK
  <2>2. row \in SearchRows
    BY DEF SearchRows, SearchStatuses
  <2>3. PackageSearchTypeOK'
    BY <2>1, <2>2 DEF PackageSearchTypeOK
  <2>4. \A i \in SearchIds : i \in SearchIds' /\ searches'[i] = searches[i]
    BY <2>1, <2>2 DEF PackageSearchTypeOK, SearchIds
  <2> QED
    BY <2>1, <2>3, <2>4 DEF AgentsClaimed, ReportsClaimed, OwnSearch, Claimed
<1> QED
  BY <1>1, <1>2

\* The agent's own steps (execute_package_search).
LEMMA AgentStep ==
  ASSUME PackageSearchInv, NEW a \in SearchAgents,
         Ask(a) \/ SendResult(a) \/ TurnsToFailure(a) \/ SendFailure(a) \/ GivesUp(a)
  PROVE  PackageSearchInv'
<1> USE DEF PackageSearchInv
<1>1. Installed(a) \in Nat
  BY PackageSearchAssumption DEF Installed, PackageSearchTypeOK
<1>2. CASE Ask(a)
  <2> DEFINE call == [kind |-> "claim", token |-> Installed(a)]
  <2>1. call \in Calls /\ "asking" \in States
    BY <1>1 DEF Calls, States
  <2> QED
    BY <1>2, <2>1, SendKeeps DEF Ask
<1>3. ASSUME agents[a].at \notin {"idle", "asking"}, NEW result \in {"completed", "failed"},
             NEW at \in {"sent", "gaveUp"}, SendReport(a, result, at),
             UNCHANGED <<store, clients, searches, creating>>
      PROVE  PackageSearchInv'
  <2> DEFINE call == [kind |-> "result", search |-> agents[a].search, result |-> result,
                      token |-> Installed(a), seen |-> "none"]
  <2>1. call \in Calls /\ at \in States
    BY <1>1 DEF Calls, States, PackageSearchTypeOK
  <2>2. Claimed(call.search)
    BY <1>3 DEF AgentsClaimed
  <2> QED
    BY <1>3, <2>1, <2>2, SendKeeps DEF SendReport
<1>4. CASE SendResult(a)
  BY <1>3, <1>4 DEF SendResult
<1>5. CASE SendFailure(a)
  BY <1>3, <1>5 DEF SendFailure
<1>6. CASE TurnsToFailure(a) \/ GivesUp(a)
  <2>1. PICK state \in [at : {"idle", "failing"}, search : Nat, waitsFor : Nat] :
          /\ agents' = [agents EXCEPT ![a] = state]
          /\ state.at = "failing" =>
               agents[a].at \notin {"idle", "asking"} /\ state.search = agents[a].search
    BY <1>6 DEF TurnsToFailure, GivesUp, Failing, Move, Agent, Resting, PackageSearchTypeOK
  <2>2. UNCHANGED <<store, clients, searches, creating, calls>>
    BY <1>6 DEF TurnsToFailure, GivesUp
  <2>3. state \in [at : States, search : Nat, waitsFor : Nat]
    BY DEF States
  <2>4. PackageSearchTypeOK'
    BY <2>1, <2>2, <2>3 DEF PackageSearchTypeOK
  <2>5. AgentsClaimed'
    BY <2>1, <2>2 DEF AgentsClaimed, PackageSearchTypeOK, Claimed, SearchIds
  <2>6. ReportsClaimed'
    BY <2>2 DEF ReportsClaimed, Claimed, SearchIds
  <2>7. OwnSearch'
    BY <2>1 DEF OwnSearch, PackageSearchTypeOK
  <2> QED
    BY <2>4, <2>5, <2>6, <2>7
<1> QED
  BY <1>2, <1>4, <1>5, <1>6

\* get_pending_package_search: what is claimed was pending, so it is nobody's.
LEMMA ClaimStep ==
  ASSUME PackageSearchInv, NEW k \in SearchCalls, ClaimSearch(k)
  PROVE  PackageSearchInv'
<1> USE DEF PackageSearchInv
<1>1. k[1] \in SearchAgents
  BY CallsOfAgents
<1>2. PICK i \in OldestOf(AgentOf[k[1]]) :
        /\ searches' = [searches EXCEPT ![i].status = "running"]
        /\ \/ agents' = [agents EXCEPT ![k[1]] = [at |-> "searching", search |-> i, waitsFor |-> 0]]
           \/ agents' = agents
  BY DEF ClaimSearch, Move, Agent
<1>3. i \in SearchIds /\ searches[i].status = "pending" /\ i \in Nat
  BY DEF OldestOf, SearchIds, PackageSearchTypeOK
<1>4. calls' = [calls EXCEPT ![k] = NoCall] /\ UNCHANGED <<store, clients, creating>>
  BY DEF ClaimSearch, SetCall
<1> DEFINE row == [searches[i] EXCEPT !.status = "running"]
<1>5. row \in SearchRows /\ row.status = "running"
  BY <1>3, RowsOfSearches DEF SearchRows, SearchStatuses
<1> HIDE DEF row
<1>6. /\ searches' = [searches EXCEPT ![i] = row] /\ searches' \in Seq(SearchRows)
      /\ SearchIds' = SearchIds
      /\ \A j \in SearchIds : searches'[j] = IF j = i THEN row ELSE searches[j]
  BY <1>2, <1>3, <1>5, ExceptSeq DEF row, PackageSearchTypeOK, SearchIds
<1>7. Claimed(i)' /\ \A j : Claimed(j) => Claimed(j)'
  BY <1>3, <1>5, <1>6 DEF Claimed
<1>8. \A a \in SearchAgents : agents[a].at = "searching" => agents[a].search # i
  BY <1>3 DEF AgentsClaimed, Claimed
<1>9. [at |-> "searching", search |-> i, waitsFor |-> 0] \in
        [at : States, search : Nat, waitsFor : Nat]
  BY <1>3 DEF States
<1>10. PackageSearchTypeOK'
  <2>1. agents' \in [SearchAgents -> [at : States, search : Nat, waitsFor : Nat]]
    BY <1>1, <1>2, <1>9 DEF PackageSearchTypeOK
  <2>2. calls' \in [SearchCalls -> Calls]
    BY <1>4 DEF PackageSearchTypeOK, Calls
  <2> QED
    BY <1>4, <1>6, <2>1, <2>2 DEF PackageSearchTypeOK
<1>11. AgentsClaimed'
  <2>1. CASE agents' = agents
    BY <1>7, <2>1 DEF AgentsClaimed, Claimed
  <2>2. CASE agents' = [agents EXCEPT ![k[1]] = [at |-> "searching", search |-> i, waitsFor |-> 0]]
    <3> SUFFICES ASSUME NEW a \in SearchAgents, agents'[a].at \notin {"idle", "asking"}
                 PROVE  Claimed(agents[a].search)'
      BY DEF AgentsClaimed
    <3>1. CASE a = k[1]
      <4>1. agents'[a].search = i
        BY <1>1, <2>2, <3>1 DEF PackageSearchTypeOK
      <4> QED
        BY <1>7, <4>1 DEF Claimed
    <3>2. CASE a # k[1]
      <4>1. agents'[a] = agents[a]
        BY <2>2, <3>2 DEF PackageSearchTypeOK
      <4>2. Claimed(agents[a].search)
        BY <4>1 DEF AgentsClaimed
      <4> QED
        BY <1>7, <4>1, <4>2 DEF Claimed
    <3> QED
      BY <3>1, <3>2
  <2> QED
    BY <1>2, <2>1, <2>2
<1>12. ReportsClaimed'
  <2>1. \A j \in SearchCalls : calls'[j].kind = "result" => calls'[j] = calls[j]
    BY <1>4 DEF PackageSearchTypeOK, NoCall
  <2> QED
    BY <1>7, <2>1 DEF ReportsClaimed, Claimed
<1>13. OwnSearch'
  <2>1. CASE agents' = agents
    BY <2>1 DEF OwnSearch
  <2>2. CASE agents' = [agents EXCEPT ![k[1]] = [at |-> "searching", search |-> i, waitsFor |-> 0]]
    <3>1. \A a \in SearchAgents :
            IF a = k[1] THEN agents'[a].search = i ELSE agents'[a] = agents[a]
      BY <1>1, <2>2 DEF PackageSearchTypeOK
    <3> QED
      BY <1>8, <3>1 DEF OwnSearch
  <2> QED
    BY <1>2, <2>1, <2>2
<1> QED
  BY <1>10, <1>11, <1>12, <1>13

\* package_search_result: a row that is not running is left.
LEMMA ResultStep ==
  ASSUME PackageSearchInv, NEW k \in SearchCalls,
         NothingToDo(k) \/ SeeStatus(k) \/ StoreResult(k) \/ RefuseResult(k)
  PROVE  PackageSearchInv'
<1> USE DEF PackageSearchInv
<1>1. k[1] \in SearchAgents
  BY CallsOfAgents
<1>2. \/ agents' = agents
      \/ agents' = [agents EXCEPT ![k[1]] = [at |-> "idle", search |-> 0, waitsFor |-> 0]]
      \/ /\ agents[k[1]].at = "sent"
         /\ agents' = [agents EXCEPT ![k[1]] =
              [at |-> "failing", search |-> agents[k[1]].search, waitsFor |-> 0]]
  BY DEF NothingToDo, SeeStatus, StoreResult, RefuseResult, Move, Agent, Resting, Failing
<1> DEFINE Moved ==
      /\ agents' \in [SearchAgents -> [at : States, search : Nat, waitsFor : Nat]]
      /\ \A a \in SearchAgents : agents'[a].at \notin {"idle", "asking"} =>
           agents[a].at \notin {"idle", "asking"} /\ agents'[a].search = agents[a].search
      /\ \A a \in SearchAgents : agents'[a].at = "searching" => agents'[a] = agents[a]
<1>3. Moved
  <2> USE DEF PackageSearchTypeOK
  <2>1. CASE agents' = agents
    BY <2>1
  <2>2. CASE agents' = [agents EXCEPT ![k[1]] = [at |-> "idle", search |-> 0, waitsFor |-> 0]]
    <3>1. [at |-> "idle", search |-> 0, waitsFor |-> 0]
            \in [at : States, search : Nat, waitsFor : Nat]
      BY DEF States
    <3> QED
      BY <1>1, <2>2, <3>1
  <2>3. CASE /\ agents[k[1]].at = "sent"
             /\ agents' = [agents EXCEPT ![k[1]] =
                  [at |-> "failing", search |-> agents[k[1]].search, waitsFor |-> 0]]
    <3>1. [at |-> "failing", search |-> agents[k[1]].search, waitsFor |-> 0]
            \in [at : States, search : Nat, waitsFor : Nat]
      BY <1>1 DEF States
    <3> QED
      BY <1>1, <2>3, <3>1
  <2> QED
    BY <1>2, <2>1, <2>2, <2>3
<1>4. ASSUME UNCHANGED <<store, clients, creating>>,
             searches' \in Seq(SearchRows), \A i : Claimed(i) => Claimed(i)',
             NEW call \in Calls, calls' = [calls EXCEPT ![k] = call],
             call.kind = "result" => Claimed(call.search)
      PROVE  PackageSearchInv'
  <2>1. PackageSearchTypeOK'
    BY <1>3, <1>4 DEF PackageSearchTypeOK
  <2>2. AgentsClaimed'
    BY <1>3, <1>4 DEF AgentsClaimed, Claimed
  <2>3. ReportsClaimed'
    BY <1>4 DEF ReportsClaimed, PackageSearchTypeOK
  <2>4. OwnSearch'
    BY <1>3 DEF OwnSearch
  <2> QED
    BY <2>1, <2>2, <2>3, <2>4
<1>5. NoCall \in Calls /\ NoCall.kind # "result"
  BY DEF Calls, NoCall
<1>6. CASE NothingToDo(k) \/ RefuseResult(k)
  <2>1. \A i : Claimed(i) => Claimed(i)'
    BY <1>6 DEF NothingToDo, RefuseResult, Claimed, SearchIds
  <2> QED
    BY <1>4, <1>5, <1>6, <2>1 DEF NothingToDo, RefuseResult, SetCall, PackageSearchTypeOK
<1>7. CASE SeeStatus(k)
  <2> DEFINE call == [calls[k] EXCEPT !.seen = searches[calls[k].search].status]
  <2>1. calls[k].kind = "result" /\ Claimed(calls[k].search)
    BY <1>7 DEF SeeStatus, ReportsClaimed
  <2>2. searches[calls[k].search].status \in SearchStatuses
    BY <2>1, RowsOfSearches DEF Claimed, SearchRows
  <2>3. call \in Calls /\ call.search = calls[k].search
    BY <2>1, <2>2, ReportsHave DEF Calls
  <2>4. \A i : Claimed(i) => Claimed(i)'
    BY <1>7 DEF SeeStatus, Claimed, SearchIds
  <2> QED
    BY <1>4, <1>7, <2>1, <2>3, <2>4 DEF SeeStatus, SetCall, PackageSearchTypeOK
<1>8. CASE StoreResult(k)
  <2> DEFINE i == calls[k].search
             row == [searches[i] EXCEPT !.status = calls[k].result, !.reporter = k]
  <2>1. calls[k].kind = "result" /\ i \in SearchIds /\ searches[i].status # "pending"
    BY <1>8 DEF StoreResult, ReportsClaimed, Claimed
  <2>2. row \in SearchRows /\ row.status # "pending"
    BY <2>1, ReportsHave, RowsOfSearches DEF SearchRows, SearchStatuses
  <2>3. searches' = searches \/ searches' = [searches EXCEPT ![i] = row]
    BY <1>8 DEF StoreResult
  <2> HIDE DEF i, row
  <2>4. searches' \in Seq(SearchRows) /\ \A j : Claimed(j) => Claimed(j)'
    <3>1. CASE searches' = searches
      BY <3>1 DEF PackageSearchTypeOK, SearchIds, Claimed
    <3>2. CASE searches' = [searches EXCEPT ![i] = row]
      <4>1. /\ searches' \in Seq(SearchRows) /\ SearchIds' = SearchIds
            /\ \A j \in SearchIds : searches'[j] = IF j = i THEN row ELSE searches[j]
        BY <2>1, <2>2, <3>2, ExceptSeq DEF PackageSearchTypeOK, SearchIds
      <4> QED
        BY <2>2, <4>1 DEF Claimed
    <3> QED
      BY <2>3, <3>1, <3>2
  <2> QED
    BY <1>4, <1>5, <1>8, <2>4 DEF StoreResult, SetCall
<1> QED
  BY <1>6, <1>7, <1>8

LEMMA InvStep == PackageSearchInv /\ [PackageSearchNext]_searchVars => PackageSearchInv'
<1>1. CASE UNCHANGED searchVars
  BY <1>1 DEF searchVars, PackageSearchInv, PackageSearchTypeOK, AgentsClaimed, ReportsClaimed, OwnSearch,
     Claimed, SearchIds
<1> QED
  BY <1>1, UsersStep, AgentStep, ClaimStep, ResultStep DEF PackageSearchNext

\* A step leaves what has ended as it is.
LEMMA EndedStay ==
  ASSUME PackageSearchInv, PackageSearchNext, NEW i \in SearchIds,
         searches[i].status \in {"completed", "failed"}
  PROVE  searches'[i] = searches[i]
<1> USE DEF PackageSearchInv, PackageSearchTypeOK, SearchIds
<1>1. ASSUME NEW c \in SearchClients, SqliteCreateSearch(c) \/ PgCreateSearch(c)
      PROVE  searches'[i] = searches[i]
  <2>1. [client |-> c, status |-> "pending", reporter |-> <<>>] \in SearchRows
    BY DEF SearchRows, SearchStatuses
  <2>2. searches' = Append(searches, [client |-> c, status |-> "pending", reporter |-> <<>>])
    BY <1>1 DEF SqliteCreateSearch, PgCreateSearch, AddSearch
  <2> QED
    BY <2>1, <2>2, AppendProperties
<1>2. ASSUME NEW k \in SearchCalls, ClaimSearch(k) PROVE searches'[i] = searches[i]
  BY <1>2 DEF ClaimSearch, OldestOf
<1>3. ASSUME NEW k \in SearchCalls, StoreResult(k) PROVE searches'[i] = searches[i]
  BY <1>3 DEF StoreResult, Takes
<1> QED
  BY <1>1, <1>2, <1>3 DEF PackageSearchNext, RotateToken, DisableClient, AllowSearch, Ask,
     SendResult, TurnsToFailure, SendFailure, GivesUp, NothingToDo, SeeStatus, RefuseResult

\* A search that has ended stays as it is, whatever reports come late or twice, and
\* no two agents run one (postgres_package_search.py and app.py, package_search_result).
THEOREM SearchesAlwaysEndOnce == PackageSearchSpec => SearchesEndOnce
<1> DEFINE Once ==
      /\ \A i \in SearchIds :
           searches[i].status \in {"completed", "failed"} => searches'[i] = searches[i]
      /\ \A a, b \in SearchAgents :
           {agents'[a].at, agents'[b].at} = {"searching"} /\ a # b =>
             agents'[a].search # agents'[b].search
<1>1. PackageSearchInit => PackageSearchInv
  <2> SUFFICES ASSUME PackageSearchInit PROVE PackageSearchInv
    OBVIOUS
  <2>1. PackageSearchTypeOK
    BY DEF PackageSearchInit, PackageSearchTypeOK, Resting, Agent, States, Calls
  <2> QED
    BY <2>1 DEF PackageSearchInit, PackageSearchInv, AgentsClaimed, ReportsClaimed, OwnSearch, Resting,
       Agent, NoCall
<1>2. PackageSearchInv /\ PackageSearchInv' /\ [PackageSearchNext]_searchVars => [Once]_searchVars
  <2> SUFFICES ASSUME PackageSearchInv, PackageSearchInv', PackageSearchNext PROVE Once
    OBVIOUS
  <2>1. ASSUME NEW a \in SearchAgents, NEW b \in SearchAgents, a # b,
               {agents'[a].at, agents'[b].at} = {"searching"}
        PROVE  agents'[a].search # agents'[b].search
    <3>1. agents'[a].at = "searching" /\ agents'[b].at = "searching"
      BY <2>1
    <3> QED
      BY <2>1, <3>1 DEF PackageSearchInv, OwnSearch
  <2> QED
    BY <2>1, EndedStay
<1> QED
  BY <1>1, <1>2, InvStep, PTL DEF PackageSearchSpec, SearchesEndOnce

-----------------------------------------------------------------------------
(* Telemetry *)

\* The snapshot saved last shows whether the failure recorded last is over.
StatusTells ==
  engine = "postgres" =>
    /\ recovered \in {"yes", "no"}
    /\ status.state # "failed" => recovered = "yes"

\* SQLite's requests alone stop at "read"; PostgreSQL's are saved in one step.
OnlySqliteReads ==
  engine = "postgres" => \A t \in TelemetryThreads : requests[t].at # "read"

RequestsAre == requests = [t \in TelemetryThreads |-> requests[t]]

HistoryInv == StatusTells /\ OnlySqliteReads /\ RequestsAre

\* What a request saved with PostgreSQL makes of the history
\* (record_telemetry_system_events): an event of a failure comes only after a
\* status that was not failed.
LEMMA SaveTells ==
  ASSUME StatusTells, NEW t \in TelemetryThreads, PgSave(t)
  PROVE  StatusTells'
<1> DEFINE report == requests[t].report
           events == ServiceEvents(status, report, requests[t].now)
<1>1. engine = "postgres" /\ engine' = engine
  BY DEF PgSave, Store, LocksClient
<1>2. status' = IF report.state # "none"
                THEN [state |-> report.state, ssh |-> report.ssh, at |-> requests[t].now]
                ELSE status
  BY DEF PgSave, Store, HasSnapshot
<1>3. recovered' = RecoveredAfter(report.state, events)
  BY Zenon DEF PgSave, Store
<1>4. report.state = "failed" /\ status.state = "failed" => events = <<>>
  BY DEF ServiceEvents
<1>5. report.state # "none" => status'.state = report.state
  BY <1>2
<1> HIDE DEF report, events
<1>6. CASE report.state = "none"
  BY <1>1, <1>2, <1>3, <1>6 DEF StatusTells, RecoveredAfter
<1>7. CASE report.state # "none"
  BY <1>1, <1>3, <1>4, <1>5, <1>7 DEF StatusTells, RecoveredAfter
<1> QED
  BY <1>6, <1>7

LEMMA HistoryStep ==
  ASSUME HistoryInv, [TelemetryNext]_telemetryVars
  PROVE  HistoryInv'
<1> USE DEF HistoryInv, RequestsAre, OnlySqliteReads
<1>1. CASE Tick \/ RevokeToken
  BY <1>1 DEF Tick, RevokeToken, StatusTells
<1>2. ASSUME NEW t \in TelemetryThreads, NEW report \in Reports, Receive(t, report)
      PROVE  HistoryInv'
  BY <1>2 DEF Receive, StatusTells
<1>3. ASSUME NEW t \in TelemetryThreads, ReadStatus(t) PROVE HistoryInv'
  BY <1>3 DEF ReadStatus, LocksClient, StatusTells
<1>4. ASSUME NEW t \in TelemetryThreads, SqliteSave(t) PROVE HistoryInv'
  <2>1. engine # "postgres"
    BY <1>4 DEF SqliteSave
  <2> QED
    BY <1>4, <2>1 DEF SqliteSave, Store, Answered, StatusTells
<1>5. ASSUME NEW t \in TelemetryThreads, PgSave(t) PROVE HistoryInv'
  <2>1. StatusTells'
    BY <1>5, SaveTells
  <2>2. OnlySqliteReads' /\ RequestsAre'
    BY <1>5 DEF PgSave, Store, Answered, NoRequest
  <2> QED
    BY <2>1, <2>2
<1>6. ASSUME NEW t \in TelemetryThreads, PgRefuse(t) PROVE HistoryInv'
  BY <1>6 DEF PgRefuse, Answered, NoRequest, StatusTells
<1>7. CASE UNCHANGED telemetryVars
  BY <1>7 DEF telemetryVars, StatusTells
<1>8. ASSUME NEW t \in TelemetryThreads, SqliteSaveLoad(t) PROVE HistoryInv'
  <2>1. engine # "postgres"
    BY <1>8 DEF SqliteSaveLoad, LocksClient
  <2> QED
    BY <1>8, <2>1 DEF SqliteSaveLoad, Store, Answered, StatusTells
<1> QED
  BY <1>1, <1>2, <1>3, <1>4, <1>5, <1>6, <1>7, <1>8 DEF TelemetryNext

\* With PostgreSQL a failure of a service is recorded once, whatever snapshots the
\* client sends side by side (postgres_telemetry.py, ingest_telemetry).
THEOREM FailuresRecordedOnce == TelemetrySpec => []OneEventPerFailure
<1>1. TelemetryInit => HistoryInv
  BY DEF TelemetryInit, HistoryInv, StatusTells, OnlySqliteReads, RequestsAre, NoRequest
<1>2. HistoryInv => OneEventPerFailure
  BY DEF HistoryInv, StatusTells, OneEventPerFailure
<1>3. HistoryInv /\ [TelemetryNext]_telemetryVars => HistoryInv'
  BY HistoryStep
<1> QED
  BY <1>1, <1>2, <1>3, PTL DEF TelemetrySpec

-----------------------------------------------------------------------------
(* The list of a page *)

\* Induction over the natural numbers, as a fact of first order.
LEMMA LeastNumber ==
  ASSUME NEW T \in SUBSET Nat, T # {}
  PROVE  \E x \in T : \A y \in T : x <= y
<1>1. \E x \in T : \A y \in T : ~(<<y, x>> \in OpToRel(<, Nat))
  <2>1. T \subseteq Nat
    OBVIOUS
  <2>. HIDE DEF OpToRel
  <2> QED
    BY <2>1, NatLessThanWellFounded, WFMin
<1>2. \A x \in T : \A y \in T : ~(<<y, x>> \in OpToRel(<, Nat)) => x <= y
  BY DEF OpToRel
<1> QED
  BY <1>1, <1>2

Rounds(g, n, base, step) == g[0] = base /\ \A m \in 1..n : g[m] = step[<<g[m - 1], m>>]

\* A loop has a value after each of its rounds.
LEMMA LoopRuns ==
  ASSUME NEW V, NEW base \in V, NEW N \in Nat, NEW step \in [V \X (1..N) -> V]
  PROVE  \E g \in [0..N -> V] : Rounds(g, N, base, step)
<1> DEFINE Without == {n \in 0..N : ~\E g \in [0..n -> V] : Rounds(g, n, base, step)}
<1> SUFFICES ASSUME Without # {} PROVE FALSE
  OBVIOUS
<1>1. PICK n \in Without : \A m \in Without : n <= m
  <2>1. Without \in SUBSET Nat
    OBVIOUS
  <2> HIDE DEF Without
  <2> QED
    BY <2>1, LeastNumber
<1>2. CASE n = 0
  <2> DEFINE g == [m \in 0..0 |-> base]
  <2>1. g \in [0..0 -> V] /\ Rounds(g, 0, base, step)
    BY DEF Rounds
  <2> QED
    BY <1>1, <1>2, <2>1
<1>3. CASE n # 0
  <2>1. n - 1 \in 0..N /\ n - 1 \notin Without /\ n \in 1..N
    BY <1>1, <1>3
  <2>2. PICK g \in [0..(n - 1) -> V] : Rounds(g, n - 1, base, step)
    BY <2>1
  <2> DEFINE h == [m \in 0..n |-> IF m = n THEN step[<<g[n - 1], n>>] ELSE g[m]]
  <2>3. h \in [0..n -> V]
    <3>1. step[<<g[n - 1], n>>] \in V
      BY <2>1
    <3> QED
      BY <2>1, <3>1
  <2>4. h[0] = base
    BY <2>1, <2>2 DEF Rounds
  <2>5. ASSUME NEW m \in 1..n PROVE h[m] = step[<<h[m - 1], m>>]
    <3>1. h[m - 1] = g[m - 1]
      BY <2>1
    <3>2. CASE m = n
      <4>1. h[m] = step[<<g[m - 1], m>>]
        BY <3>2
      <4> QED
        BY <3>1, <4>1
    <3>3. CASE m # n
      <4>1. m \in 1..(n - 1) /\ h[m] = g[m]
        BY <2>1, <3>3
      <4>2. g[m] = step[<<g[m - 1], m>>]
        BY <2>2, <4>1 DEF Rounds
      <4> QED
        BY <3>1, <4>1, <4>2
    <3> QED
      BY <3>2, <3>3
  <2> HIDE DEF h
  <2>6. Rounds(h, n, base, step)
    BY <2>4, <2>5 DEF Rounds
  <2> QED
    BY <1>1, <2>3, <2>6
<1> QED
  BY <1>2, <1>3

\* What the loop of Chosen has after each row.
ChosenTo(c, rows, S) ==
  /\ c[0] = <<>>
  /\ \A n \in 1..Len(rows) : c[n] = IF n \in S THEN Append(c[n - 1], rows[n]) ELSE c[n - 1]

LEMMA ChosenRuns ==
  ASSUME NEW E, NEW rows \in Seq(E), NEW S
  PROVE  \E c \in [0..Len(rows) -> Seq(E)] :
           ChosenTo(c, rows, S) /\ Chosen(rows, S) = c[Len(rows)]
<1> DEFINE N == Len(rows)
           step == [p \in Seq(E) \X (1..N) |->
                      IF p[2] \in S THEN Append(p[1], rows[p[2]]) ELSE p[1]]
           Unfolds(g) == g = [n \in 0..N |-> IF n = 0 THEN <<>>
                                ELSE IF n \in S THEN Append(g[n - 1], rows[n]) ELSE g[n - 1]]
           c == CHOOSE g : Unfolds(g)
<1>1. N \in Nat /\ <<>> \in Seq(E) /\ \A n \in 1..N : rows[n] \in E
  OBVIOUS
<1>2. step \in [Seq(E) \X (1..N) -> Seq(E)]
  BY <1>1
<1>3. \A s \in Seq(E), n \in 1..N :
        step[<<s, n>>] = IF n \in S THEN Append(s, rows[n]) ELSE s
  OBVIOUS
<1> HIDE DEF step, N
<1>4. PICK g \in [0..N -> Seq(E)] : Rounds(g, N, <<>>, step)
  BY <1>1, <1>2, LoopRuns
<1>5. Unfolds(g)
  <2>1. \A n \in 0..N : g[n] = IF n = 0 THEN <<>>
                               ELSE IF n \in S THEN Append(g[n - 1], rows[n]) ELSE g[n - 1]
    <3> SUFFICES ASSUME NEW n \in 0..N, n # 0
                 PROVE  g[n] = IF n \in S THEN Append(g[n - 1], rows[n]) ELSE g[n - 1]
      BY <1>4 DEF Rounds
    <3>1. n \in 1..N /\ g[n - 1] \in Seq(E)
      BY <1>1
    <3> QED
      BY <1>3, <1>4, <3>1 DEF Rounds
  <2> QED
    BY <2>1
<1>6. Unfolds(c)
  BY <1>5
<1>7. Chosen(rows, S) = c[N]
  BY DEF Chosen, N
<1> HIDE DEF c
<1>8. c = g
  <2> DEFINE Apart == {n \in 0..N : c[n] # g[n]}
  <2>1. Apart = {}
    <3> SUFFICES ASSUME Apart # {} PROVE FALSE
      OBVIOUS
    <3>1. PICK n \in Apart : \A m \in Apart : n <= m
      <4>1. Apart \in SUBSET Nat
        BY <1>1
      <4> HIDE DEF Apart
      <4> QED
        BY <4>1, LeastNumber
    <3>2. n # 0
      BY <1>5, <1>6, <3>1
    <3>3. n - 1 \in 0..N /\ n - 1 \notin Apart
      BY <1>1, <3>1, <3>2
    <3> QED
      BY <1>5, <1>6, <3>1, <3>2, <3>3
  <2>2. DOMAIN c = 0..N /\ c = [n \in 0..N |-> c[n]]
    BY <1>6
  <2> QED
    BY <2>1, <2>2
<1>9. ChosenTo(g, rows, S)
  <2>1. ASSUME NEW n \in 1..N
        PROVE  g[n] = IF n \in S THEN Append(g[n - 1], rows[n]) ELSE g[n - 1]
    <3>1. g[n - 1] \in Seq(E)
      BY <1>1
    <3> QED
      BY <1>3, <1>4, <3>1 DEF Rounds
  <2> QED
    BY <1>4, <2>1 DEF Rounds, ChosenTo, N
<1>10. Chosen(rows, S) = g[N]
  BY <1>7, <1>8
<1> QED
  BY <1>4, <1>9, <1>10 DEF N

ByTime(s) == \A k, l \in 1..Len(s) : k <= l => s[k].at <= s[l].at

\* What is chosen are rows that are to be chosen, in their order.
LEMMA ChosenIs ==
  ASSUME NEW E, NEW rows \in Seq(E), NEW S,
         \A e \in E : e.at \in Nat, ByTime(rows)
  PROVE  /\ Chosen(rows, S) \in Seq(E)
         /\ ByTime(Chosen(rows, S))
         /\ \A k \in 1..Len(Chosen(rows, S)) :
              \E i \in 1..Len(rows) : i \in S /\ Chosen(rows, S)[k] = rows[i]
<1>1. Len(rows) \in Nat /\ \A i \in 1..Len(rows) : rows[i] \in E /\ rows[i].at \in Nat
  OBVIOUS
<1>2. PICK c \in [0..Len(rows) -> Seq(E)] :
        ChosenTo(c, rows, S) /\ Chosen(rows, S) = c[Len(rows)]
  BY ChosenRuns
<1>3. /\ c[0] = <<>>
      /\ \A n \in 1..Len(rows) :
           c[n] = IF n \in S THEN Append(c[n - 1], rows[n]) ELSE c[n - 1]
      /\ Chosen(rows, S) = c[Len(rows)]
  BY <1>2 DEF ChosenTo
<1> DEFINE From(n) == \A k \in 1..Len(c[n]) : \E i \in 1..n : i \in S /\ c[n][k] = rows[i]
           Bad == {n \in 0..Len(rows) : ~(ByTime(c[n]) /\ From(n))}
<1>4. Bad = {}
  <2> SUFFICES ASSUME Bad # {} PROVE FALSE
    OBVIOUS
  <2>1. PICK n \in Bad : \A m \in Bad : n <= m
    <3>1. Bad \in SUBSET Nat
      BY <1>1
    <3> HIDE DEF Bad
    <3> QED
      BY <3>1, LeastNumber
  <2>2. n # 0
    <3>1. ByTime(c[0]) /\ From(0)
      BY <1>3 DEF ByTime
    <3> QED
      BY <2>1, <3>1
  <2>3. n \in 1..Len(rows) /\ n - 1 \in 0..Len(rows) /\ n - 1 \notin Bad
    BY <1>1, <2>1, <2>2
  <2>4. ByTime(c[n - 1]) /\ From(n - 1) /\ c[n - 1] \in Seq(E)
    BY <2>3
  <2>5. ~(ByTime(c[n]) /\ From(n))
    BY <2>1
  <2>6. CASE n \notin S
    <3>1. c[n] = c[n - 1]
      BY <1>3, <2>3, <2>6
    <3>2. From(n)
      BY <2>3, <2>4, <3>1
    <3> QED
      BY <2>4, <2>5, <3>1, <3>2
  <2>7. CASE n \in S
    <3> DEFINE s == c[n - 1]
               t == c[n]
    <3>1. t = Append(s, rows[n])
      BY <1>3, <2>3, <2>7
    <3>2. /\ Len(s) \in Nat /\ Len(t) = Len(s) + 1 /\ t[Len(s) + 1] = rows[n]
          /\ \A k \in 1..Len(s) : t[k] = s[k]
      BY <1>1, <2>3, <2>4, <3>1
    <3>3. \A k \in 1..Len(s) : \E i \in 1..(n - 1) : i \in S /\ s[k] = rows[i]
      BY <2>4
    <3>4. \A k \in 1..Len(s) : s[k].at <= rows[n].at
      <4> HIDE DEF s, t, Bad, From
      <4> SUFFICES ASSUME NEW k \in 1..Len(s) PROVE s[k].at <= rows[n].at
        OBVIOUS
      <4>1. PICK i \in 1..(n - 1) : s[k] = rows[i]
        BY <3>3
      <4>2. i \in 1..Len(rows) /\ i <= n
        BY <2>3
      <4> QED
        BY <2>3, <4>1, <4>2 DEF ByTime
    <3>5. ByTime(s)
      BY <2>4
    <3>6. From(n)
      <4> HIDE DEF s
      <4> SUFFICES ASSUME NEW k \in 1..Len(t) PROVE \E i \in 1..n : i \in S /\ t[k] = rows[i]
        OBVIOUS
      <4>1. CASE k \in 1..Len(s)
        <5>1. PICK i \in 1..(n - 1) : i \in S /\ s[k] = rows[i]
          BY <3>3, <4>1
        <5>2. i \in 1..n /\ t[k] = s[k]
          BY <2>3, <3>2, <4>1
        <5> QED
          BY <5>1, <5>2
      <4>2. CASE k = Len(s) + 1
        <5>1. n \in 1..n /\ n \in S
          BY <1>1, <2>3, <2>7
        <5>2. t[k] = rows[n]
          BY <3>2, <4>2
        <5> QED
          BY <5>1, <5>2
      <4> QED
        BY <3>2, <4>1, <4>2
    <3>7. ByTime(t)
      <4> HIDE DEF s, t, Bad, From
      <4>1. rows[n].at <= rows[n].at
        BY <1>1, <2>3
      <4> SUFFICES ASSUME NEW k \in 1..Len(t), NEW l \in 1..Len(t), k <= l
                   PROVE  t[k].at <= t[l].at
        BY DEF ByTime
      <4>2. CASE l = Len(s) + 1
        <5>1. k \in 1..Len(s) \/ k = Len(s) + 1
          BY <3>2
        <5> QED
          BY <3>2, <3>4, <4>1, <4>2, <5>1
      <4>3. CASE l # Len(s) + 1
        <5>1. k \in 1..Len(s) /\ l \in 1..Len(s)
          BY <3>2, <4>3
        <5> QED
          BY <3>2, <3>5, <5>1 DEF ByTime
      <4> QED
        BY <4>2, <4>3
    <3> QED
      BY <2>5, <3>6, <3>7
  <2> QED
    BY <2>6, <2>7
<1>5. ByTime(c[Len(rows)]) /\ From(Len(rows))
  BY <1>1, <1>4
<1>6. c[Len(rows)] \in Seq(E)
  BY <1>1
<1> QED
  BY <1>3, <1>5, <1>6

\* Saving puts a row in its place, whatever was saved before.
LEMMA InsertedIs ==
  ASSUME NEW E, NEW rows \in Seq(E), NEW row \in E,
         \A e \in E : e.at \in Nat, ByTime(rows)
  PROVE  Inserted(rows, row) \in Seq(E) /\ ByTime(Inserted(rows, row))
<1> DEFINE Before == {i \in DOMAIN rows : rows[i].at <= row.at}
           After == {i \in DOMAIN rows : rows[i].at > row.at}
           s == Chosen(rows, Before)
           t == Chosen(rows, After)
           u == Append(s, row)
<1>1. s \in Seq(E) /\ ByTime(s) /\ \A k \in 1..Len(s) : s[k].at <= row.at
  BY ChosenIs
<1>2. t \in Seq(E) /\ ByTime(t) /\ \A k \in 1..Len(t) : t[k].at > row.at
  BY ChosenIs
<1>3. Inserted(rows, row) = u \o t
  BY DEF Inserted
<1> HIDE DEF s, t
<1>4. /\ u \in Seq(E) /\ Len(u) = Len(s) + 1
      /\ \A k \in 1..Len(u) : u[k] = IF k <= Len(s) THEN s[k] ELSE row
  BY <1>1
<1> HIDE DEF u
<1> DEFINE v == u \o t
<1>5. /\ v \in Seq(E) /\ Len(v) = Len(u) + Len(t) /\ Len(s) \in Nat /\ Len(t) \in Nat
      /\ \A k \in 1..Len(v) : v[k] = IF k <= Len(u) THEN u[k] ELSE t[k - Len(u)]
  <2>1. Len(s) \in Nat /\ Len(t) \in Nat
    BY <1>1, <1>2
  <2>2. v \in Seq(E) /\ Len(v) = Len(u) + Len(t)
    BY <1>2, <1>4, ConcatProperties
  <2>3. \A k \in 1..(Len(u) + Len(t)) : v[k] = IF k <= Len(u) THEN u[k] ELSE t[k - Len(u)]
    BY <1>2, <1>4, ConcatProperties
  <2> QED
    BY <2>1, <2>2, <2>3
<1> HIDE DEF v
<1>6. \A k \in 1..Len(v) : v[k].at \in Nat
  BY <1>5
<1>7. \A k \in 1..Len(v) : \/ k \in 1..Len(s) /\ v[k] = s[k]
                           \/ k = Len(s) + 1 /\ v[k] = row
                           \/ k - Len(u) \in 1..Len(t) /\ v[k] = t[k - Len(u)]
  <2> TAKE k \in 1..Len(v)
  <2>1. CASE k <= Len(u)
    BY <1>4, <1>5, <2>1
  <2>2. CASE ~(k <= Len(u))
    BY <1>4, <1>5, <2>2
  <2> QED
    BY <2>1, <2>2
<1>8. ASSUME NEW k \in 1..Len(v), NEW l \in 1..Len(v), k <= l
      PROVE  v[k].at <= v[l].at
  <2>1. row.at \in Nat /\ v[k].at \in Nat /\ v[l].at \in Nat /\ k \in Nat /\ l \in Nat
    BY <1>5, <1>6
  <2>2. CASE k \in 1..Len(s) /\ v[k] = s[k]
    <3>1. s[k].at <= row.at
      BY <1>1, <2>2
    <3>2. CASE l \in 1..Len(s) /\ v[l] = s[l]
      BY <1>1, <1>8, <2>2, <3>2 DEF ByTime
    <3>3. CASE l = Len(s) + 1 /\ v[l] = row
      BY <2>2, <3>1, <3>3
    <3>4. CASE l - Len(u) \in 1..Len(t) /\ v[l] = t[l - Len(u)]
      <4>1. v[l].at > row.at
        BY <1>2, <3>4
      <4> QED
        BY <2>1, <2>2, <3>1, <4>1
    <3> QED
      BY <1>7, <3>2, <3>3, <3>4
  <2>3. CASE k = Len(s) + 1 /\ v[k] = row
    <3>1. CASE l \in 1..Len(s)
      BY <1>5, <1>8, <2>3, <3>1
    <3>2. CASE l = Len(s) + 1 /\ v[l] = row
      BY <2>1, <2>3, <3>2
    <3>3. CASE l - Len(u) \in 1..Len(t) /\ v[l] = t[l - Len(u)]
      <4>1. v[l].at > row.at
        BY <1>2, <3>3
      <4> QED
        BY <2>1, <2>3, <4>1
    <3> QED
      BY <1>7, <3>1, <3>2, <3>3
  <2>4. CASE k - Len(u) \in 1..Len(t) /\ v[k] = t[k - Len(u)]
    <3>1. l - Len(u) \in 1..Len(t) /\ k - Len(u) <= l - Len(u)
      BY <1>4, <1>5, <1>8, <2>1, <2>4
    <3>2. v[l] = t[l - Len(u)]
      BY <1>4, <1>5, <1>7, <2>1, <3>1
    <3> QED
      BY <1>2, <2>4, <3>1, <3>2 DEF ByTime
  <2> QED
    BY <1>7, <2>2, <2>3, <2>4
<1>9. ByTime(v)
  BY <1>8 DEF ByTime
<1> QED
  BY <1>3, <1>5, <1>9 DEF v

\* What a row of the history and an event of the list are.
Samples == [at : Nat, load : {"low", "high"}]
Crossings == [kind : {"threshold_exceeded", "threshold_recovered"}, at : Nat]

\* What the loop of EventsFromRows has after each row.
EventsTo(e, rows) ==
  e[0] = <<>> /\ \A n \in 1..Len(rows) : e[n] = e[n - 1] \o Crossing(rows, n)

LEMMA CrossingIs ==
  ASSUME NEW rows \in Seq(Samples), NEW n \in 1..Len(rows)
  PROVE  Crossing(rows, n) \in Seq(Crossings)
<1>1. rows[n].at \in Nat
  <2>1. rows[n] \in Samples
    OBVIOUS
  <2> QED
    BY <2>1 DEF Samples
<1>2. \A kind \in {"threshold_exceeded", "threshold_recovered"} :
        <<[kind |-> kind, at |-> rows[n].at]>> \in Seq(Crossings)
  BY <1>1 DEF Crossings
<1> QED
  BY <1>2 DEF Crossing

LEMMA EventsRun ==
  ASSUME NEW rows \in Seq(Samples)
  PROVE  \E e \in [0..Len(rows) -> Seq(Crossings)] :
           EventsTo(e, rows) /\ EventsFromRows(rows) = e[Len(rows)]
<1> DEFINE N == Len(rows)
           step == [p \in Seq(Crossings) \X (1..N) |-> p[1] \o Crossing(rows, p[2])]
           Unfolds(g) == g = [n \in 0..N |-> IF n = 0 THEN <<>> ELSE g[n - 1] \o Crossing(rows, n)]
           e == CHOOSE g : Unfolds(g)
<1>1. N \in Nat /\ <<>> \in Seq(Crossings)
  OBVIOUS
<1>2. step \in [Seq(Crossings) \X (1..N) -> Seq(Crossings)]
  BY CrossingIs, ConcatProperties
<1>3. \A s \in Seq(Crossings), n \in 1..N : step[<<s, n>>] = s \o Crossing(rows, n)
  OBVIOUS
<1> HIDE DEF step, N
<1>4. PICK g \in [0..N -> Seq(Crossings)] : Rounds(g, N, <<>>, step)
  BY <1>1, <1>2, LoopRuns
<1>5. ASSUME NEW n \in 1..N PROVE g[n] = g[n - 1] \o Crossing(rows, n)
  <2>1. g[n - 1] \in Seq(Crossings)
    BY <1>1
  <2> QED
    BY <1>3, <1>4, <2>1 DEF Rounds
<1>6. Unfolds(g)
  <2>1. \A n \in 0..N : g[n] = IF n = 0 THEN <<>> ELSE g[n - 1] \o Crossing(rows, n)
    <3> SUFFICES ASSUME NEW n \in 0..N, n # 0 PROVE g[n] = g[n - 1] \o Crossing(rows, n)
      BY <1>4 DEF Rounds
    <3>1. n \in 1..N
      BY <1>1
    <3> QED
      BY <1>5, <3>1
  <2> QED
    BY <2>1
<1>7. Unfolds(e)
  BY <1>6
<1>8. EventsFromRows(rows) = e[N]
  BY DEF EventsFromRows, N
<1> HIDE DEF e
<1>9. e = g
  <2> DEFINE Apart == {n \in 0..N : e[n] # g[n]}
  <2>1. Apart = {}
    <3> SUFFICES ASSUME Apart # {} PROVE FALSE
      OBVIOUS
    <3>1. PICK n \in Apart : \A m \in Apart : n <= m
      <4>1. Apart \in SUBSET Nat
        BY <1>1
      <4> HIDE DEF Apart
      <4> QED
        BY <4>1, LeastNumber
    <3>2. n # 0
      BY <1>6, <1>7, <3>1
    <3>3. n - 1 \in 0..N /\ n - 1 \notin Apart
      BY <1>1, <3>1, <3>2
    <3> QED
      BY <1>6, <1>7, <3>1, <3>2, <3>3
  <2>2. e = [n \in 0..N |-> e[n]]
    BY <1>7
  <2> QED
    BY <2>1, <2>2
<1>10. EventsTo(g, rows)
  BY <1>4, <1>5 DEF Rounds, EventsTo, N
<1> QED
  BY <1>4, <1>8, <1>9, <1>10 DEF N

\* The events of the first n rows: they take turns in the order of time, and the
\* last one tells the load of the last row.
Tells(rows, n, e) ==
  /\ n = 0 => e = <<>>
  /\ n # 0 => (rows[n].load = "high" <=> e # <<>> /\ e[Len(e)].kind = "threshold_exceeded")
  /\ \A k \in 1..Len(e) : \E i \in 1..n : e[k].at = rows[i].at
  /\ \A k \in 1..(Len(e) - 1) :
       e[k].at <= e[k + 1].at /\ e[k].kind # e[k + 1].kind

LEMMA EventsTell ==
  ASSUME NEW rows \in Seq(Samples), ByTime(rows)
  PROVE  /\ EventsFromRows(rows) \in Seq(Crossings)
         /\ Tells(rows, Len(rows), EventsFromRows(rows))
<1>1. PICK e \in [0..Len(rows) -> Seq(Crossings)] :
        EventsTo(e, rows) /\ EventsFromRows(rows) = e[Len(rows)]
  BY EventsRun
<1>2. /\ Len(rows) \in Nat
      /\ \A i \in 1..Len(rows) : rows[i].at \in Nat /\ rows[i].load \in {"low", "high"}
  <2>1. \A i \in 1..Len(rows) : rows[i] \in Samples
    OBVIOUS
  <2> QED
    BY <2>1 DEF Samples
<1> DEFINE Bad == {n \in 0..Len(rows) : ~Tells(rows, n, e[n])}
<1>3. Bad = {}
  <2> SUFFICES ASSUME Bad # {} PROVE FALSE
    OBVIOUS
  <2>1. PICK n \in Bad : \A m \in Bad : n <= m
    <3>1. Bad \in SUBSET Nat
      BY <1>2
    <3> HIDE DEF Bad
    <3> QED
      BY <3>1, LeastNumber
  <2>2. n # 0
    <3>1. Tells(rows, 0, <<>>)
      BY DEF Tells
    <3> QED
      BY <1>1, <2>1, <3>1 DEF EventsTo
  <2>3. n \in 1..Len(rows) /\ n - 1 \in 0..Len(rows) /\ n - 1 \notin Bad
    BY <1>2, <2>1, <2>2
  <2> DEFINE s == e[n - 1]
             t == e[n]
  <2>4. Tells(rows, n - 1, s) /\ s \in Seq(Crossings) /\ ~Tells(rows, n, t)
    BY <2>1, <2>3
  <2>5. t = s \o Crossing(rows, n)
    BY <1>1, <2>3 DEF EventsTo
  <2>6. n = 1 => s = <<>>
    BY <2>4 DEF Tells
  <2>7. n # 1 => (rows[n - 1].load = "high" <=> s # <<>> /\ s[Len(s)].kind = "threshold_exceeded")
    BY <2>3, <2>4 DEF Tells
  <2> DEFINE before == IF n = 1 THEN "low" ELSE rows[n - 1].load
  <2>8. before = "high" <=> s # <<>> /\ s[Len(s)].kind = "threshold_exceeded"
    BY <2>6, <2>7
  <2>9. before \in {"low", "high"} /\ rows[n].load \in {"low", "high"} /\ n # 0
    BY <1>2, <2>3
  <2>10. /\ Len(s) \in Nat
         /\ \A k \in 1..Len(s) :
              s[k].at \in Nat /\ s[k].kind \in {"threshold_exceeded", "threshold_recovered"}
    <3>1. \A k \in 1..Len(s) : s[k] \in Crossings
      BY <2>4
    <3> QED
      BY <2>4, <3>1 DEF Crossings
  <2>11. \A k \in 1..Len(s) : \E i \in 1..(n - 1) : s[k].at = rows[i].at
    BY <2>4 DEF Tells
  <2>12. \A k \in 1..(Len(s) - 1) : s[k].at <= s[k + 1].at /\ s[k].kind # s[k + 1].kind
    BY <2>4 DEF Tells
  <2> HIDE DEF before, s, t, Bad
  <2>13. CASE rows[n].load = before
    <3>1. Crossing(rows, n) = <<>>
      BY <2>9, <2>13 DEF Crossing, before
    <3>2. t = s
      BY <2>4, <2>5, <3>1, ConcatEmptySeq
    <3>3. \A k \in 1..Len(s) : \E i \in 1..n : s[k].at = rows[i].at
      BY <2>3, <2>11
    <3>4. Tells(rows, n, s)
      BY <2>8, <2>9, <2>12, <2>13, <3>3 DEF Tells
    <3> QED
      BY <2>4, <3>2, <3>4
  <2>14. CASE rows[n].load # before
    <3> DEFINE kind == IF rows[n].load = "high" THEN "threshold_exceeded" ELSE "threshold_recovered"
               last == [kind |-> kind, at |-> rows[n].at]
    <3>1. Crossing(rows, n) = <<last>>
      BY <2>9, <2>14 DEF Crossing, before
    <3>2. last \in Crossings /\ last.at = rows[n].at /\ last.kind = kind
      BY <1>2, <2>3 DEF Crossings
    <3> HIDE DEF last
    <3>3. t = Append(s, last)
      BY <2>4, <2>5, <3>1, <3>2
    <3>4. /\ Len(t) = Len(s) + 1 /\ t[Len(s) + 1] = last /\ t # <<>>
          /\ \A k \in 1..Len(s) : t[k] = s[k]
      BY <2>4, <2>10, <3>2, <3>3
    <3>5. rows[n].load = "high" <=> t # <<>> /\ t[Len(t)].kind = "threshold_exceeded"
      BY <2>9, <3>2, <3>4
    <3>6. \A k \in 1..Len(t) : \E i \in 1..n : t[k].at = rows[i].at
      <4> TAKE k \in 1..Len(t)
      <4>1. CASE k \in 1..Len(s)
        <5>1. PICK i \in 1..(n - 1) : s[k].at = rows[i].at
          BY <2>11, <4>1
        <5>2. i \in 1..n /\ t[k] = s[k]
          BY <2>3, <3>4, <4>1
        <5> QED
          BY <5>1, <5>2
      <4>2. CASE k = Len(s) + 1
        BY <2>3, <3>2, <3>4, <4>2
      <4> QED
        BY <2>10, <3>4, <4>1, <4>2
    <3>7. ASSUME NEW k \in 1..(Len(t) - 1)
          PROVE  t[k].at <= t[k + 1].at /\ t[k].kind # t[k + 1].kind
      <4>1. k \in 1..Len(s) /\ t[k] = s[k]
        BY <2>10, <3>4
      <4>2. CASE k = Len(s)
        <5>1. t[k + 1] = last /\ s # <<>>
          BY <2>10, <3>4, <4>1, <4>2
        <5>2. s[k].at <= rows[n].at
          <6>1. PICK i \in 1..(n - 1) : s[k].at = rows[i].at
            BY <2>11, <4>1
          <6>2. i \in 1..Len(rows) /\ i <= n
            BY <2>3, <1>2
          <6> QED
            BY <2>3, <6>1, <6>2 DEF ByTime
        <5>3. s[k].kind = "threshold_exceeded" <=> before = "high"
          BY <2>8, <4>2, <5>1
        <5>4. s[k].kind # kind
          BY <2>9, <2>10, <2>14, <4>1, <5>3
        <5> QED
          BY <3>2, <4>1, <5>1, <5>2, <5>4
      <4>3. CASE k # Len(s)
        <5>1. k \in 1..(Len(s) - 1) /\ k + 1 \in 1..Len(s)
          BY <2>10, <4>1, <4>3
        <5>2. t[k + 1] = s[k + 1]
          BY <3>4, <5>1
        <5> QED
          BY <2>12, <4>1, <5>1, <5>2
      <4> QED
        BY <4>2, <4>3
    <3>8. Tells(rows, n, t)
      BY <2>9, <3>5, <3>6, <3>7 DEF Tells
    <3> QED
      BY <2>4, <3>8
  <2> QED
    BY <2>13, <2>14
<1>4. Tells(rows, Len(rows), e[Len(rows)]) /\ e[Len(rows)] \in Seq(Crossings)
  BY <1>2, <1>3
<1> QED
  BY <1>1, <1>4

-----------------------------------------------------------------------------
(* The newest of a list *)

Entries ==
  [kind : {"threshold_exceeded", "threshold_recovered", "service_failed", "service_recovered",
           "ssh_failure"}, at : Nat]

Descending(s) == \A k, l \in 1..Len(s) : k <= l => s[k].at >= s[l].at

\* One round of the loop of NewestFirst.
Put(s, row) ==
  LET p == Place(s, row.at) IN SubSeq(s, 1, p) \o <<row>> \o SubSeq(s, p + 1, Len(s))

LEMMA EntriesAre ==
  ASSUME NEW s \in Seq(Entries)
  PROVE  Len(s) \in Nat /\ \A k \in 1..Len(s) : s[k] \in Entries /\ s[k].at \in Nat
<1>1. Len(s) \in Nat /\ \A k \in 1..Len(s) : s[k] \in Entries
  OBVIOUS
<1> QED
  BY <1>1 DEF Entries

LEMMA PlaceIs ==
  ASSUME NEW s \in Seq(Entries), Descending(s), NEW at \in Nat
  PROVE  /\ Place(s, at) \in 0..Len(s)
         /\ \A k \in 1..Len(s) : k <= Place(s, at) <=> s[k].at >= at
<1>1. Len(s) \in Nat /\ DOMAIN s = 1..Len(s) /\ \A k \in 1..Len(s) : s[k].at \in Nat
  BY EntriesAre
<1> DEFINE Older == {k \in 1..Len(s) : s[k].at < at}
<1>2. \E p \in 0..Len(s) : \A k \in 1..Len(s) : k <= p <=> s[k].at >= at
  <2>1. CASE Older = {}
    <3>1. \A k \in 1..Len(s) : k <= Len(s) <=> s[k].at >= at
      BY <1>1, <2>1
    <3>2. Len(s) \in 0..Len(s)
      BY <1>1
    <3> QED
      BY <3>1, <3>2, Zenon
  <2>2. CASE Older # {}
    <3>1. PICK x \in Older : \A y \in Older : x <= y
      <4>1. Older \in SUBSET Nat
        BY <1>1
      <4> HIDE DEF Older
      <4> QED
        BY <2>2, <4>1, LeastNumber
    <3>2. x \in 1..Len(s) /\ s[x].at < at /\ x - 1 \in 0..Len(s)
      BY <1>1, <3>1
    <3>3. ASSUME NEW k \in 1..Len(s) PROVE k <= x - 1 <=> s[k].at >= at
      <4>1. CASE k <= x - 1
        <5>1. k \notin Older
          BY <1>1, <3>1, <3>2, <4>1
        <5> QED
          BY <1>1, <4>1, <5>1
      <4>2. CASE ~(k <= x - 1)
        <5>1. s[x].at >= s[k].at
          BY <1>1, <3>2, <4>2 DEF Descending
        <5> QED
          BY <1>1, <3>2, <4>2, <5>1
      <4> QED
        BY <4>1, <4>2
    <3> QED
      BY <3>2, <3>3
  <2> QED
    BY <2>1, <2>2
<1> QED
  BY <1>1, <1>2 DEF Place

LEMMA PutIs ==
  ASSUME NEW s \in Seq(Entries), Descending(s), NEW row \in Entries
  PROVE  /\ Put(s, row) \in Seq(Entries) /\ Descending(Put(s, row))
         /\ Len(Put(s, row)) = Len(s) + 1
         /\ \E p \in 0..Len(s) : \A k \in 1..(Len(s) + 1) :
              Put(s, row)[k] = IF k <= p THEN s[k] ELSE IF k = p + 1 THEN row ELSE s[k - 1]
<1> DEFINE p == Place(s, row.at)
           before == SubSeq(s, 1, p)
           after == SubSeq(s, p + 1, Len(s))
           v == before \o <<row>> \o after
<1>1. row.at \in Nat /\ Len(s) \in Nat /\ \A k \in 1..Len(s) : s[k] \in Entries /\ s[k].at \in Nat
  BY EntriesAre DEF Entries
<1>2. p \in 0..Len(s) /\ \A k \in 1..Len(s) : k <= p <=> s[k].at >= row.at
  BY <1>1, PlaceIs
<1>3. Put(s, row) = v
  BY DEF Put
<1> HIDE DEF p
<1>4. /\ before \in Seq(Entries) /\ Len(before) = p
      /\ \A k \in 1..p : before[k] = s[k]
  BY <1>1, <1>2
<1>5. /\ after \in Seq(Entries) /\ Len(after) = Len(s) - p
      /\ \A k \in 1..(Len(s) - p) : after[k] = s[p + k]
  BY <1>1, <1>2
<1> HIDE DEF before, after
<1> DEFINE u == before \o <<row>>
<1>6. /\ u \in Seq(Entries) /\ Len(u) = p + 1
      /\ \A k \in 1..(p + 1) : u[k] = IF k <= p THEN s[k] ELSE row
  <2>1. u = Append(before, row)
    BY <1>4
  <2> HIDE DEF u
  <2> QED
    BY <1>1, <1>2, <1>4, <2>1
<1> HIDE DEF u
<1>7. v = u \o after
  BY DEF u
<1> HIDE DEF v
<1>8. /\ v \in Seq(Entries) /\ Len(v) = Len(s) + 1
      /\ \A k \in 1..(Len(s) + 1) : v[k] = IF k <= p + 1 THEN u[k] ELSE after[k - (p + 1)]
  <2>1. v \in Seq(Entries) /\ Len(v) = Len(u) + Len(after)
    BY <1>5, <1>6, <1>7, ConcatProperties
  <2>2. \A k \in 1..(Len(u) + Len(after)) : v[k] = IF k <= Len(u) THEN u[k] ELSE after[k - Len(u)]
    BY <1>5, <1>6, <1>7, ConcatProperties
  <2>3. Len(u) + Len(after) = Len(s) + 1
    BY <1>1, <1>2, <1>5, <1>6
  <2> QED
    BY <1>6, <2>1, <2>2, <2>3
<1>9. ASSUME NEW k \in 1..(Len(s) + 1)
      PROVE  v[k] = IF k <= p THEN s[k] ELSE IF k = p + 1 THEN row ELSE s[k - 1]
  <2>1. CASE k <= p + 1
    <3>1. v[k] = u[k] /\ k \in 1..(p + 1)
      BY <1>8, <1>2, <2>1
    <3> QED
      BY <1>2, <1>6, <2>1, <3>1
  <2>2. CASE ~(k <= p + 1)
    <3>1. v[k] = after[k - (p + 1)] /\ k - (p + 1) \in 1..(Len(s) - p)
      BY <1>1, <1>2, <1>8, <2>2
    <3>2. p + (k - (p + 1)) = k - 1
      BY <1>2
    <3> QED
      BY <1>2, <1>5, <2>2, <3>1, <3>2
  <2> QED
    BY <2>1, <2>2
<1>10. Descending(v)
  <2> SUFFICES ASSUME NEW k \in 1..Len(v), NEW l \in 1..Len(v), k <= l
               PROVE  v[k].at >= v[l].at
    BY DEF Descending
  <2>1. k \in 1..(Len(s) + 1) /\ l \in 1..(Len(s) + 1) /\ k \in Nat /\ l \in Nat /\ p \in Nat
    BY <1>1, <1>2, <1>8
  <2>2. CASE l <= p
    <3>1. v[k] = s[k] /\ v[l] = s[l] /\ k \in 1..Len(s) /\ l \in 1..Len(s)
      BY <1>2, <1>9, <2>1, <2>2
    <3> QED
      BY <3>1 DEF Descending
  <2>3. CASE l = p + 1
    <3>1. v[l] = row
      BY <1>9, <2>1, <2>3
    <3>2. CASE k = l
      BY <1>1, <3>1, <3>2
    <3>3. CASE k <= p
      <4>1. v[k] = s[k] /\ k \in 1..Len(s)
        BY <1>2, <1>9, <2>1, <3>3
      <4> QED
        BY <1>2, <3>1, <3>3, <4>1
    <3> QED
      BY <2>1, <2>3, <3>2, <3>3
  <2>4. CASE l > p + 1
    <3>1. v[l] = s[l - 1] /\ l - 1 \in 1..Len(s) /\ ~(l - 1 <= p)
      BY <1>1, <1>9, <2>1, <2>4
    <3>2. s[l - 1].at < row.at
      BY <1>1, <1>2, <3>1
    <3>3. CASE k <= p
      <4>1. v[k] = s[k] /\ k \in 1..Len(s) /\ k <= l - 1
        BY <1>2, <1>9, <2>1, <2>4, <3>3
      <4> QED
        BY <3>1, <4>1 DEF Descending
    <3>4. CASE k = p + 1
      <4>1. v[k] = row
        BY <1>9, <2>1, <3>4
      <4> QED
        BY <1>1, <3>1, <3>2, <4>1
    <3>5. CASE k > p + 1
      <4>1. v[k] = s[k - 1] /\ k - 1 \in 1..Len(s) /\ k - 1 <= l - 1
        BY <1>1, <1>9, <2>1, <3>5
      <4> QED
        BY <3>1, <4>1 DEF Descending
    <3> QED
      BY <2>1, <3>3, <3>4, <3>5
  <2> QED
    BY <2>1, <2>2, <2>3, <2>4
<1> QED
  BY <1>2, <1>3, <1>8, <1>9, <1>10

\* What the loop of NewestFirst has after each row.
SortedTo(g, rows) == g[0] = <<>> /\ \A n \in 1..Len(rows) : g[n] = Put(g[n - 1], rows[n])

LEMMA SortedRuns ==
  ASSUME NEW rows \in Seq(Entries)
  PROVE  \E g \in [0..Len(rows) -> {s \in Seq(Entries) : Descending(s)}] :
           SortedTo(g, rows) /\ NewestFirst(rows) = g[Len(rows)]
<1> DEFINE N == Len(rows)
           V == {s \in Seq(Entries) : Descending(s)}
           step == [p \in V \X (1..N) |-> Put(p[1], rows[p[2]])]
           Unfolds(g) == g = [n \in 0..N |-> IF n = 0 THEN <<>> ELSE Put(g[n - 1], rows[n])]
           e == CHOOSE g : Unfolds(g)
<1>1. N \in Nat /\ <<>> \in V /\ \A n \in 1..N : rows[n] \in Entries
  BY DEF Descending
<1>2. step \in [V \X (1..N) -> V]
  <2>1. ASSUME NEW s \in V, NEW n \in 1..N PROVE Put(s, rows[n]) \in V
    BY <1>1, PutIs
  <2> QED
    BY <2>1
<1>3. \A s \in V, n \in 1..N : step[<<s, n>>] = Put(s, rows[n])
  OBVIOUS
<1>e. NewestFirst(rows) = e[N]
  BY DEF NewestFirst, N, Put
<1> HIDE DEF step, N, V
<1>4. PICK g \in [0..N -> V] : Rounds(g, N, <<>>, step)
  BY <1>1, <1>2, LoopRuns
<1>5. ASSUME NEW n \in 1..N PROVE g[n] = Put(g[n - 1], rows[n])
  <2>1. g[n - 1] \in V
    BY <1>1
  <2> QED
    BY <1>3, <1>4, <2>1 DEF Rounds
<1>6. Unfolds(g)
  <2>1. \A n \in 0..N : g[n] = IF n = 0 THEN <<>> ELSE Put(g[n - 1], rows[n])
    <3> SUFFICES ASSUME NEW n \in 0..N, n # 0 PROVE g[n] = Put(g[n - 1], rows[n])
      BY <1>4 DEF Rounds
    <3>1. n \in 1..N
      BY <1>1
    <3> QED
      BY <1>5, <3>1
  <2> QED
    BY <2>1
<1>7. Unfolds(e)
  BY <1>6
<1> HIDE DEF e
<1>9. e = g
  <2> DEFINE Apart == {n \in 0..N : e[n] # g[n]}
  <2>1. Apart = {}
    <3> SUFFICES ASSUME Apart # {} PROVE FALSE
      OBVIOUS
    <3>1. PICK n \in Apart : \A m \in Apart : n <= m
      <4>1. Apart \in SUBSET Nat
        BY <1>1
      <4> HIDE DEF Apart
      <4> QED
        BY <4>1, LeastNumber
    <3>2. n # 0
      BY <1>6, <1>7, <3>1
    <3>3. n - 1 \in 0..N /\ n - 1 \notin Apart
      BY <1>1, <3>1, <3>2
    <3> QED
      BY <1>6, <1>7, <3>1, <3>2, <3>3
  <2>2. e = [n \in 0..N |-> e[n]]
    BY <1>7
  <2> QED
    BY <2>1, <2>2
<1>10. SortedTo(g, rows)
  BY <1>4, <1>5 DEF Rounds, SortedTo, N
<1> QED
  BY <1>4, <1>e, <1>9, <1>10 DEF N, V

\* v has the first n rows, each once, and nothing else.
Arranges(v, rows, n) ==
  /\ Len(v) = n
  /\ \E f \in [1..n -> 1..n] :
       /\ \A i, j \in 1..n : f[i] = f[j] => i = j
       /\ \A i \in 1..n : v[f[i]] = rows[i]
  /\ \A k \in 1..n : \E i \in 1..n : v[k] = rows[i]

LEMMA NextPlace ==
  ASSUME NEW n \in Nat, NEW q \in 1..(n - 1)
  PROVE  /\ q + 1 \in 1..n /\ (q + 1) - 1 = q
         /\ \A p \in Nat : ~(q <= p) => ~(q + 1 <= p) /\ q + 1 # p + 1
  OBVIOUS

LEMMA PutArranges ==
  ASSUME NEW rows \in Seq(Entries), NEW n \in 1..Len(rows),
         NEW s \in Seq(Entries), Descending(s), Arranges(s, rows, n - 1)
  PROVE  Arranges(Put(s, rows[n]), rows, n)
<1> DEFINE v == Put(s, rows[n])
<1>1. n \in Nat /\ n >= 1 /\ rows[n] \in Entries /\ Len(s) = n - 1
  BY DEF Arranges
<1>2. PICK f \in [1..(n - 1) -> 1..(n - 1)] :
        /\ \A i, j \in 1..(n - 1) : f[i] = f[j] => i = j
        /\ \A i \in 1..(n - 1) : s[f[i]] = rows[i]
  BY DEF Arranges
<1>3. \A k \in 1..(n - 1) : \E i \in 1..(n - 1) : s[k] = rows[i]
  BY DEF Arranges
<1>a. rows[n] \in Entries /\ Len(s) + 1 = n
  BY <1>1
<1>b. /\ Len(v) = Len(s) + 1
      /\ \E p \in 0..Len(s) : \A k \in 1..(Len(s) + 1) :
           v[k] = IF k <= p THEN s[k] ELSE IF k = p + 1 THEN rows[n] ELSE s[k - 1]
  BY <1>a, PutIs
<1> HIDE DEF v
<1>4. Len(v) = n
  BY <1>a, <1>b
<1>5. PICK p \in 0..(n - 1) : \A k \in 1..n :
        v[k] = IF k <= p THEN s[k] ELSE IF k = p + 1 THEN rows[n] ELSE s[k - 1]
  BY <1>1, <1>a, <1>b
<1>p. p \in Nat /\ p <= n - 1
  BY <1>1, <1>5
<1>g. PICK g :
        /\ g = [i \in 1..n |-> g[i]]
        /\ \A i \in 1..n :
             /\ i = n => g[i] = p + 1
             /\ i # n /\ f[i] <= p => g[i] = f[i]
             /\ i # n /\ ~(f[i] <= p) => g[i] = f[i] + 1
  <2> DEFINE h == [i \in 1..n |-> IF i = n THEN p + 1 ELSE IF f[i] <= p THEN f[i] ELSE f[i] + 1]
  <2>1. /\ h = [i \in 1..n |-> h[i]]
        /\ \A i \in 1..n :
             /\ i = n => h[i] = p + 1
             /\ i # n /\ f[i] <= p => h[i] = f[i]
             /\ i # n /\ ~(f[i] <= p) => h[i] = f[i] + 1
    OBVIOUS
  <2> HIDE DEF h
  <2> QED
    BY <2>1
<1>6. g \in [1..n -> 1..n]
  <2>1. ASSUME NEW i \in 1..n PROVE g[i] \in 1..n
    <3>1. CASE i = n
      BY <1>1, <1>p, <1>g, <3>1
    <3>2. CASE i # n
      <4>1. i \in 1..(n - 1)
        BY <1>1, <3>2
      <4>2. f[i] \in 1..(n - 1)
        BY <1>2, <4>1
      <4>3. CASE f[i] <= p
        BY <1>1, <1>g, <3>2, <4>2, <4>3
      <4>4. CASE ~(f[i] <= p)
        <5>1. g[i] = f[i] + 1
          BY <1>g, <3>2, <4>4
        <5>2. PICK q \in 1..(n - 1) : q = f[i]
          BY <4>2
        <5>3. q + 1 \in 1..n /\ g[i] = q + 1
          BY <1>1, <5>1, <5>2, NextPlace
        <5> QED
          BY <5>3
      <4> QED
        BY <4>3, <4>4
    <3> QED
      BY <3>1, <3>2
  <2> QED
    BY <1>g, <2>1
<1>7. ASSUME NEW i \in 1..n, NEW j \in 1..n, g[i] = g[j] PROVE i = j
  <2>1. \A m \in 1..n : m # n => m \in 1..(n - 1) /\ f[m] \in 1..(n - 1)
    BY <1>1, <1>2
  <2>2. CASE i = n
    <3>1. CASE j # n
      BY <1>p, <1>g, <1>7, <2>1, <2>2, <3>1
    <3> QED
      BY <2>2, <3>1
  <2>3. CASE j = n
    <3>1. CASE i # n
      BY <1>p, <1>g, <1>7, <2>1, <2>3, <3>1
    <3> QED
      BY <2>3, <3>1
  <2>4. CASE i # n /\ j # n
    <3>0. f[i] \in Nat /\ f[j] \in Nat
      BY <2>1, <2>4
    <3>1. f[i] = f[j]
      BY <1>p, <1>g, <1>7, <2>4, <3>0
    <3> QED
      BY <1>2, <2>1, <2>4, <3>1
  <2> QED
    BY <2>2, <2>3, <2>4
<1>8. ASSUME NEW i \in 1..n PROVE v[g[i]] = rows[i]
  <2>1. CASE i = n
    <3>1. g[i] = p + 1 /\ p + 1 \in 1..n /\ ~(p + 1 <= p)
      BY <1>1, <1>p, <1>g, <2>1
    <3> QED
      BY <1>5, <2>1, <3>1
  <2>2. CASE i # n
    <3>1. i \in 1..(n - 1) /\ f[i] \in 1..(n - 1)
      BY <1>1, <1>2, <2>2
    <3>2. s[f[i]] = rows[i]
      BY <1>2, <3>1
    <3>3. CASE f[i] <= p
      <4>1. g[i] = f[i] /\ f[i] \in 1..n
        BY <1>1, <1>g, <2>2, <3>1, <3>3
      <4> QED
        BY <1>5, <3>2, <3>3, <4>1
    <3>4. CASE ~(f[i] <= p)
      <4>1. g[i] = f[i] + 1 /\ f[i] + 1 \in 1..n /\ ~(f[i] + 1 <= p) /\ f[i] + 1 # p + 1
            /\ (f[i] + 1) - 1 = f[i]
        <5>1. g[i] = f[i] + 1
          BY <1>g, <2>2, <3>4
        <5>2. PICK q \in 1..(n - 1) : q = f[i]
          BY <3>1
        <5>3. q + 1 \in 1..n /\ ~(q + 1 <= p) /\ q + 1 # p + 1 /\ (q + 1) - 1 = q
          <6>1. n \in Nat /\ p \in Nat /\ ~(q <= p)
            BY <1>1, <1>p, <3>4, <5>2
          <6> QED
            BY <6>1, NextPlace
        <5> QED
          BY <5>1, <5>2, <5>3
      <4> QED
        BY <1>5, <3>2, <4>1
    <3> QED
      BY <3>3, <3>4
  <2> QED
    BY <2>1, <2>2
<1>9. ASSUME NEW k \in 1..n PROVE \E i \in 1..n : v[k] = rows[i]
  <2>1. CASE k = p + 1
    <3>1. v[k] = rows[n] /\ n \in 1..n
      BY <1>1, <1>5, <2>1
    <3> QED
      BY <3>1
  <2>2. CASE k # p + 1
    <3>1. PICK l \in 1..(n - 1) : v[k] = s[l]
      <4>1. CASE k <= p
        BY <1>1, <1>5, <4>1
      <4>2. CASE ~(k <= p)
        <5>1. k - 1 \in 1..(n - 1) /\ v[k] = s[k - 1]
          BY <1>1, <1>5, <2>2, <4>2
        <5> QED
          BY <5>1
      <4> QED
        BY <4>1, <4>2
    <3>2. PICK i \in 1..(n - 1) : s[l] = rows[i]
      BY <1>3
    <3>3. i \in 1..n
      BY <1>1
    <3> QED
      BY <3>1, <3>2, <3>3
  <2> QED
    BY <2>1, <2>2
<1> QED
  BY <1>4, <1>6, <1>7, <1>8, <1>9 DEF Arranges, v

LEMMA SortedIs ==
  ASSUME NEW rows \in Seq(Entries)
  PROVE  /\ NewestFirst(rows) \in Seq(Entries) /\ Descending(NewestFirst(rows))
         /\ Arranges(NewestFirst(rows), rows, Len(rows))
<1> DEFINE V == {s \in Seq(Entries) : Descending(s)}
<1>1. PICK g \in [0..Len(rows) -> V] : SortedTo(g, rows) /\ NewestFirst(rows) = g[Len(rows)]
  BY SortedRuns
<1>2. Len(rows) \in Nat /\ \A n \in 0..Len(rows) : g[n] \in Seq(Entries) /\ Descending(g[n])
  OBVIOUS
<1> DEFINE Bad == {n \in 0..Len(rows) : ~Arranges(g[n], rows, n)}
<1>3. Bad = {}
  <2> SUFFICES ASSUME Bad # {} PROVE FALSE
    OBVIOUS
  <2>1. PICK n \in Bad : \A m \in Bad : n <= m
    <3>1. Bad \in SUBSET Nat
      BY <1>2
    <3> HIDE DEF Bad
    <3> QED
      BY <3>1, LeastNumber
  <2>2. n # 0
    <3>1. Arranges(<<>>, rows, 0)
      <4>1. 1..0 = {} /\ Len(<<>>) = 0
        OBVIOUS
      <4>2. \E h : h \in [{} -> {}]
        <5>1. [i \in {} |-> i] \in [{} -> {}]
          OBVIOUS
        <5> QED
          BY <5>1
      <4> QED
        BY <4>1, <4>2 DEF Arranges
    <3> QED
      BY <1>1, <2>1, <3>1 DEF SortedTo
  <2>3. n \in 1..Len(rows) /\ n - 1 \in 0..Len(rows) /\ n - 1 \notin Bad
    BY <1>2, <2>1, <2>2
  <2>4. Arranges(g[n - 1], rows, n - 1) /\ ~Arranges(g[n], rows, n)
    BY <2>1, <2>3
  <2>5. g[n] = Put(g[n - 1], rows[n])
    BY <1>1, <2>3 DEF SortedTo
  <2> QED
    BY <1>2, <2>3, <2>4, <2>5, PutArranges
<1>4. Arranges(g[Len(rows)], rows, Len(rows))
  BY <1>2, <1>3
<1> QED
  BY <1>1, <1>2, <1>4

\* The newest are some of the rows; what is not among them gives way to as many as
\* may be listed, none of them older.
LEMMA NewestIs ==
  ASSUME NEW rows \in Seq(Entries)
  PROVE  /\ Newest(rows) \in Seq(Entries)
         /\ \A k \in 1..Len(Newest(rows)) : \E i \in 1..Len(rows) : Newest(rows)[k] = rows[i]
         /\ \A i \in 1..Len(rows) :
              \/ \E k \in 1..Len(Newest(rows)) : Newest(rows)[k] = rows[i]
              \/ FullSince(Newest(rows), rows[i].at)
         /\ Len(Newest(rows)) = IF Len(rows) > MaxListed THEN MaxListed ELSE Len(rows)
         /\ \A k \in 1..Len(Newest(rows)) : Newest(rows)[k] = NewestFirst(rows)[k]
<1> DEFINE v == NewestFirst(rows)
           w == Newest(rows)
           N == Len(rows)
<1>0. MaxListed \in Nat /\ N \in Nat
  BY TelemetryAssumption
<1>1. v \in Seq(Entries) /\ Descending(v) /\ Arranges(v, rows, N)
  BY SortedIs
<1>2. w = IF N > MaxListed THEN SubSeq(v, 1, MaxListed) ELSE v
  BY DEF Newest
<1> HIDE DEF v, w, N
<1>3. Len(v) = N /\ \A k \in 1..N : \E i \in 1..N : v[k] = rows[i]
  BY <1>1 DEF Arranges
<1>4. PICK f \in [1..N -> 1..N] : \A i \in 1..N : v[f[i]] = rows[i]
  BY <1>1 DEF Arranges
<1>5. /\ w \in Seq(Entries) /\ Len(w) = IF N > MaxListed THEN MaxListed ELSE N
      /\ \A k \in 1..Len(w) : w[k] = v[k] /\ k \in 1..N
  <2>1. CASE N > MaxListed
    <3>1. w = SubSeq(v, 1, MaxListed)
      BY <1>2, <2>1
    <3>2. Len(v) = N /\ v \in Seq(Entries) /\ 1 <= MaxListed + 1 /\ MaxListed <= N
      BY <1>0, <1>1, <1>3, <2>1
    <3>3. /\ SubSeq(v, 1, MaxListed) \in Seq(Entries)
          /\ Len(SubSeq(v, 1, MaxListed)) = MaxListed
          /\ \A k \in 1..MaxListed : SubSeq(v, 1, MaxListed)[k] = v[k]
      BY <1>0, <3>2
    <3>4. w \in Seq(Entries) /\ Len(w) = MaxListed
      BY <3>1, <3>3, Zenon
    <3>5. \A k \in 1..MaxListed : w[k] = v[k]
      BY <3>1, <3>3, Zenon
    <3>6. \A k \in 1..MaxListed : k \in 1..N
      BY <1>0, <3>2
    <3>7. \A k \in 1..Len(w) : w[k] = v[k] /\ k \in 1..N
      BY <3>4, <3>5, <3>6, Zenon
    <3>8. Len(w) = IF N > MaxListed THEN MaxListed ELSE N
      BY <2>1, <3>4
    <3> QED
      BY <3>4, <3>7, <3>8, Zenon
  <2>2. CASE ~(N > MaxListed)
    BY <1>1, <1>2, <1>3, <2>2
  <2> QED
    BY <2>1, <2>2
<1>6. ASSUME NEW i \in 1..N
      PROVE  (\E k \in 1..Len(w) : w[k] = rows[i]) \/ FullSince(w, rows[i].at)
  <2>1. f[i] \in 1..N /\ v[f[i]] = rows[i]
    BY <1>4
  <2>2. CASE f[i] \in 1..Len(w)
    BY <1>5, <2>1, <2>2
  <2>3. CASE f[i] \notin 1..Len(w)
    <3>1. Len(w) = MaxListed /\ \A k \in 1..Len(w) : k <= f[i]
      BY <1>0, <1>5, <2>1, <2>3
    <3>2. \A k \in 1..Len(w) : w[k].at >= rows[i].at
      BY <1>1, <1>3, <1>5, <2>1, <3>1 DEF Descending
    <3>3. DOMAIN w = 1..Len(w)
      BY <1>5
    <3> QED
      BY <3>1, <3>2, <3>3 DEF FullSince
  <2> QED
    BY <2>2, <2>3
<1> QED
  BY <1>3, <1>5, <1>6 DEF w, v, N

\* Of rows with enough that are not older, the newest are none that is older.
LEMMA NewestFull ==
  ASSUME NEW rows \in Seq(Entries), NEW at \in Nat,
         NEW g \in [1..MaxListed -> 1..Len(rows)],
         \A m, l \in 1..MaxListed : g[m] = g[l] => m = l,
         \A m \in 1..MaxListed : rows[g[m]].at >= at
  PROVE  FullSince(Newest(rows), at)
<1> DEFINE v == NewestFirst(rows)
           w == Newest(rows)
           N == Len(rows)
<1>0. MaxListed \in Nat /\ N \in Nat
  BY TelemetryAssumption
<1>1. /\ v \in Seq(Entries) /\ Descending(v) /\ Arranges(v, rows, N)
      /\ w \in Seq(Entries) /\ Len(w) = IF N > MaxListed THEN MaxListed ELSE N
      /\ \A k \in 1..Len(w) : w[k] = v[k]
  BY SortedIs, NewestIs
<1> HIDE DEF v, w
<1>2. Len(v) = N
  BY <1>1 DEF Arranges
<1>3. PICK f \in [1..N -> 1..N] :
        /\ \A i, j \in 1..N : f[i] = f[j] => i = j
        /\ \A i \in 1..N : v[f[i]] = rows[i]
  BY <1>1 DEF Arranges
<1>4. ASSUME NEW n \in Nat, n < MaxListed, NEW h \in [1..MaxListed -> 1..n],
             \A m, l \in 1..MaxListed : h[m] = h[l] => m = l
      PROVE  FALSE
  <2>1. IsFiniteSet(1..MaxListed) /\ Cardinality(1..MaxListed) = MaxListed
    BY <1>0, <1>4, FS_Interval
  <2>2. IsFiniteSet(1..n) /\ Cardinality(1..n) = n
    BY <1>4, FS_Interval
  <2>3. PICK x \in 1..MaxListed, y \in 1..MaxListed : x # y /\ h[x] = h[y]
    BY <1>4, <2>1, <2>2, FS_PigeonHole
  <2>4. x \in 1..MaxListed /\ y \in 1..MaxListed
    BY <2>3
  <2>5. x = y
    BY <1>4, <2>3, <2>4
  <2> QED
    BY <2>3, <2>5
<1>5. N >= MaxListed
  <2> SUFFICES ASSUME N < MaxListed PROVE FALSE
    BY <1>0
  <2>1. g \in [1..MaxListed -> 1..N]
    OBVIOUS
  <2> HIDE DEF N
  <2> QED
    BY <1>0, <1>4, <2>1
<1>6. Len(w) = MaxListed
  BY <1>0, <1>1, <1>5
<1>7. ASSUME NEW k \in 1..Len(w), ~(w[k].at >= at)
      PROVE  FALSE
  <2>1. k \in Nat /\ k - 1 \in Nat /\ k - 1 < MaxListed /\ k \in 1..N /\ v[k] = w[k]
    BY <1>0, <1>1, <1>5, <1>6
  <2> DEFINE h == [m \in 1..MaxListed |-> f[g[m]]]
  <2>2. ASSUME NEW m \in 1..MaxListed PROVE h[m] \in 1..(k - 1)
    <3>1. g[m] \in 1..N /\ f[g[m]] \in 1..N /\ v[f[g[m]]] = rows[g[m]] /\ rows[g[m]].at >= at
      BY <1>3
    <3>2. v[f[g[m]]].at >= at /\ v[f[g[m]]].at \in Nat /\ v[k].at \in Nat
      BY <1>1, <1>2, <2>1, <3>1, EntriesAre
    <3>3. ~(k <= f[g[m]])
      <4>1. k <= f[g[m]] => v[k].at >= v[f[g[m]]].at
        BY <1>1, <1>2, <2>1, <3>1 DEF Descending
      <4> QED
        BY <1>7, <2>1, <3>2, <4>1
    <3> QED
      BY <2>1, <3>1, <3>3
  <2>3. h \in [1..MaxListed -> 1..(k - 1)]
    BY <2>2
  <2>4. \A m, l \in 1..MaxListed : h[m] = h[l] => m = l
    BY <1>3
  <2> HIDE DEF h
  <2> QED
    BY <1>4, <2>1, <2>3, <2>4
<1>8. DOMAIN w = 1..Len(w)
  BY <1>1
<1> QED
  BY <1>6, <1>7, <1>8 DEF FullSince, w

-----------------------------------------------------------------------------
(* The telemetry that is kept *)

Incidents == [kind : {"service_failed", "service_recovered", "ssh_failure"}, at : Nat]
Recorded == [state : {"none", "active", "failed", "activating"}, ssh : {0, 1}, at : Nat]

ReceivedRequests == [at : {"received"}, report : Reports, now : Nat]
ReadRequests == [at : {"read"}, report : Reports, now : Nat, previous : Recorded]

\* Samples are in the order of time, whatever order they were saved in.
TelemetrySound ==
  /\ clock \in Nat /\ status \in Recorded
  /\ samples \in Seq(Samples) /\ ByTime(samples)
  /\ incidents \in Seq(Incidents)
  /\ requests \in [TelemetryThreads -> {NoRequest} \cup ReceivedRequests \cup ReadRequests]

\* A choice among rows of any order is a sequence of such rows.
LEMMA ChosenTyped ==
  ASSUME NEW E, NEW rows \in Seq(E), NEW S
  PROVE  Chosen(rows, S) \in Seq(E)
<1>1. PICK c \in [0..Len(rows) -> Seq(E)] : Chosen(rows, S) = c[Len(rows)]
  BY ChosenRuns
<1>2. Len(rows) \in 0..Len(rows)
  OBVIOUS
<1> QED
  BY <1>1, <1>2

LEMMA StoreSound ==
  ASSUME TelemetrySound, NEW t \in TelemetryThreads, NEW previous \in Recorded,
         requests[t] \in ReceivedRequests \cup ReadRequests, Store(t, previous)
  PROVE  TelemetrySound'
<1> DEFINE r == requests[t]
           events == ServiceEvents(previous, r.report, r.now)
           failures == SshEvents(previous, r.report)
           sample == [at |-> r.now, load |-> r.report.load]
<1>1. /\ r.now \in Nat /\ r.report.load \in {"low", "high"} /\ r.report.ssh \in {0, 1}
      /\ r.report.state \in {"none", "active", "failed", "activating"}
  BY DEF ReceivedRequests, ReadRequests, Reports, Report
<1>2. events \in Seq(Incidents) /\ failures \in Seq(Incidents)
  <2>1. \A i \in Incidents : <<i>> \in Seq(Incidents)
    OBVIOUS
  <2>2. /\ [kind |-> "service_failed", at |-> r.now] \in Incidents
        /\ [kind |-> "service_recovered", at |-> r.now] \in Incidents
        /\ [kind |-> "ssh_failure", at |-> r.report.ssh] \in Incidents
    BY <1>1 DEF Incidents
  <2> QED
    BY <2>1, <2>2 DEF ServiceEvents, SshEvents
<1>3. sample \in Samples
  BY <1>1 DEF Samples
<1>4. status' \in {[state |-> r.report.state, ssh |-> r.report.ssh, at |-> r.now], status}
  BY DEF Store
<1>5. samples' = Kept(Inserted(samples, sample), r.now)
  BY DEF Store
<1>6. incidents' = Kept(incidents \o events \o failures, r.now)
  BY DEF Store
<1>7. Answered(t) /\ clock' = clock
  BY DEF Store
<1>8. \A e \in Samples : e.at \in Nat
  BY DEF Samples
<1> HIDE DEF r, events, failures, sample
<1>9. Inserted(samples, sample) \in Seq(Samples) /\ ByTime(Inserted(samples, sample))
  BY <1>3, <1>8, InsertedIs DEF TelemetrySound
<1>10. samples' \in Seq(Samples) /\ ByTime(samples')
  BY <1>5, <1>8, <1>9, ChosenIs DEF Kept
<1>11. incidents' \in Seq(Incidents)
  <2>1. incidents \o events \o failures \in Seq(Incidents)
    BY <1>2, ConcatProperties DEF TelemetrySound
  <2> QED
    BY <1>6, <2>1, ChosenTyped DEF Kept
<1>12. status' \in Recorded
  BY <1>1, <1>4 DEF Recorded, TelemetrySound
<1>13. requests' \in [TelemetryThreads -> {NoRequest} \cup ReceivedRequests \cup ReadRequests]
  BY <1>7 DEF Answered, TelemetrySound
<1> QED
  BY <1>7, <1>10, <1>11, <1>12, <1>13 DEF TelemetrySound

LEMMA TelemetryStep ==
  ASSUME TelemetrySound, [TelemetryNext]_telemetryVars
  PROVE  TelemetrySound'
<1> DEFINE Requests == {NoRequest} \cup ReceivedRequests \cup ReadRequests
<1> USE DEF TelemetrySound
<1>1. CASE Tick \/ RevokeToken
  BY <1>1 DEF Tick, RevokeToken
<1>2. ASSUME NEW t \in TelemetryThreads, NEW report \in Reports, Receive(t, report)
      PROVE  TelemetrySound'
  <2>1. [at |-> "received", report |-> report, now |-> clock] \in ReceivedRequests
    BY DEF ReceivedRequests
  <2> QED
    BY <1>2, <2>1 DEF Receive
<1>3. ASSUME NEW t \in TelemetryThreads, ReadStatus(t) PROVE TelemetrySound'
  <2>1. requests[t] \in ReceivedRequests
    BY <1>3 DEF ReadStatus, NoRequest, ReadRequests
  <2>2. [at |-> "read", report |-> requests[t].report, now |-> requests[t].now, previous |-> status]
          \in ReadRequests
    BY <2>1 DEF ReceivedRequests, ReadRequests
  <2> QED
    BY <1>3, <2>2 DEF ReadStatus
<1>4. ASSUME NEW t \in TelemetryThreads, SqliteSave(t) PROVE TelemetrySound'
  <2>1. requests[t] \in ReadRequests
    BY <1>4 DEF SqliteSave, NoRequest, ReceivedRequests
  <2>2. requests[t].previous \in Recorded
    BY <2>1 DEF ReadRequests
  <2> QED
    BY <1>4, <2>1, <2>2, StoreSound DEF SqliteSave
<1>5. ASSUME NEW t \in TelemetryThreads, PgSave(t) PROVE TelemetrySound'
  <2>1. requests[t] \in ReceivedRequests
    BY <1>5 DEF PgSave, NoRequest, ReadRequests
  <2> QED
    BY <1>5, <2>1, StoreSound DEF PgSave
<1>6. ASSUME NEW t \in TelemetryThreads, PgRefuse(t) PROVE TelemetrySound'
  BY <1>6 DEF PgRefuse, Answered
<1>7. CASE UNCHANGED telemetryVars
  BY <1>7 DEF telemetryVars
<1>8. ASSUME NEW t \in TelemetryThreads, SqliteSaveLoad(t) PROVE TelemetrySound'
  <2>1. requests[t] \in ReceivedRequests
    BY <1>8 DEF SqliteSaveLoad, NoRequest, ReadRequests
  <2>2. NoStatus \in Recorded
    BY DEF NoStatus, Recorded
  <2> QED
    BY <1>8, <2>1, <2>2, StoreSound DEF SqliteSaveLoad
<1> QED
  BY <1>1, <1>2, <1>3, <1>4, <1>5, <1>6, <1>7, <1>8 DEF TelemetryNext

LEMMA Consecutive ==
  ASSUME NEW a \in Seq(Entries), NEW b \in Seq(Entries)
  PROVE  /\ a \o b \in Seq(Entries) /\ Len(a \o b) = Len(a) + Len(b)
         /\ \A k \in 1..Len(a) : k \in 1..Len(a \o b) /\ (a \o b)[k] = a[k]
         /\ \A k \in 1..Len(b) : Len(a) + k \in 1..Len(a \o b) /\ (a \o b)[Len(a) + k] = b[k]
         /\ \A k \in 1..Len(a \o b) :
              \/ k \in 1..Len(a) /\ (a \o b)[k] = a[k]
              \/ k - Len(a) \in 1..Len(b) /\ (a \o b)[k] = b[k - Len(a)]
<1> DEFINE v == a \o b
<1>1. /\ Len(a) \in Nat /\ Len(b) \in Nat
      /\ v \in Seq(Entries) /\ Len(v) = Len(a) + Len(b)
      /\ \A k \in 1..(Len(a) + Len(b)) : v[k] = IF k <= Len(a) THEN a[k] ELSE b[k - Len(a)]
  BY ConcatProperties, EntriesAre
<1> HIDE DEF v
<1>2. ASSUME NEW k \in 1..Len(a) PROVE k \in 1..Len(v) /\ v[k] = a[k]
  BY <1>1
<1>3. ASSUME NEW k \in 1..Len(b) PROVE Len(a) + k \in 1..Len(v) /\ v[Len(a) + k] = b[k]
  <2>1. Len(a) + k \in 1..(Len(a) + Len(b)) /\ ~(Len(a) + k <= Len(a)) /\ (Len(a) + k) - Len(a) = k
    BY <1>1
  <2> QED
    BY <1>1, <2>1
<1>4. ASSUME NEW k \in 1..Len(v)
      PROVE  \/ k \in 1..Len(a) /\ v[k] = a[k]
             \/ k - Len(a) \in 1..Len(b) /\ v[k] = b[k - Len(a)]
  <2>1. CASE k <= Len(a)
    BY <1>1, <2>1
  <2>2. CASE ~(k <= Len(a))
    BY <1>1, <2>2
  <2> QED
    BY <2>1, <2>2
<1> QED
  BY <1>1, <1>2, <1>3, <1>4 DEF v

\* What gives way in a part gives way in the list of all the parts.
\* Whatever is known of is listed, or gave way.
LEMMA KnownListed ==
  ASSUME NEW events \in Seq(Entries), NEW recorded \in Seq(Entries), NEW added \in Seq(Entries)
  PROVE  LET list == Newest((Newest(events) \o Newest(recorded)) \o added)
             known == events \o recorded
         IN /\ list \in Seq(Entries)
            /\ \A i \in 1..Len(known) :
                 (\E k \in 1..Len(list) : list[k] = known[i]) \/ FullSince(list, known[i].at)
            /\ \A i \in 1..Len(added) :
                 (\E k \in 1..Len(list) : list[k] = added[i]) \/ FullSince(list, added[i].at)
<1> DEFINE a == Newest(events)
           b == Newest(recorded)
           v == a \o b
           w == v \o added
           list == Newest(w)
           known == events \o recorded
           Shown(e) == (\E k \in 1..Len(list) : list[k] = e) \/ FullSince(list, e.at)
<1>1. /\ a \in Seq(Entries)
      /\ \A i \in 1..Len(events) :
           (\E k \in 1..Len(a) : a[k] = events[i]) \/ FullSince(a, events[i].at)
  BY NewestIs
<1>2. /\ b \in Seq(Entries)
      /\ \A i \in 1..Len(recorded) :
           (\E k \in 1..Len(b) : b[k] = recorded[i]) \/ FullSince(b, recorded[i].at)
  BY NewestIs
<1> HIDE DEF a, b
<1>3. v \in Seq(Entries)
  BY <1>1, <1>2, Consecutive
<1>4. w \in Seq(Entries)
  BY <1>3, Consecutive
<1>5. list \in Seq(Entries) /\ \A i \in 1..Len(w) : Shown(w[i])
  <2> HIDE DEF w
  <2> QED
    BY <1>4, NewestIs
<1>6. \A k \in 1..Len(a) : k \in 1..Len(w) /\ w[k] = a[k]
  <2>1. \A k \in 1..Len(a) : k \in 1..Len(v) /\ v[k] = a[k]
    BY <1>1, <1>2, Consecutive
  <2> HIDE DEF v
  <2> QED
    BY <1>3, <2>1, Consecutive
<1>7. \A k \in 1..Len(b) : Len(a) + k \in 1..Len(w) /\ w[Len(a) + k] = b[k]
  <2>1. \A k \in 1..Len(b) : Len(a) + k \in 1..Len(v) /\ v[Len(a) + k] = b[k]
    BY <1>1, <1>2, Consecutive
  <2> HIDE DEF v
  <2> QED
    BY <1>3, <2>1, Consecutive
<1>8. ASSUME NEW k \in 1..Len(added) PROVE Shown(added[k])
  <2>1. Len(v) + k \in 1..Len(w) /\ w[Len(v) + k] = added[k]
    <3> HIDE DEF v
    <3> QED
      BY <1>3, Consecutive
  <2> HIDE DEF list, w
  <2> QED
    BY <1>5, <2>1
<1>9. \A at \in Nat : FullSince(a, at) \/ FullSince(b, at) => FullSince(list, at)
  <2> SUFFICES ASSUME NEW at \in Nat, FullSince(a, at) \/ FullSince(b, at)
               PROVE  FullSince(list, at)
    OBVIOUS
  <2>1. CASE FullSince(b, at)
    <3>0. a \in Seq(Entries) /\ b \in Seq(Entries)
      BY <1>1, <1>2
    <3>1. /\ MaxListed \in Nat /\ Len(a) \in Nat /\ Len(b) = MaxListed
          /\ \A k \in 1..MaxListed : b[k].at >= at
      <4> HIDE DEF list, w, v, known, Shown
      <4> QED
        BY <3>0, <2>1, EntriesAre, TelemetryAssumption DEF FullSince
    <3> DEFINE g == [k \in 1..MaxListed |-> Len(a) + k]
    <3> HIDE DEF w
    <3>2. g \in [1..MaxListed -> 1..Len(w)] /\ \A m, l \in 1..MaxListed : g[m] = g[l] => m = l
      BY <1>7, <3>1
    <3>3. \A m \in 1..MaxListed : w[g[m]].at >= at
      BY <1>7, <3>1
    <3> HIDE DEF g
    <3> QED
      BY <1>4, <3>2, <3>3, NewestFull
  <2>2. CASE FullSince(a, at)
    <3>0. a \in Seq(Entries) /\ b \in Seq(Entries)
      BY <1>1, <1>2
    <3>1. /\ MaxListed \in Nat /\ Len(a) \in Nat /\ Len(a) = MaxListed
          /\ \A k \in 1..MaxListed : a[k].at >= at
      <4> HIDE DEF list, w, v, known, Shown
      <4> QED
        BY <3>0, <2>2, EntriesAre, TelemetryAssumption DEF FullSince
    <3> DEFINE g == [k \in 1..MaxListed |-> k]
    <3> HIDE DEF w
    <3>2. g \in [1..MaxListed -> 1..Len(w)] /\ \A m, l \in 1..MaxListed : g[m] = g[l] => m = l
      BY <1>6, <3>1
    <3>3. \A m \in 1..MaxListed : w[g[m]].at >= at
      BY <1>6, <3>1
    <3> HIDE DEF g
    <3> QED
      BY <1>4, <3>2, <3>3, NewestFull
  <2> QED
    BY <2>1, <2>2
<1>10. ASSUME NEW i \in 1..Len(events) PROVE Shown(events[i])
  <2>1. events[i].at \in Nat
    BY EntriesAre
  <2>2. CASE FullSince(a, events[i].at)
    BY <1>9, <2>1, <2>2
  <2>3. CASE \E k \in 1..Len(a) : a[k] = events[i]
    <3> HIDE DEF Shown, list, w
    <3> QED
      BY <1>5, <1>6, <2>3
  <2> QED
    BY <1>1, <2>2, <2>3
<1>11. ASSUME NEW i \in 1..Len(recorded) PROVE Shown(recorded[i])
  <2>1. recorded[i].at \in Nat
    BY EntriesAre
  <2>2. CASE FullSince(b, recorded[i].at)
    BY <1>9, <2>1, <2>2
  <2>3. CASE \E k \in 1..Len(b) : b[k] = recorded[i]
    <3> HIDE DEF Shown, list, w
    <3> QED
      BY <1>5, <1>7, <2>3
  <2> QED
    BY <1>2, <2>2, <2>3
<1>12. ASSUME NEW i \in 1..Len(known) PROVE Shown(known[i])
  <2>1. \/ i \in 1..Len(events) /\ known[i] = events[i]
        \/ i - Len(events) \in 1..Len(recorded) /\ known[i] = recorded[i - Len(events)]
    BY Consecutive
  <2> HIDE DEF Shown, known
  <2> QED
    BY <1>10, <1>11, <2>1
<1> QED
  BY <1>5, <1>8, <1>12, Zenon DEF a, b

LEMMA SoundListTells ==
  ASSUME TelemetrySound
  PROVE  ListTells
<1> SUFFICES ASSUME NEW hours \in 1..Retention
             PROVE  LET rows == Within(samples, hours)
                        events == EventsFromRows(rows)
                        known == events \o Within(incidents, hours)
                        list == Listed(hours)
                        failures == {known[i].at : i \in {i \in DOMAIN known :
                                                          known[i].kind = "service_failed"}}
                    IN /\ rows # <<>> =>
                            (rows[Len(rows)].load = "high" <=>
                               events # <<>> /\ events[Len(events)].kind = "threshold_exceeded")
                       /\ \A k \in 1 .. Len(events) - 1 :
                            /\ events[k].at <= events[k + 1].at
                            /\ {events[k].kind, events[k + 1].kind}
                                 = {"threshold_exceeded", "threshold_recovered"}
                       /\ \A i \in DOMAIN known :
                            \/ \E k \in DOMAIN list : list[k] = known[i]
                            \/ FullSince(list, known[i].at)
                       /\ status.state = "failed" /\ status.at + hours >= clock =>
                            \/ "service_failed" \in Kinds(list)
                            \/ \E at \in failures \cup {status.at} : FullSince(list, at)
  BY Zenon DEF ListTells
<1> DEFINE rows == Within(samples, hours)
           events == EventsFromRows(rows)
           recorded == Within(incidents, hours)
           known == events \o recorded
           shown == Newest(events) \o Newest(recorded)
           added == StillFailed(shown, hours)
           list == Newest(shown \o added)
           failures == {known[i].at : i \in {i \in DOMAIN known : known[i].kind = "service_failed"}}
<1>1. \A e \in Samples : e.at \in Nat
  BY DEF Samples
<1>2. rows \in Seq(Samples) /\ ByTime(rows)
  BY <1>1, ChosenIs DEF TelemetrySound, Within
<1>3. recorded \in Seq(Entries)
  <2>1. recorded \in Seq(Incidents)
    BY ChosenTyped DEF TelemetrySound, Within
  <2>2. Incidents \subseteq Entries
    BY DEF Incidents, Entries
  <2> HIDE DEF recorded
  <2> QED
    BY <2>1, <2>2, SeqMonotonic
<1>4. Listed(hours) = list
  BY Zenon DEF Listed
<1> HIDE DEF rows, recorded
<1>5. events \in Seq(Crossings) /\ Tells(rows, Len(rows), events)
  BY <1>2, EventsTell
<1> HIDE DEF events
<1>6. rows # <<>> => (rows[Len(rows)].load = "high" <=>
                        events # <<>> /\ events[Len(events)].kind = "threshold_exceeded")
  <2>1. rows # <<>> => Len(rows) # 0
    BY <1>2
  <2> QED
    BY <1>5, <2>1 DEF Tells
<1>7. ASSUME NEW k \in 1..(Len(events) - 1)
      PROVE  /\ events[k].at <= events[k + 1].at
             /\ {events[k].kind, events[k + 1].kind} = {"threshold_exceeded", "threshold_recovered"}
  <2>1. Len(events) \in Nat /\ \A i \in 1..Len(events) : events[i] \in Crossings
    BY <1>5
  <2>2. events[k] \in Crossings /\ events[k + 1] \in Crossings
    BY <2>1
  <2>3. events[k].at <= events[k + 1].at /\ events[k].kind # events[k + 1].kind
    BY <1>5 DEF Tells
  <2> QED
    BY <2>2, <2>3 DEF Crossings
<1>8. events \in Seq(Entries)
  <2>1. Crossings \subseteq Entries
    BY DEF Crossings, Entries
  <2> QED
    BY <1>5, <2>1, SeqMonotonic
<1> DEFINE login == [kind |-> "ssh_failure", at |-> status.ssh]
           failure == [kind |-> "service_failed", at |-> status.at]
<1>9. login \in Entries /\ failure \in Entries
  BY DEF TelemetrySound, Recorded, Entries
<1>10. failure.kind = "service_failed" /\ failure.at = status.at
  OBVIOUS
<1>11. /\ added \in Seq(Entries)
       /\ status.state = "failed" /\ status.at + hours >= clock /\ "service_failed" \notin Kinds(shown)
            => \E i \in 1..Len(added) : added[i] = failure
  <2> DEFINE c == IF /\ status.ssh > 0 /\ status.ssh + hours >= clock
                     /\ "ssh_failure" \notin Kinds(shown)
                  THEN <<login>> ELSE <<>>
             d == IF /\ status.state = "failed" /\ status.at + hours >= clock
                     /\ "service_failed" \notin Kinds(shown)
                  THEN <<failure>> ELSE <<>>
  <2>1. added = c \o d
    BY Zenon DEF StillFailed
  <2> HIDE DEF login, failure, shown, added
  <2>2. c \in Seq(Entries) /\ d \in Seq(Entries)
    BY <1>9
  <2>3. status.state = "failed" /\ status.at + hours >= clock /\ "service_failed" \notin Kinds(shown)
          => 1 \in 1..Len(d) /\ d[1] = failure
    OBVIOUS
  <2> HIDE DEF c, d
  <2>4. added \in Seq(Entries) /\ \A k \in 1..Len(d) :
          Len(c) + k \in 1..Len(added) /\ added[Len(c) + k] = d[k]
    BY <2>1, <2>2, Consecutive
  <2> QED
    BY <2>3, <2>4
<1> HIDE DEF login, failure, added
<1>12. /\ list \in Seq(Entries)
       /\ \A i \in 1..Len(known) :
            (\E k \in 1..Len(list) : list[k] = known[i]) \/ FullSince(list, known[i].at)
       /\ \A i \in 1..Len(added) :
            (\E k \in 1..Len(list) : list[k] = added[i]) \/ FullSince(list, added[i].at)
  BY <1>3, <1>8, <1>11, KnownListed
<1>13. known \in Seq(Entries)
  BY <1>3, <1>8, Consecutive
<1>14. ASSUME "service_failed" \in Kinds(shown)
       PROVE  \E i \in 1..Len(known) : known[i].kind = "service_failed"
  <2>1. Newest(events) \in Seq(Entries) /\ Newest(recorded) \in Seq(Entries)
    BY <1>3, <1>8, NewestIs
  <2>2. shown \in Seq(Entries)
    BY <2>1, Consecutive
  <2>3. PICK k \in 1..Len(shown) : shown[k].kind = "service_failed"
    <3> HIDE DEF shown
    <3>1. DOMAIN shown = 1..Len(shown)
      BY <2>2
    <3> QED
      BY <1>14, <3>1 DEF Kinds
  <2>4. \/ \E l \in 1..Len(Newest(events)) : shown[k] = Newest(events)[l]
        \/ \E l \in 1..Len(Newest(recorded)) : shown[k] = Newest(recorded)[l]
    BY <2>1, Consecutive
  <2>5. CASE \E l \in 1..Len(Newest(events)) : shown[k] = Newest(events)[l]
    <3>1. PICK i \in 1..Len(events) : shown[k] = events[i]
      BY <1>8, <2>5, NewestIs
    <3>2. i \in 1..Len(known) /\ known[i] = events[i]
      BY <1>3, <1>8, Consecutive
    <3> QED
      BY <2>3, <3>1, <3>2
  <2>6. CASE \E l \in 1..Len(Newest(recorded)) : shown[k] = Newest(recorded)[l]
    <3>1. PICK i \in 1..Len(recorded) : shown[k] = recorded[i]
      BY <1>3, <2>6, NewestIs
    <3>2. Len(events) + i \in 1..Len(known) /\ known[Len(events) + i] = recorded[i]
      BY <1>3, <1>8, Consecutive
    <3> QED
      BY <2>3, <3>1, <3>2
  <2> QED
    BY <2>4, <2>5, <2>6
<1> HIDE DEF shown, list, known
<1>15. DOMAIN list = 1..Len(list) /\ DOMAIN known = 1..Len(known)
  BY <1>12, <1>13
<1>16. ASSUME status.state = "failed", status.at + hours >= clock
       PROVE  \/ "service_failed" \in Kinds(list)
              \/ \E at \in failures \cup {status.at} : FullSince(list, at)
  <2>1. CASE "service_failed" \in Kinds(shown)
    <3>1. PICK i \in 1..Len(known) : known[i].kind = "service_failed"
      BY <1>14, <2>1
    <3>2. known[i].at \in failures
      BY <1>15, <3>1
    <3> HIDE DEF failures
    <3> QED
      BY <1>12, <1>15, <3>1, <3>2 DEF Kinds
  <2>2. CASE "service_failed" \notin Kinds(shown)
    <3>1. PICK i \in 1..Len(added) : added[i] = failure
      BY <1>11, <1>16, <2>2
    <3> HIDE DEF failures
    <3>2. failure.kind = "service_failed" /\ failure.at = status.at
      BY <1>10 DEF failure
    <3> QED
      BY <1>12, <1>15, <3>1, <3>2 DEF Kinds
  <2> QED
    BY <2>1, <2>2
<1>17. \A i \in DOMAIN known :
         (\E k \in DOMAIN list : list[k] = known[i]) \/ FullSince(list, known[i].at)
  BY <1>12, <1>15
<1> QED
  BY <1>4, <1>6, <1>7, <1>16, <1>17 DEF rows, events, recorded, known

\* However requests overlap, and whatever was dropped as too old, the list of a page
\* tells the load and the failed service (telemetry_events_from_rows,
\* client_telemetry_events).
THEOREM ListAlwaysTells == TelemetrySpec => []ListTells
<1>1. TelemetryInit => TelemetrySound
  <2> SUFFICES ASSUME TelemetryInit PROVE TelemetrySound
    OBVIOUS
  <2>1. samples \in Seq(Samples) /\ ByTime(samples) /\ incidents \in Seq(Incidents)
    BY DEF TelemetryInit, ByTime
  <2>2. status \in Recorded /\ clock \in Nat
    BY DEF TelemetryInit, NoStatus, Recorded
  <2> QED
    BY <2>1, <2>2 DEF TelemetryInit, TelemetrySound
<1>2. TelemetrySound => ListTells
  BY SoundListTells
<1>3. TelemetrySound /\ [TelemetryNext]_telemetryVars => TelemetrySound'
  BY TelemetryStep
<1> QED
  BY <1>1, <1>2, <1>3, PTL DEF TelemetrySpec

-----------------------------------------------------------------------------
(* Admission: the invariant *)

ProviderTimes == [utc : Int, boot : Int]

\* When it is synchronised the provider is wrong by no more than it says.
ProviderSound ==
  /\ boottime \in Int
  /\ provider \in [sync : ProviderTimes, seen : ProviderTimes, fit : BOOLEAN]
  /\ provider.sync.utc - provider.sync.boot >= -SyncError

\* The most a trusted reading can be behind, added to the end of a list.
RealEnd(crl) == Latest(crl) - Margin + SyncError + Consistency

AdmissionStates == {"BLOCKED", "READY", "UPDATE_PENDING", "RECOVERY"}

ControllerSound ==
  /\ controller \in [started : Int, state : AdmissionStates, active : Crls \cup {NoCrl}, deadline : Int,
                     candidate : Crls \cup {NoCrl}, candidate_deadline : Int, verifying : BOOLEAN]
  /\ controller.verifying => controller.state = "RECOVERY"
  /\ controller.state = "RECOVERY" => controller.candidate \in Crls
  /\ controller.state \in Admitting =>
       controller.active \in Crls /\ controller.deadline <= RealEnd(controller.active)

AdmissionInv == ProviderSound /\ ControllerSound

\* AdmitsInTime of one step.
InTime ==
  /\ admitted' => boottime < RealEnd(controller'.active)
  /\ controller'.state \in Admitting =>
       /\ controller'.deadline <= RealEnd(controller'.active)
       /\ controller.state \in Admitting => controller'.deadline <= controller.deadline

-----------------------------------------------------------------------------
(* Admission: time *)

LEMMA Smaller ==
  ASSUME NEW a \in Int, NEW b \in Int
  PROVE  Min({a, b}) \in {a, b} /\ Min({a, b}) <= a /\ Min({a, b}) <= b
<1>1. \E x \in {a, b} : \A y \in {a, b} : x <= y
  <2>1. CASE a <= b
    BY <2>1
  <2>2. CASE b <= a
    BY <2>2
  <2> QED
    BY <2>1, <2>2
<1>2. Min({a, b}) \in {a, b} /\ \A y \in {a, b} : Min({a, b}) <= y
  BY <1>1 DEF Min
<1> QED
  BY <1>2

LEMMA LatestIs ==
  ASSUME NEW crl \in Crls
  PROVE  Latest(crl) \in Int /\ RealEnd(crl) \in Int
<1>1. crl.this \in Int /\ crl.next \in Int /\ MaxAge \in Int
  BY CrlsAssumption, AdmissionLimitsAssumption
<1>2. Latest(crl) \in Int
  <2> DEFINE aged == crl.this + MaxAge
  <2>1. aged \in Int
    BY <1>1
  <2>2. Min({crl.next, aged}) \in {crl.next, aged}
    <3> HIDE DEF aged
    <3> QED
      BY <1>1, <2>1, Smaller, Zenon
  <2>3. Min({crl.next, aged}) \in Int
    <3> HIDE DEF aged
    <3> QED
      BY <1>1, <2>1, <2>2, Zenon
  <2> QED
    BY <2>3 DEF Latest
<1> QED
  BY <1>2, AdmissionLimitsAssumption DEF RealEnd

\* A trusted reading is behind real time by no more than the error of the last
\* synchronisation and what the wall clock may have drifted since.
LEMMA ReadingIsLate ==
  ASSUME ProviderSound, Readable
  PROVE  EffectiveUtc \in Int /\ EffectiveUtc >= boottime - SyncError - Consistency
<1>1. /\ provider.seen.utc \in Int /\ provider.seen.boot \in Int
      /\ provider.sync.utc \in Int /\ provider.sync.boot \in Int
      /\ boottime \in Int /\ provider.sync.utc - provider.sync.boot >= -SyncError
  BY DEF ProviderSound, ProviderTimes
<1>2. (provider.seen.utc - provider.sync.utc) - (provider.seen.boot - provider.sync.boot) \in -Consistency..Consistency
  BY DEF Readable, Trusted, WallElapsed, SyncAge
<1>3. SyncError \in Int /\ Consistency \in Int
  BY AdmissionLimitsAssumption
<1> QED
  BY <1>1, <1>2, <1>3 DEF EffectiveUtc

LEMMA UsableInTime ==
  ASSUME ProviderSound, NEW crl \in Crls, Usable(crl)
  PROVE  Deadline(crl) \in Int /\ Deadline(crl) <= RealEnd(crl)
<1>1. EffectiveUtc \in Int /\ EffectiveUtc >= boottime - SyncError - Consistency
  BY ReadingIsLate DEF Usable
<1>2. Latest(crl) \in Int /\ Margin \in Int /\ SyncError \in Int /\ Consistency \in Int /\ boottime \in Int
  BY LatestIs, AdmissionLimitsAssumption DEF ProviderSound
<1> QED
  BY <1>1, <1>2 DEF Deadline, Remaining, RealEnd

-----------------------------------------------------------------------------
(* Admission: steps *)

LEMMA RefreshIs ==
  ASSUME AdmissionInv, StillActive, controller.state \in Admitting
  PROVE  /\ Refreshed \in Int /\ Refreshed <= controller.deadline /\ Refreshed <= RealEnd(controller.active)
         /\ controller.active \in Crls /\ boottime < Refreshed
<1>1. controller.active \in Crls /\ controller.deadline \in Int
  BY DEF AdmissionInv, ControllerSound
<1>2. Deadline(controller.active) \in Int /\ Deadline(controller.active) <= RealEnd(controller.active)
  BY <1>1, UsableInTime DEF AdmissionInv, StillActive
<1>3. RealEnd(controller.active) \in Int
  BY <1>1, LatestIs
<1>4. Refreshed \in Int /\ Refreshed <= controller.deadline /\ Refreshed <= Deadline(controller.active)
  BY <1>1, <1>2, Smaller DEF Refreshed
<1>5. Refreshed <= RealEnd(controller.active)
  BY <1>2, <1>3, <1>4
<1>6. boottime < Refreshed
  BY DEF StillActive
<1> QED
  BY <1>1, <1>4, <1>5, <1>6

LEMMA BlockedIs ==
  ASSUME AdmissionInv, controller' = Blocked, ~admitted'
  PROVE  ControllerSound' /\ InTime
<1>1. controller \in [started : Int, state : AdmissionStates, active : Crls \cup {NoCrl}, deadline : Int,
                     candidate : Crls \cup {NoCrl}, candidate_deadline : Int, verifying : BOOLEAN]
  BY DEF AdmissionInv, ControllerSound
<1>2. controller'.state = "BLOCKED" /\ ~controller'.verifying
  BY <1>1 DEF Blocked
<1>3. controller' \in [started : Int, state : AdmissionStates, active : Crls \cup {NoCrl}, deadline : Int,
                     candidate : Crls \cup {NoCrl}, candidate_deadline : Int, verifying : BOOLEAN]
  <2>1. "BLOCKED" \in AdmissionStates /\ 0 \in Int /\ NoCrl \in Crls \cup {NoCrl} /\ FALSE \in BOOLEAN
    BY DEF AdmissionStates
  <2>2. controller' = [controller EXCEPT !.state = "BLOCKED", !.deadline = 0, !.candidate = NoCrl,
                                         !.candidate_deadline = 0, !.verifying = FALSE]
    BY DEF Blocked
  <2> QED
    BY <1>1, <2>1, <2>2, Zenon
<1> QED
  BY <1>2, <1>3 DEF ControllerSound, InTime, Admitting

LEMMA RefreshedInTime ==
  ASSUME AdmissionInv, NEW state \in Admitting, controller.state \in Admitting, Unlocked,
         controller' = RefreshedAs(state), admitted' => StillActive
  PROVE  ControllerSound' /\ InTime
<1>1. CASE ~StillActive
  BY <1>1, BlockedIs DEF RefreshedAs
<1>2. CASE StillActive
  <2>1. controller \in [started : Int, state : AdmissionStates, active : Crls \cup {NoCrl}, deadline : Int,
                       candidate : Crls \cup {NoCrl}, candidate_deadline : Int, verifying : BOOLEAN]
        /\ ~controller.verifying
    BY DEF AdmissionInv, ControllerSound, Unlocked
  <2>2. controller' = [controller EXCEPT !.state = state, !.deadline = Refreshed]
    BY <1>2 DEF RefreshedAs
  <2>3. /\ Refreshed \in Int /\ Refreshed <= controller.deadline /\ Refreshed <= RealEnd(controller.active)
        /\ controller.active \in Crls /\ boottime < Refreshed
    BY <1>2, RefreshIs
  <2>4. /\ controller' \in [started : Int, state : AdmissionStates, active : Crls \cup {NoCrl}, deadline : Int,
                           candidate : Crls \cup {NoCrl}, candidate_deadline : Int, verifying : BOOLEAN]
        /\ ~controller'.verifying /\ controller'.state = state /\ controller'.active = controller.active
        /\ controller'.deadline = Refreshed
    BY <2>1, <2>2, <2>3 DEF AdmissionStates, Admitting
  <2>5. boottime < RealEnd(controller.active)
    BY <2>3, LatestIs DEF AdmissionInv, ProviderSound
  <2> QED
    BY <2>3, <2>4, <2>5 DEF ControllerSound, InTime, Admitting
<1> QED
  BY <1>1, <1>2

LEMMA RecoveryBegins ==
  ASSUME AdmissionInv, NEW crl \in Crls, BeginRecovery(crl)
  PROVE  ControllerSound' /\ InTime
<1>1. ~admitted' /\ Unlocked /\ controller.state \in {"BLOCKED", "UPDATE_PENDING"}
  BY DEF BeginRecovery
<1>2. CASE Usable(crl)
  <2>1. controller \in [started : Int, state : AdmissionStates, active : Crls \cup {NoCrl}, deadline : Int,
                       candidate : Crls \cup {NoCrl}, candidate_deadline : Int, verifying : BOOLEAN]
    BY DEF AdmissionInv, ControllerSound
  <2>2. controller' = [controller EXCEPT !.state = "RECOVERY", !.candidate = crl,
                                         !.candidate_deadline = Deadline(crl)]
    BY <1>2 DEF BeginRecovery
  <2>3. Deadline(crl) \in Int
    BY <1>2, UsableInTime DEF AdmissionInv
  <2>4. /\ controller' \in [started : Int, state : AdmissionStates, active : Crls \cup {NoCrl}, deadline : Int,
                           candidate : Crls \cup {NoCrl}, candidate_deadline : Int, verifying : BOOLEAN]
        /\ controller'.state = "RECOVERY" /\ controller'.candidate = crl
    BY <2>1, <2>2, <2>3 DEF AdmissionStates
  <2> QED
    BY <1>1, <2>4 DEF ControllerSound, InTime, Admitting
<1>3. CASE ~Usable(crl) /\ controller.state = "UPDATE_PENDING"
  <2>1. controller' = RefreshedAs("READY")
    BY <1>3 DEF BeginRecovery
  <2> QED
    BY <1>1, <1>3, <2>1, RefreshedInTime DEF Admitting
<1>4. CASE ~Usable(crl) /\ controller.state # "UPDATE_PENDING"
  BY <1>1, <1>4, BlockedIs DEF BeginRecovery
<1> QED
  BY <1>2, <1>3, <1>4

LEMMA RecoveryCompletes ==
  ASSUME AdmissionInv, NEW verified \in BOOLEAN, CompleteRecovery(verified)
  PROVE  ControllerSound' /\ InTime
<1> DEFINE crl == controller.candidate
           deadline == Min({controller.candidate_deadline, Deadline(crl)})
<1>1. ~admitted' /\ controller.verifying
  BY DEF CompleteRecovery
<1>2. /\ controller \in [started : Int, state : AdmissionStates, active : Crls \cup {NoCrl}, deadline : Int,
                        candidate : Crls \cup {NoCrl}, candidate_deadline : Int, verifying : BOOLEAN]
      /\ controller.state = "RECOVERY" /\ crl \in Crls /\ controller.candidate_deadline \in Int
  BY <1>1 DEF AdmissionInv, ControllerSound
<1>3. CASE verified /\ Usable(crl) /\ boottime < deadline
  <2>1. controller' = [controller EXCEPT !.state = "READY", !.active = crl, !.deadline = deadline,
                                  !.candidate = NoCrl, !.candidate_deadline = 0,
                                  !.verifying = FALSE]
    BY <1>3 DEF CompleteRecovery
  <2>2. Deadline(crl) \in Int /\ Deadline(crl) <= RealEnd(crl) /\ RealEnd(crl) \in Int
    BY <1>2, <1>3, UsableInTime, LatestIs DEF AdmissionInv
  <2>3. deadline \in Int /\ deadline <= Deadline(crl)
    BY <1>2, <2>2, Smaller
  <2>4. deadline <= RealEnd(crl)
    BY <2>2, <2>3
  <2> HIDE DEF deadline
  <2>5. /\ controller' \in [started : Int, state : AdmissionStates, active : Crls \cup {NoCrl}, deadline : Int,
                           candidate : Crls \cup {NoCrl}, candidate_deadline : Int, verifying : BOOLEAN]
        /\ controller'.state = "READY" /\ controller'.active = crl /\ controller'.deadline = deadline
        /\ ~controller'.verifying
    <3>1. "READY" \in AdmissionStates /\ crl \in Crls \cup {NoCrl} /\ 0 \in Int /\ NoCrl \in Crls \cup {NoCrl}
          /\ FALSE \in BOOLEAN /\ deadline \in Int
      BY <1>2, <2>3 DEF AdmissionStates
    <3>2. controller' \in [started : Int, state : AdmissionStates, active : Crls \cup {NoCrl}, deadline : Int,
                     candidate : Crls \cup {NoCrl}, candidate_deadline : Int, verifying : BOOLEAN]
      BY <1>2, <2>1, <3>1, Zenon
    <3>3. /\ controller'.state = "READY" /\ controller'.active = crl /\ controller'.deadline = deadline
          /\ ~controller'.verifying
      BY <1>2, <2>1, Zenon
    <3> QED
      BY <3>2, <3>3
  <2> QED
    BY <1>1, <1>2, <2>4, <2>5 DEF ControllerSound, InTime, Admitting
<1>4. CASE ~(verified /\ Usable(crl) /\ boottime < deadline)
  <2>1. controller' = Blocked
    BY <1>4 DEF CompleteRecovery
  <2> QED
    BY <1>1, <2>1, BlockedIs
<1> QED
  BY <1>3, <1>4

LEMMA SameController ==
  ASSUME ControllerSound, UNCHANGED controller, ~admitted'
  PROVE  ControllerSound' /\ InTime
<1>1. Admitting' = Admitting
  BY DEF Admitting
<1>2. ControllerSound'
  BY DEF ControllerSound, RealEnd, Latest
<1>3. controller.deadline \in Int
  BY DEF ControllerSound
<1> QED
  BY <1>2, <1>3 DEF ControllerSound, InTime

LEMMA ControllerStep ==
  ASSUME AdmissionInv, AdmissionNext
  PROVE  ControllerSound' /\ InTime
<1> USE DEF Admitting
<1>1. CASE AdmitNewConnection
  BY <1>1, RefreshedInTime DEF AdmitNewConnection
<1>2. CASE BeginUpdate
  BY <1>2, RefreshedInTime DEF BeginUpdate
<1>3. CASE FailUpdate
  BY <1>3, RefreshedInTime DEF FailUpdate
<1>4. CASE StartVerification
  <2>1. /\ controller \in [started : Int, state : AdmissionStates, active : Crls \cup {NoCrl}, deadline : Int,
                          candidate : Crls \cup {NoCrl}, candidate_deadline : Int, verifying : BOOLEAN]
        /\ controller.state = "RECOVERY" /\ controller.candidate \in Crls /\ ~admitted'
        /\ controller' = [controller EXCEPT !.verifying = TRUE]
    BY <1>4 DEF AdmissionInv, ControllerSound, StartVerification
  <2>2. /\ controller' \in [started : Int, state : AdmissionStates, active : Crls \cup {NoCrl}, deadline : Int,
                           candidate : Crls \cup {NoCrl}, candidate_deadline : Int, verifying : BOOLEAN]
        /\ controller'.state = "RECOVERY" /\ controller'.candidate = controller.candidate
    BY <2>1
  <2> QED
    BY <2>1, <2>2 DEF ControllerSound, InTime
<1>5. CASE RestartProcess
  <2>1. controller' = Started /\ boottime \in Int /\ ~admitted'
    BY <1>5 DEF RestartProcess, AdmissionInv, ProviderSound
  <2> QED
    BY <2>1 DEF Started, ControllerSound, InTime, AdmissionStates
<1>6. CASE BootTick \/ Synchronize \/ ReadWallClock \/ ProviderChanges
  <2>1. UNCHANGED controller /\ ~admitted'
    BY <1>6 DEF BootTick, Synchronize, ReadWallClock, ProviderChanges
  <2> QED
    BY <2>1, SameController DEF AdmissionInv
<1> QED
  BY <1>1, <1>2, <1>3, <1>4, <1>5, <1>6, RecoveryBegins, RecoveryCompletes DEF AdmissionNext

LEMMA ProviderStep ==
  ASSUME AdmissionInv, AdmissionNext
  PROVE  ProviderSound'
<1>1. /\ boottime \in Int
      /\ provider \in [sync : ProviderTimes, seen : ProviderTimes, fit : BOOLEAN]
      /\ provider.sync.utc - provider.sync.boot >= -SyncError
  BY DEF AdmissionInv, ProviderSound
<1>2. CASE BootTick
  BY <1>1, <1>2 DEF BootTick, ProviderSound
<1>3. CASE Synchronize
  <2>1. PICK e \in -SyncError..SyncError :
          LET reading == [utc |-> boottime + e, boot |-> boottime] IN
          provider' = [provider EXCEPT !.sync = reading, !.seen = reading] /\ boottime' = boottime
    BY <1>3 DEF Synchronize
  <2>2. e \in Int /\ e >= -SyncError
    BY AdmissionLimitsAssumption
  <2> DEFINE reading == [utc |-> boottime + e, boot |-> boottime]
  <2>3. reading \in ProviderTimes /\ reading.utc - reading.boot = e
    BY <1>1, <2>2 DEF ProviderTimes
  <2>4. provider' = [provider EXCEPT !.sync = reading, !.seen = reading] /\ boottime' = boottime
    BY <2>1
  <2> HIDE DEF reading
  <2>5. provider' \in [sync : ProviderTimes, seen : ProviderTimes, fit : BOOLEAN] /\ provider'.sync = reading
    BY <1>1, <2>3, <2>4
  <2> QED
    BY <1>1, <2>2, <2>3, <2>4, <2>5 DEF ProviderSound
<1>4. CASE ReadWallClock
  <2>1. PICK e \in WallErrors :
          provider' = [provider EXCEPT !.seen = [utc |-> boottime + e, boot |-> boottime]]
          /\ boottime' = boottime
    BY <1>4 DEF ReadWallClock
  <2>2. e \in Int
    BY AdmissionLimitsAssumption
  <2> DEFINE reading == [utc |-> boottime + e, boot |-> boottime]
  <2>3. reading \in ProviderTimes
    BY <1>1, <2>2 DEF ProviderTimes
  <2>4. provider' = [provider EXCEPT !.seen = reading] /\ boottime' = boottime
    BY <2>1
  <2> HIDE DEF reading
  <2>5. provider' \in [sync : ProviderTimes, seen : ProviderTimes, fit : BOOLEAN] /\ provider'.sync = provider.sync
    BY <1>1, <2>3, <2>4
  <2> QED
    BY <1>1, <2>4, <2>5 DEF ProviderSound
<1>5. CASE ProviderChanges
  BY <1>1, <1>5 DEF ProviderChanges, ProviderSound
<1>6. ASSUME UNCHANGED <<boottime, provider>>
      PROVE  ProviderSound'
  BY <1>1, <1>6 DEF ProviderSound
<1> QED
  BY <1>2, <1>3, <1>4, <1>5, <1>6
  DEF AdmissionNext, AdmitNewConnection, BeginUpdate, FailUpdate, BeginRecovery, StartVerification,
      CompleteRecovery, RestartProcess

-----------------------------------------------------------------------------
(* Admission: the theorem *)

\* A connection is only admitted before the real end of the active list, and a deadline
\* that was set is never put off, however clocks are set and readings age.
THEOREM AlwaysAdmitsInTime == AdmissionSpec => AdmitsInTime
<1>1. AdmissionInit => AdmissionInv
  <2> SUFFICES ASSUME AdmissionInit PROVE AdmissionInv
    OBVIOUS
  <2>1. boottime = 0 /\ provider = [sync |-> [utc |-> 0, boot |-> 0], seen |-> [utc |-> 0, boot |-> 0], fit |-> TRUE]
        /\ controller = Started
    BY DEF AdmissionInit
  <2>2. ProviderSound
    BY <2>1, AdmissionLimitsAssumption DEF ProviderSound, ProviderTimes
  <2>3. ControllerSound
    BY <2>1 DEF ControllerSound, Started, AdmissionStates, Admitting
  <2> QED
    BY <2>2, <2>3 DEF AdmissionInv
<1>2. AdmissionInv /\ [AdmissionNext]_admissionVars => AdmissionInv'
  <2>1. ASSUME AdmissionInv, UNCHANGED admissionVars
        PROVE  AdmissionInv'
    BY <2>1 DEF admissionVars, AdmissionInv, ProviderSound, ControllerSound, ProviderTimes, AdmissionStates, Admitting,
       RealEnd, Latest
  <2> QED
    BY <2>1, ControllerStep, ProviderStep DEF AdmissionInv
<1>3. AdmissionInv /\ [AdmissionNext]_admissionVars => [InTime]_admissionVars
  BY ControllerStep
<1> QED
  BY <1>1, <1>2, <1>3, PTL DEF AdmissionSpec, AdmitsInTime, InTime, RealEnd

===============================================================================
