-------------------------- MODULE UpdateJobsProps --------------------------
(***************************************************************************)
(* What is claimed of the update-job store: its type, the invariants, the  *)
(* action properties and the abstract lifecycle it implements.             *)
(***************************************************************************)
EXTENDS UpdateJobs

\* Tables and threads hold what the code puts there; a thread past the body
\* validation carries a well-formed request.
TypeOK ==
  /\ enabled \in [Clients -> BOOLEAN]
  /\ available \in [Clients -> SUBSET Packages]
  /\ jobs \in Seq(JobRows)
  /\ history \in Seq(HistoryRows)
  /\ pc \in [Threads -> {"idle", "entered", "checked"}]
  /\ request \in [Threads -> Requests \cup {NoRequest}]
  /\ \A t \in Threads :
       /\ (pc[t] = "idle") <=> (request[t] = NoRequest)
       /\ pc[t] # "idle" => WellFormed(request[t])

\* Positions of the history rows of a job.
RowsOf(j) == {i \in 1..Len(history) : history[i].job = j}

Finished(j) == jobs[j].status \in FinishedStatuses

\* However results, abandonments and crashes interleave, a job that has ended
\* has exactly one history row, with the status and the owner of the job, and a
\* job that has not ended has none (update_history has no UNIQUE constraint:
\* only the guarded UPDATE of the two handlers keeps it so).
HistoryExactlyOnce ==
  \A j \in JobIds :
    IF Finished(j)
    THEN \E i \in RowsOf(j) :
           /\ RowsOf(j) = {i}
           /\ history[i].status = jobs[j].status
           /\ history[i].client = jobs[j].client
    ELSE RowsOf(j) = {}

\* The counts of a history row explain its status: a finished package job
\* accounts for every package row it has and its status is the one derived from
\* the counts; a whole-system job and an abandoned one count no package result.
CountsExplainStatus ==
  \A i \in 1..Len(history) :
    LET row == history[i]
        job == jobs[row.job]
    IN
    /\ row.job \in JobIds
    /\ row.package_count = Cardinality(DOMAIN job.items)
    /\ IF row.status = "abandoned" \/ job.action = "UPDATE_SYSTEM"
       THEN row.successful_count = 0 /\ row.failed_count = 0
       ELSE /\ row.successful_count + row.failed_count = row.package_count
            /\ row.status = "success" <=> row.failed_count = 0
            /\ row.status = "failed"  <=> row.successful_count = 0

\* A job nobody has claimed still has every package row pending: a checkpoint or
\* a result that arrives for it changes nothing.  A claim therefore always hands
\* out a job of which nothing has been done.
PendingUntouched ==
  \A j \in JobIds : jobs[j].status = "pending" =>
    \A p \in DOMAIN jobs[j].items : jobs[j].items[p] = "pending"

\* A job ended by a result has no undecided package, even when a checkpoint that
\* was checked before the result is written after it.
ResultDecidesEveryItem ==
  \A j \in JobIds : jobs[j].status \in ResultStatuses =>
    \A p \in DOMAIN jobs[j].items : jobs[j].items[p] # "pending"

\* A whole-system job has no package rows and every other job has some, which is
\* what tells update_job_result apart an empty result from an incomplete one.
OnlySystemJobsAreEmpty ==
  \A j \in JobIds : jobs[j].action = "UPDATE_SYSTEM" <=> DOMAIN jobs[j].items = {}

\* What the rows of a job say at every stage of its life: nothing before its
\* claim, everything after its result, and nothing at all in a system job.
RowsFollowStatus ==
  PendingUntouched /\ ResultDecidesEveryItem /\ OnlySystemJobsAreEmpty

\* A job that exists changes only at the request of the client it belongs to,
\* and its owner, its action and the packages it names never change.
OnlyOwnerTouchesJob ==
  [][\A j \in JobIds : jobs'[j] # jobs[j] =>
       /\ \E t \in Threads : /\ request[t] \in ClientRequests \ ReportRequests
                             /\ request[t].job = j
                             /\ request[t].client = jobs[j].client
                             /\ pc'[t] = "idle"
       /\ jobs'[j].client = jobs[j].client
       /\ jobs'[j].action = jobs[j].action
       /\ DOMAIN jobs'[j].items = DOMAIN jobs[j].items]_vars

Phase == [j \in 1..MaxJobs |-> IF j \in JobIds THEN jobs[j].status ELSE "absent"]
Log == [i \in 1..Len(history) |->
         [job |-> history[i].job, outcome |-> history[i].status]]

\* The store implements the abstract lifecycle: the phases are the status
\* column, the log is the history table.
Lifecycle == INSTANCE JobLifecycle WITH
  Jobs <- 1..MaxJobs, Outcomes <- FinishedStatuses, phase <- Phase, log <- Log

ImplementsLifecycle == Lifecycle!Spec

=============================================================================
