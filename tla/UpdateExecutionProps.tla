------------------------ MODULE UpdateExecutionProps ------------------------
(***************************************************************************)
(* What is claimed of the execution of update jobs by agent and watcher.   *)
(***************************************************************************)
EXTENDS UpdateExecution, UpdateJobsProps

\* What the server records of a package did happen on the machine: the status of
\* a package row is an outcome the package manager produced for that job, however
\* checkpoints and results of two programs and of abandoned requests interleave.
RecordsAreTrue ==
  \A j \in JobIds : \A p \in DOMAIN jobs[j].items :
    jobs[j].items[p] # "pending" => jobs[j].items[p] \in ran[j][p]

\* A job reported successful has had every package operation succeed.
SuccessIsComplete ==
  \A j \in JobIds :
    jobs[j].status = "success" => \A p \in DOMAIN jobs[j].items : "success" \in ran[j][p]

Starts(e) == proc[e].at # "package" /\ proc'[e].at = "package"

\* administration guide, 50: a package operation already recorded as successful
\* is not executed again.
NoRepeatOfRecordedSuccess ==
  [][\A e \in Executors :
       Starts(e) /\ ~IsSystemJob(e) =>
         jobs[proc[e].job].items[Current(e)] # "success"]_execVars

\* README: the watcher sees to it that a job expected to execute does not remain
\* unprocessed.  A claimed job ends.
ClaimedJobsEnd ==
  \A j \in 1..MaxJobs :
    (j \in JobIds /\ jobs[j].status = "running")
      ~> (j \in JobIds /\ jobs[j].status \in FinishedStatuses)

\* A created job is executed and ends.
CreatedJobsEnd ==
  \A j \in 1..MaxJobs :
    (j \in JobIds) ~> (j \in JobIds /\ jobs[j].status \in FinishedStatuses)

=============================================================================
