------------------------- MODULE MCExecutionEnds -------------------------
(***************************************************************************)
(* Two scenarios of the execution of jobs in one run:                      *)
(*   together   agent and watcher, with one fault                          *)
(*   alone      the watcher of a machine whose agent is stopped, package   *)
(*              jobs, up to two crashes of the watcher or of a server      *)
(*              worker                                                     *)
(***************************************************************************)
EXTENDS UpdateExecutionProps

VARIABLE scenario    \* it never changes

EndsInit == ExecInit /\ scenario \in {"together", "alone"}

\* Only the watcher runs, and it waits for every answer.
Alone ==
  /\ \A e \in Executors : RoleOf(e) = "agent" => proc'[e] = Off
  /\ \A t \in Threads :
       request'[t].kind \in {"claim", "checkpoint", "result"} =>
         \E e \in Executors : proc'[e].thread = t

EndsNext ==
  /\ ExecNext
  /\ IF scenario = "alone" THEN Alone ELSE faults' <= 1
  /\ UNCHANGED scenario

EndsSpec == EndsInit /\ [][EndsNext]_<<execVars, scenario>> /\ Fairness

\* A watcher that works alone resumes where it stopped: whatever crashes, a
\* package operation recorded as successful is not started again (administration
\* guide, 50).  NoRepeatOfRecordedSuccess says it of every machine.
AloneRepeatsNothing ==
  [][scenario = "alone" =>
       \A e \in Executors :
         Starts(e) /\ ~IsSystemJob(e) =>
           jobs[proc[e].job].items[Current(e)] # "success"]_execVars

=============================================================================
