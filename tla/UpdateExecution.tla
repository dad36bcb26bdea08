--------------------------- MODULE UpdateExecution ---------------------------
(***************************************************************************)
(* The two programs on a client machine that execute its update jobs       *)
(* against the server's store:                                             *)
(*                                                                         *)
(*   agent     agent/agent.py, main(), every 15 minutes                    *)
(*   watcher   agent/watcher.py, main(), every 30 seconds                  *)
(*                                                                         *)
(* They are separate oneshot services: nothing keeps them from running at  *)
(* the same time.  Both call execute_job(); the watcher also calls it on a *)
(* job it finds "running", without a claim, to resume it.                  *)
(*                                                                         *)
(* A request is handed to a server thread of UpdateJobs and answered by    *)
(* the step that ends it.  A program that dies, or gives up after the HTTP *)
(* timeout, while it waits leaves its request with the server.             *)
(***************************************************************************)
EXTENDS UpdateJobs

CONSTANTS
  Roles,        \* the programs installed: agent, watcher
  NoThread,
  Faults,       \* the kinds of fault that happen
  MaxFaults     \* BOUND on the faults of one behaviour

ASSUME RolesAssumption == Roles \subseteq {"agent", "watcher"}
ASSUME FaultsAssumption == Faults \subseteq {"crash", "lost answer", "worker", "disable"}
ASSUME NoThreadAssumption == NoThread \notin Threads
\* update_job_packages is read ORDER BY id; packages are named by that order.
ASSUME PackageOrderAssumption == Packages \subseteq Nat

VARIABLES
  proc,         \* the local state of every program
  ran,          \* what the package manager did: outcomes by job and package
  faults        \* how many faults have happened

programVars == <<proc, ran, faults>>
execVars == <<vars, programVars>>

Executors == Clients \X Roles
ClientOf(e) == e[1]
RoleOf(e) == e[2]

Off == [at |-> "off", job |-> 0, known |-> <<>>, results |-> <<>>,
        thread |-> NoThread]

\* Reports are left to UpdateJobs: here each machine has reported once.
ExecInit ==
  /\ Init
  /\ available = [c \in Clients |-> Packages]
  /\ proc = [e \in Executors |-> Off]
  /\ ran = [j \in 1..MaxJobs |-> [p \in Packages |-> {}]]
  /\ faults = 0

-----------------------------------------------------------------------------
(* Local steps of a program *)

Waiting(e) == proc[e].thread # NoThread
At(e, phase) == proc[e].at = phase /\ ~Waiting(e)
Becomes(e, state) == proc' = [proc EXCEPT ![e] = state]
Goto(e, phase) == Becomes(e, [proc[e] EXCEPT !.at = phase])

JobsIn(c, status) == {j \in JobIds : jobs[j].client = c /\ jobs[j].status = status}
Lowest(S) == CHOOSE x \in S : \A y \in S : x <= y

\* The systemd timer fires.  The watcher looks for a running job first.
Wake(e) ==
  /\ At(e, "off")
  /\ enabled[ClientOf(e)]
  /\ Goto(e, IF RoleOf(e) = "watcher" THEN "find running" ELSE "find pending")
  /\ UNCHANGED <<vars, ran, faults>>

\* MUTANT: a running job is left to whoever claimed it.
FindRunningNever(e) ==
  /\ At(e, "find running")
  /\ enabled[ClientOf(e)]
  /\ Goto(e, "find pending")
  /\ UNCHANGED <<vars, ran, faults>>

\* get_running_update_job, its first SELECT.
FindRunning(e) ==
  LET running == JobsIn(ClientOf(e), "running") IN
  /\ At(e, "find running")
  /\ enabled[ClientOf(e)]
  /\ Becomes(e, IF running = {}
                THEN [proc[e] EXCEPT !.at = "find pending"]
                ELSE [proc[e] EXCEPT !.at = "read packages", !.job = Lowest(running)])
  /\ UNCHANGED <<vars, ran, faults>>

\* MUTANT: the recorded status of the packages is not handed out.
ReadPackagesAfresh(e) ==
  /\ At(e, "read packages")
  /\ Becomes(e, [proc[e] EXCEPT !.at = "execute",
                    !.known = [p \in DOMAIN jobs[proc[e].job].items |-> "pending"]])
  /\ UNCHANGED <<vars, ran, faults>>

\* Its second SELECT; the watcher resumes the job without a claim.
ReadPackages(e) ==
  /\ At(e, "read packages")
  /\ Becomes(e, [proc[e] EXCEPT !.at = "execute", !.known = jobs[proc[e].job].items])
  /\ UNCHANGED <<vars, ran, faults>>

\* get_pending_update_job, then the idle check: an idle machine goes on.
FindPending(e) ==
  LET pending == JobsIn(ClientOf(e), "pending") IN
  /\ At(e, "find pending")
  /\ enabled[ClientOf(e)]
  /\ \/ pending # {} /\ Becomes(e, [proc[e] EXCEPT !.at = "claim", !.job = Lowest(pending)])
     \/ Becomes(e, Off)
  /\ UNCHANGED <<vars, ran, faults>>

\* Both lookups are refused to a client disabled meanwhile.
LookupRefused(e) ==
  /\ At(e, "find running") \/ At(e, "find pending")
  /\ ~enabled[ClientOf(e)]
  /\ Becomes(e, Off)
  /\ UNCHANGED <<vars, ran, faults>>

Todo(e) == DOMAIN proc[e].known \ DOMAIN proc[e].results
Current(e) == Lowest(Todo(e))

Record(e, p, outcome) ==
  [q \in DOMAIN proc[e].results \cup {p} |->
     IF q = p THEN outcome ELSE proc[e].results[q]]

IsSystemJob(e) == jobs[proc[e].job].action = "UPDATE_SYSTEM"

\* MUTANT: every package of a resumed job counts as done.
SkipPackageAlways(e) ==
  /\ At(e, "execute")
  /\ ~IsSystemJob(e)
  /\ Todo(e) # {}
  /\ Becomes(e, [proc[e] EXCEPT !.results = Record(e, Current(e), "success")])
  /\ UNCHANGED <<vars, ran, faults>>

\* The next package was already recorded as successful when the job was read.
SkipPackage(e) ==
  /\ At(e, "execute")
  /\ ~IsSystemJob(e)
  /\ Todo(e) # {}
  /\ proc[e].known[Current(e)] = "success"
  /\ Becomes(e, [proc[e] EXCEPT !.results = Record(e, Current(e), "success")])
  /\ UNCHANGED <<vars, ran, faults>>

\* The package manager is started on the next package, or on the system.
StartPackage(e) ==
  /\ At(e, "execute")
  /\ IF IsSystemJob(e) THEN TRUE
     ELSE Todo(e) # {} /\ proc[e].known[Current(e)] # "success"
  /\ Goto(e, "package")
  /\ UNCHANGED <<vars, ran, faults>>

\* run_package_update, run_package_install, run_package_remove return.
PackageEnds(e, outcome) ==
  /\ At(e, "package")
  /\ ~IsSystemJob(e)
  /\ ran' = [ran EXCEPT ![proc[e].job][Current(e)] = @ \cup {outcome}]
  /\ Becomes(e, [proc[e] EXCEPT !.at = "checkpoint",
                                !.results = Record(e, Current(e), outcome)])
  /\ UNCHANGED <<vars, faults>>

\* run_system_update returns one result that names no package.
SystemEnds(e, outcome) ==
  /\ At(e, "package")
  /\ IsSystemJob(e)
  /\ Becomes(e, [proc[e] EXCEPT !.at = "report",
                                !.results = Record(e, NoPackage, outcome)])
  /\ UNCHANGED <<vars, ran, faults>>

AllPackagesDone(e) ==
  /\ At(e, "execute")
  /\ ~IsSystemJob(e)
  /\ Todo(e) = {}
  /\ Goto(e, "report")
  /\ UNCHANGED <<vars, ran, faults>>

-----------------------------------------------------------------------------
(* Requests of a program *)

\* The package of the last result: they are produced in ascending order.
LastPackage(e) ==
  CHOOSE p \in DOMAIN proc[e].results : \A q \in DOMAIN proc[e].results : q <= p

RequestOf(e) ==
  CASE proc[e].at = "claim" ->
         [kind |-> "claim", client |-> ClientOf(e), job |-> proc[e].job]
    [] proc[e].at = "checkpoint" ->
         [kind |-> "checkpoint", client |-> ClientOf(e), job |-> proc[e].job,
          package |-> LastPackage(e), status |-> proc[e].results[LastPackage(e)]]
    [] proc[e].at = "report" ->
         [kind |-> "result", client |-> ClientOf(e), job |-> proc[e].job,
          status |-> DerivedStatus(proc[e].results), results |-> proc[e].results]

Sending(e) == At(e, "claim") \/ At(e, "checkpoint") \/ At(e, "report")

Send(e, t) ==
  /\ Sending(e)
  /\ Arrive(t, RequestOf(e))
  /\ Becomes(e, [proc[e] EXCEPT !.thread = t])
  /\ UNCHANGED <<ran, faults>>

\* A 401 or a 400 before any SELECT: urlopen raises and the program ends.
TurnedAway(e) ==
  /\ Sending(e)
  /\ ~(Authenticated(RequestOf(e)) /\ WellFormed(RequestOf(e)))
  /\ Becomes(e, Off)
  /\ UNCHANGED <<vars, ran, faults>>

Program(e) ==
  \/ Wake(e) \/ FindRunning(e) \/ ReadPackages(e) \/ FindPending(e)
  \/ LookupRefused(e)
  \/ SkipPackage(e) \/ StartPackage(e)
  \/ \E outcome \in ItemResults : PackageEnds(e, outcome) \/ SystemEnds(e, outcome)
  \/ AllPackagesDone(e)
  \/ \E t \in Threads : Send(e, t)
  \/ TurnedAway(e)

-----------------------------------------------------------------------------
(* The server's steps, and what they answer *)

\* Once thread t has answered, the program that waited for it continues in next.
Answered(t, next) ==
  proc' = [e \in Executors |-> IF proc[e].thread = t THEN next[e] ELSE proc[e]]

ThreadWorks(t) ==
  /\ CreateCheck(t) \/ CreateWrite(t) \/ CheckpointCheck(t) \/ ResultCheck(t)
  /\ UNCHANGED proc

\* Any refusal ends the program: urlopen raises, or the claim was lost.
ThreadRefuses(t) ==
  /\ Refuse(t) \/ Conflict(t)
  /\ Answered(t, [e \in Executors |-> Off])

\* claim_update_job returns the package rows, which are still all pending.
ThreadGrants(t) ==
  /\ Claim(t)
  /\ Answered(t, [e \in Executors |->
       [proc[e] EXCEPT !.at = "execute", !.thread = NoThread,
                       !.known = [p \in DOMAIN jobs[proc[e].job].items |-> "pending"]]])

ThreadRecords(t) ==
  /\ CheckpointWrite(t)
  /\ Answered(t, [e \in Executors |->
       [proc[e] EXCEPT !.at = "execute", !.thread = NoThread]])

ThreadFinishes(t) ==
  /\ ResultWrite(t)
  /\ Answered(t, [e \in Executors |-> Off])

Server(t) ==
  /\ \/ ThreadWorks(t) \/ ThreadRefuses(t) \/ ThreadGrants(t)
     \/ ThreadRecords(t) \/ ThreadFinishes(t)
  /\ UNCHANGED <<ran, faults>>

\* A logged-in operator posts a job.  No more than MaxJobs are ever asked for.
Operator(t) ==
  /\ Len(jobs) + Cardinality({u \in Threads : request[u].kind = "create"}) < MaxJobs
  /\ \E r \in CreateRequests : Arrive(t, r)
  /\ UNCHANGED programVars

-----------------------------------------------------------------------------
(* Faults *)

Fault(kind) ==
  /\ kind \in Faults
  /\ faults < MaxFaults
  /\ faults' = faults + 1
  /\ UNCHANGED ran

\* The program is killed, or the machine reboots, between two requests.
Crash(e) ==
  /\ Fault("crash")
  /\ proc[e].at # "off" /\ ~Waiting(e)
  /\ Becomes(e, Off)
  /\ UNCHANGED vars

\* The program stops waiting for an answer; the server still has its request.
LoseAnswer(e) ==
  /\ Fault("lost answer")
  /\ Waiting(e)
  /\ Becomes(e, Off)
  /\ UNCHANGED vars

\* A server worker dies with its request.
WorkerDies(t) ==
  /\ Fault("worker")
  /\ Die(t)
  /\ Answered(t, [e \in Executors |-> Off])

OperatorDisables(c) ==
  /\ Fault("disable")
  /\ enabled[c]
  /\ DisableClient(c)
  /\ UNCHANGED proc

SomeFault ==
  \/ \E e \in Executors : Crash(e) \/ LoseAnswer(e)
  \/ \E t \in Threads : WorkerDies(t)
  \/ \E c \in Clients : OperatorDisables(c)

-----------------------------------------------------------------------------
ExecNext ==
  \/ \E e \in Executors : Program(e)
  \/ \E t \in Threads : Server(t) \/ Operator(t)
  \/ SomeFault

ExecSpec == ExecInit /\ [][ExecNext]_execVars

\* The timers fire again and again, a started program and a started package
\* operation (which has a timeout) go on, a server thread finishes the request
\* it has, and a machine that keeps waiting for a job finds itself idle at last.
Fairness ==
  /\ \A e \in Executors : WF_execVars(Program(e))
  /\ \A e \in Executors : SF_execVars(FindPending(e) /\ proc'[e].at = "claim")
  /\ \A t \in Threads : WF_execVars(Server(t))

FairSpec == ExecSpec /\ Fairness

=============================================================================
