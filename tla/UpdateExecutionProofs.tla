----------------------- MODULE UpdateExecutionProofs -----------------------
(***************************************************************************)
(* Proofs about the execution of update jobs by agent and watcher, for     *)
(* every set of clients, packages and threads, any roles and any faults;   *)
(* and about a watcher that works alone, for any crashes of it.            *)
(***************************************************************************)
EXTENDS MCExecutionEnds, UpdateJobsProofs, WellFoundedInduction

-----------------------------------------------------------------------------
(* The inductive invariant *)

Phases == {"off", "find running", "find pending", "read packages", "claim",
           "execute", "package", "checkpoint", "report"}

Unstarted == {"off", "find running", "find pending"}

States == [at : Phases, job : 0..MaxJobs, known : PackageRows,
           results : ResultLists, thread : Threads \cup {NoThread}]

\* The local state s of a program claims nothing that did not happen: it works on
\* a job that exists, and every outcome it was told or has found is one of done,
\* the outcomes of the package manager.
StateSound(s, rows, done) ==
  /\ s \in States
  /\ s.at \in Unstarted => DOMAIN s.known = {} /\ DOMAIN s.results = {}
  /\ s.at \notin Unstarted => s.job \in 1..Len(rows)
  /\ s.at # "report" => NoPackage \notin DOMAIN s.results
  /\ s.at = "checkpoint" => DOMAIN s.results # {}
  /\ s.at = "package" /\ rows[s.job].action # "UPDATE_SYSTEM" =>
       DOMAIN s.known \ DOMAIN s.results # {}
  /\ \A p \in DOMAIN s.known : s.known[p] # "pending" => s.known[p] \in done[s.job][p]
  /\ \A p \in DOMAIN s.results \ {NoPackage} : s.results[p] \in done[s.job][p]

\* A request claims nothing that did not happen.
RequestSound(r, done) ==
  /\ r.kind = "checkpoint" => r.status \in done[r.job][r.package]
  /\ r.kind = "result" => \A p \in DOMAIN r.results : r.results[p] \in done[r.job][p]

\* What the thread a program waits for is doing.
Awaits(s, steps, asked) ==
  s.thread # NoThread =>
    /\ steps[s.thread] # "idle"
    /\ \/ s.at = "claim" /\ asked[s.thread].kind = "claim"
       \/ s.at = "checkpoint" /\ asked[s.thread].kind = "checkpoint"
       \/ s.at = "report" /\ asked[s.thread].kind = "result"

ProgramsSound ==
  /\ DOMAIN proc = Executors
  /\ \A e \in Executors : /\ StateSound(proc[e], jobs, ran)
                          /\ Awaits(proc[e], pc, request)

RequestsSound == \A t \in Threads : pc[t] # "idle" => RequestSound(request[t], ran)

RanTyped == ran \in [1..MaxJobs -> [Packages -> SUBSET ItemResults]]

ExecTyped == Typed /\ InBounds /\ RanTyped

ExecInv == ExecTyped /\ ProgramsSound /\ RequestsSound
             /\ RecordsAreTrue /\ SuccessIsComplete

-----------------------------------------------------------------------------
(* Records that exist do not shrink *)

Grows(done, more) == \A j \in 1..MaxJobs : \A p \in Packages : done[j][p] \subseteq more[j][p]

\* Jobs are kept, with the action they were created with.
Extends(rows, longer) ==
  /\ 1..Len(rows) \subseteq 1..Len(longer)
  /\ \A j \in 1..Len(rows) : longer[j].action = rows[j].action

LEMMA StateFields ==
  ASSUME NEW s \in States
  PROVE  /\ s.at \in Phases
         /\ s.known \in PackageRows /\ DOMAIN s.known \subseteq Packages
         /\ s.results \in ResultLists /\ DOMAIN s.results \ {NoPackage} \subseteq Packages
  BY DEF States, PackageRows, ResultLists

LEMMA ExistingJobs ==
  ASSUME Typed, InBounds
  PROVE  /\ Len(jobs) \in Nat
         /\ 1..Len(jobs) \subseteq 1..MaxJobs
<1>1. Len(jobs) \in Nat
  BY LenProperties DEF Typed, TypeOK
<1> QED
  BY <1>1, BoundsAssumption DEF InBounds

LEMMA StateKept ==
  ASSUME NEW s, NEW rows, NEW longer, NEW done, NEW more,
         1..Len(rows) \subseteq 1..MaxJobs,
         StateSound(s, rows, done), Extends(rows, longer), Grows(done, more)
  PROVE  StateSound(s, longer, more)
<1>1. s \in States
  BY DEF StateSound
<1>2. s.at \in Unstarted \/ s.job \in 1..Len(rows)
  BY DEF StateSound
<1>3. \A p \in DOMAIN s.known : s.known[p] # "pending" => s.known[p] \in more[s.job][p]
  BY <1>1, <1>2, StateFields DEF StateSound, Grows
<1>4. \A p \in DOMAIN s.results \ {NoPackage} : s.results[p] \in more[s.job][p]
  BY <1>1, <1>2, StateFields DEF StateSound, Grows
<1>5. s.at \notin Unstarted =>
        s.job \in 1..Len(longer) /\ longer[s.job].action = rows[s.job].action
  BY <1>2 DEF Extends
<1>6. s.at = "package" => s.at \notin Unstarted
  BY DEF Unstarted
<1> QED
  BY <1>3, <1>4, <1>5, <1>6 DEF StateSound

LEMMA RequestKept ==
  ASSUME NEW r \in Requests, WellFormed(r), NEW done, NEW more,
         RequestSound(r, done), Grows(done, more)
  PROVE  RequestSound(r, more)
<1>1. ASSUME r.kind = "checkpoint"
      PROVE  r.status \in more[r.job][r.package]
  <2>1. r \in CheckpointRequests
    BY <1>1, RequestFields
  <2> QED
    BY <1>1, <2>1 DEF CheckpointRequests, RequestSound, Grows
<1>2. ASSUME r.kind = "result", NEW p \in DOMAIN r.results
      PROVE  r.results[p] \in more[r.job][p]
  <2>1. r \in ResultRequests
    BY <1>2, RequestFields
  <2>2. p \in Packages /\ r.job \in 1..MaxJobs
    BY <1>2, <2>1 DEF ResultRequests, ResultLists, WellFormed
  <2> QED
    BY <1>2, <2>2 DEF RequestSound, Grows
<1> QED
  BY <1>1, <1>2 DEF RequestSound

LEMMA NothingGrows ==
  ASSUME NEW done
  PROVE  Grows(done, done)
  BY DEF Grows

\* No step of the store removes a job or changes its action.
LEMMA JobsExtend ==
  ASSUME Typed, [Next]_vars
  PROVE  Extends(jobs, jobs')
<1>1. CASE QuietStep
  BY <1>1, QuietKeepsTables DEF Extends
<1>2. ASSUME NEW t \in Threads, CreateWrite(t)
      PROVE  Extends(jobs, jobs')
  BY <1>2, CreateEffect DEF Extends, JobIds
<1>3. ASSUME NEW t \in Threads, Claim(t)
      PROVE  Extends(jobs, jobs')
  BY <1>3, ClaimEffect, ClaimFields DEF Extends, JobIds
<1>4. ASSUME NEW t \in Threads, CheckpointWrite(t)
      PROVE  Extends(jobs, jobs')
  BY <1>4, CheckpointEffect, CheckpointFields DEF Extends, JobIds
<1>5. ASSUME NEW t \in Threads, ResultWrite(t)
      PROVE  Extends(jobs, jobs')
  BY <1>5, ResultEffect, ResultFields DEF Extends, JobIds
<1>6. ASSUME NEW t \in Threads, AbandonWrite(t)
      PROVE  Extends(jobs, jobs')
  BY <1>6, AbandonEffect, AbandonFields DEF Extends, JobIds
<1> QED
  BY <1>1, <1>2, <1>3, <1>4, <1>5, <1>6, StepCases

-----------------------------------------------------------------------------
(* Least and greatest packages *)

LEMMA Least ==
  ASSUME NEW T \in SUBSET Nat, T # {}
  PROVE  \E x \in T : \A y \in T : x <= y
<1>1. \E x \in T : \A y \in T : ~(<<y, x>> \in OpToRel(<, Nat))
  <2>1. T \subseteq Nat
    OBVIOUS
  <2>. HIDE DEF OpToRel
  <2> QED
    BY <2>1, NatLessThanWellFounded, WFMin
<1>2. \A x \in T : \A y \in T : ~(<<y, x>> \in OpToRel(<, Nat)) => x <= y
  BY DEF OpToRel
<1> QED
  BY <1>1, <1>2

\* By infinite descent on the size of a set that has no greatest element.
LEMMA Greatest ==
  ASSUME NEW S \in SUBSET Nat, IsFiniteSet(S), S # {}
  PROVE  \E x \in S : \A y \in S : y <= x
<1> DEFINE Topless(X) == /\ X \in SUBSET Nat /\ IsFiniteSet(X) /\ X # {}
                         /\ \A x \in X : \E y \in X : x < y
           Sizes == {n \in Nat : \E X : Topless(X) /\ Cardinality(X) = n}
<1>1. ASSUME Topless(S)
      PROVE  FALSE
  <2>1. Cardinality(S) \in Sizes
    BY <1>1, FS_CardinalityType
  <2>2. PICK n \in Sizes : \A m \in Sizes : n <= m
    <3>1. Sizes \in SUBSET Nat /\ Sizes # {}
      BY <2>1
    <3> QED
      BY <3>1, Least
  <2>3. PICK X : Topless(X) /\ Cardinality(X) = n
    BY <2>2
  <2>4. PICK x \in X : TRUE
    BY <2>3
  <2>5. IsFiniteSet(X \ {x}) /\ Cardinality(X \ {x}) = n - 1 /\ n \in Nat
    BY <2>2, <2>3, <2>4, FS_RemoveElement
  <2>6. PICK y \in X : x < y
    BY <2>3, <2>4
  <2>7. ASSUME NEW z \in X \ {x}
        PROVE  \E w \in X \ {x} : z < w
    <3>1. PICK w \in X : z < w
      BY <2>3, <2>7
    <3>2. CASE w = x
      <4>1. z < y
        BY <2>3, <2>4, <2>6, <2>7, <3>1, <3>2
      <4>2. y # x
        BY <2>3, <2>4, <2>6
      <4> QED
        BY <2>6, <4>1, <4>2
    <3> QED
      BY <3>1, <3>2
  <2>8. X \ {x} # {}
    <3>1. y # x
      BY <2>3, <2>4, <2>6
    <3> QED
      BY <2>6, <3>1
  <2>9. Topless(X \ {x})
    BY <2>3, <2>5, <2>7, <2>8
  <2>10. n - 1 \in Sizes
    <3>1. n - 1 \in Nat
      BY <2>5, <2>9, FS_CardinalityType
    <3> QED
      BY <2>5, <2>9, <3>1
  <2> QED
    BY <2>2, <2>5, <2>10
<1>2. \A x \in S : ~(\E y \in S : x < y) => \A y \in S : y <= x
  OBVIOUS
<1> QED
  BY <1>1, <1>2

LEMMA LowestIsMember ==
  ASSUME NEW S \in SUBSET Nat, S # {}
  PROVE  Lowest(S) \in S
<1>1. \E x \in S : \A y \in S : x <= y
  BY Least
<1> QED
  BY <1>1 DEF Lowest

LEMMA LowestInRange ==
  ASSUME NEW n \in Nat, NEW m \in Nat, n <= m, NEW S \in SUBSET (1..n), S # {}
  PROVE  Lowest(S) \in 1..n /\ Lowest(S) \in 0..m
<1>1. S \in SUBSET Nat
  OBVIOUS
<1>2. Lowest(S) \in 1..n
  BY <1>1, LowestIsMember
<1> QED
  BY <1>2

\* The job a lookup finds exists.
LEMMA FoundJob ==
  ASSUME ExecInv, NEW c, NEW status, JobsIn(c, status) # {}
  PROVE  /\ Lowest(JobsIn(c, status)) \in 1..Len(jobs)
         /\ Lowest(JobsIn(c, status)) \in 0..MaxJobs
<1>1. Len(jobs) \in Nat /\ Len(jobs) <= MaxJobs /\ MaxJobs \in Nat
  BY ExistingJobs, BoundsAssumption DEF ExecInv, ExecTyped, InBounds
<1>2. JobsIn(c, status) \in SUBSET (1..Len(jobs))
  BY DEF JobsIn, JobIds
<1> QED
  BY <1>1, <1>2, LowestInRange

\* The package a program works on next is one it was told of.
LEMMA CurrentIsTodo ==
  ASSUME NEW e \in Executors, proc[e] \in States, Todo(e) # {}
  PROVE  Current(e) \in Todo(e) /\ Current(e) \in Packages
<1>1. Todo(e) \in SUBSET Packages
  BY StateFields DEF Todo
<1>2. Todo(e) \in SUBSET Nat
  BY <1>1, PackageOrderAssumption
<1>3. Current(e) \in Todo(e)
  BY <1>2, LowestIsMember DEF Current
<1> QED
  BY <1>1, <1>3

LEMMA LastIsRecorded ==
  ASSUME NEW e \in Executors, proc[e] \in States, DOMAIN proc[e].results # {},
         NoPackage \notin DOMAIN proc[e].results
  PROVE  LastPackage(e) \in DOMAIN proc[e].results /\ LastPackage(e) \in Packages
<1>1. DOMAIN proc[e].results \subseteq Packages
  BY StateFields
<1>2. IsFiniteSet(DOMAIN proc[e].results)
  BY <1>1, FS_Subset, PackagesAssumption
<1>3. \E x \in DOMAIN proc[e].results : \A y \in DOMAIN proc[e].results : y <= x
  BY <1>1, <1>2, Greatest, PackageOrderAssumption
<1>4. LastPackage(e) \in DOMAIN proc[e].results
  BY <1>3 DEF LastPackage
<1> QED
  BY <1>1, <1>4

-----------------------------------------------------------------------------
(* What the programs send *)

LEMMA SentRequest ==
  ASSUME ExecInv, NEW e \in Executors, Sending(e)
  PROVE  /\ RequestOf(e) \in Requests
         /\ WellFormed(RequestOf(e)) => RequestSound(RequestOf(e), ran)
         /\ proc[e].at = "claim" => RequestOf(e).kind = "claim"
         /\ proc[e].at = "checkpoint" => RequestOf(e).kind = "checkpoint"
         /\ proc[e].at = "report" => RequestOf(e).kind = "result"
<1> DEFINE s == proc[e]
<1>1. StateSound(s, jobs, ran) /\ s \in States
  BY DEF ExecInv, ProgramsSound, StateSound
<1>2. s.at \in {"claim", "checkpoint", "report"}
  BY DEF Sending, At
<1>3. s.job \in 1..MaxJobs
  BY <1>1, <1>2, ExistingJobs DEF StateSound, Unstarted, ExecInv, ExecTyped
<1>4. ClientOf(e) \in Clients
  BY DEF Executors, ClientOf
<1>5. ASSUME s.at = "claim"
      PROVE  RequestOf(e) = [kind |-> "claim", client |-> ClientOf(e), job |-> s.job]
  BY <1>5 DEF RequestOf
<1>6. ASSUME s.at = "checkpoint"
      PROVE  RequestOf(e) = [kind |-> "checkpoint", client |-> ClientOf(e), job |-> s.job,
               package |-> LastPackage(e), status |-> s.results[LastPackage(e)]]
  BY <1>6 DEF RequestOf
<1>7. ASSUME s.at = "report"
      PROVE  RequestOf(e) = [kind |-> "result", client |-> ClientOf(e), job |-> s.job,
               status |-> DerivedStatus(s.results), results |-> s.results]
  BY <1>7 DEF RequestOf
<1>8. CASE s.at = "claim"
  BY <1>3, <1>4, <1>5, <1>8
  DEF RequestSound, Requests, ClientRequests, JobRequests
<1>9. CASE s.at = "checkpoint"
  <2>1. LastPackage(e) \in DOMAIN s.results /\ LastPackage(e) \in Packages
    BY <1>1, <1>9, LastIsRecorded DEF StateSound
  <2>2. s.results[LastPackage(e)] \in ItemResults
    BY <1>1, <2>1, StateFields DEF ResultLists
  <2>3. s.results[LastPackage(e)] \in ran[s.job][LastPackage(e)]
    BY <1>1, <2>1, NoPackageAssumption DEF StateSound
  <2> QED
    BY <1>3, <1>4, <1>6, <1>9, <2>1, <2>2, <2>3
    DEF RequestSound, Requests, ClientRequests, CheckpointRequests
<1>10. CASE s.at = "report"
  <2>1. s.results \in ResultLists /\ DerivedStatus(s.results) \in ResultStatuses
    BY <1>1, StateFields DEF DerivedStatus, ResultStatuses
  <2>2. RequestOf(e) \in ResultRequests
    BY <1>3, <1>4, <1>7, <1>10, <2>1 DEF ResultRequests
  <2>3. WellFormed(RequestOf(e)) => NoPackage \notin DOMAIN s.results
    BY <1>7, <1>10 DEF WellFormed
  <2>4. WellFormed(RequestOf(e)) => RequestSound(RequestOf(e), ran)
    BY <1>1, <1>7, <1>10, <2>3 DEF RequestSound, StateSound
  <2> QED
    BY <1>7, <1>10, <2>2, <2>4 DEF Requests, ClientRequests
<1> QED
  BY <1>2, <1>8, <1>9, <1>10

-----------------------------------------------------------------------------
(* The execution drives the store by its own steps *)

\* A step of a program that is not a request.
LocalStep(e) ==
  \/ Wake(e) \/ FindRunning(e) \/ ReadPackages(e) \/ FindPending(e) \/ LookupRefused(e)
  \/ SkipPackage(e) \/ StartPackage(e) \/ AllPackagesDone(e) \/ TurnedAway(e)
  \/ \E outcome \in ItemResults : PackageEnds(e, outcome) \/ SystemEnds(e, outcome)
  \/ Crash(e) \/ LoseAnswer(e)

\* A step after which no program waits for thread t any more.
Answer(t) ==
  \/ ThreadRefuses(t) \/ ThreadGrants(t) \/ ThreadRecords(t) \/ ThreadFinishes(t)
  \/ WorkerDies(t)

LEMMA ExecCases ==
  ASSUME [ExecNext]_execVars
  PROVE  \/ \E e \in Executors : LocalStep(e) \/ \E t \in Threads : Send(e, t)
         \/ \E t \in Threads : (Answer(t) \/ ThreadWorks(t)) /\ UNCHANGED ran
         \/ \E t \in Threads : Operator(t)
         \/ \E c \in Clients : OperatorDisables(c)
         \/ UNCHANGED execVars
  BY DEF ExecNext, Program, Server, SomeFault, WorkerDies, Fault, LocalStep, Answer

LEMMA LocalKeepsStore ==
  ASSUME NEW e \in Executors, LocalStep(e)
  PROVE  UNCHANGED vars
  BY DEF LocalStep, Wake, FindRunning, ReadPackages, FindPending, LookupRefused, SkipPackage,
         StartPackage, AllPackagesDone, TurnedAway, PackageEnds, SystemEnds, Crash, LoseAnswer

LEMMA AnswerIsServed ==
  ASSUME NEW t \in Threads, Answer(t)
  PROVE  (Serve(t) \/ Die(t)) /\ Done(t)
<1>1. Answer(t) => Serve(t) \/ Die(t)
  BY DEF Answer, ThreadRefuses, ThreadGrants, ThreadRecords, ThreadFinishes, WorkerDies, Serve
<1>2. Answer(t) => Done(t)
  BY DEF Answer, ThreadRefuses, ThreadGrants, ThreadRecords, ThreadFinishes, WorkerDies,
         Refuse, Conflict, Claim, CheckpointWrite, ResultWrite, Die
<1> QED
  BY <1>1, <1>2

LEMMA StoreStep ==
  ASSUME ExecInv, [ExecNext]_execVars
  PROVE  [Next]_vars
<1>1. ASSUME NEW e \in Executors, LocalStep(e)
      PROVE  [Next]_vars
  BY <1>1, LocalKeepsStore
<1>2. ASSUME NEW e \in Executors, NEW t \in Threads, Send(e, t)
      PROVE  [Next]_vars
  BY <1>2, SentRequest DEF Send, Next
<1>3. ASSUME NEW t \in Threads, Answer(t)
      PROVE  [Next]_vars
  BY <1>3, AnswerIsServed DEF Next
<1>4. ASSUME NEW t \in Threads, ThreadWorks(t)
      PROVE  [Next]_vars
  BY <1>4 DEF ThreadWorks, Next, Serve
<1>5. ASSUME NEW t \in Threads, Operator(t)
      PROVE  [Next]_vars
  BY <1>5 DEF Operator, Requests, Next
<1>6. ASSUME NEW c \in Clients, OperatorDisables(c)
      PROVE  [Next]_vars
  BY <1>6 DEF OperatorDisables, Next
<1>7. CASE UNCHANGED execVars
  BY <1>7 DEF execVars
<1> QED
  BY <1>1, <1>2, <1>3, <1>4, <1>5, <1>6, <1>7, ExecCases

-----------------------------------------------------------------------------
(* What was done stays done *)

LEMMA EndedPackage ==
  ASSUME ExecInv, NEW e \in Executors, proc[e].at = "package", ~IsSystemJob(e)
  PROVE  /\ proc[e].job \in 1..MaxJobs
         /\ Current(e) \in Todo(e)
         /\ Current(e) \in Packages
<1>1. StateSound(proc[e], jobs, ran) /\ proc[e] \in States
  BY DEF ExecInv, ProgramsSound, StateSound
<1>2. proc[e].job \in 1..MaxJobs
  BY <1>1, ExistingJobs DEF StateSound, Unstarted, ExecInv, ExecTyped
<1>3. Todo(e) # {}
  BY <1>1 DEF StateSound, IsSystemJob, Todo
<1> QED
  BY <1>1, <1>2, <1>3, CurrentIsTodo

LEMMA PackageEndsRan ==
  ASSUME ExecInv, NEW e \in Executors, NEW outcome \in ItemResults, PackageEnds(e, outcome)
  PROVE  /\ RanTyped' /\ Grows(ran, ran')
         /\ outcome \in ran'[proc[e].job][Current(e)]
<1> DEFINE j == proc[e].job
           p == Current(e)
<1>1. j \in 1..MaxJobs /\ p \in Packages
  BY EndedPackage DEF PackageEnds, At
<1>2. ran \in [1..MaxJobs -> [Packages -> SUBSET ItemResults]]
  BY DEF ExecInv, ExecTyped, RanTyped
<1>3. ran' = [ran EXCEPT ![j][p] = ran[j][p] \cup {outcome}]
  BY DEF PackageEnds
<1> HIDE DEF j, p
<1>4. ran' \in [1..MaxJobs -> [Packages -> SUBSET ItemResults]]
  BY <1>1, <1>2, <1>3
<1>5. \A i \in 1..MaxJobs : \A q \in Packages :
        ran'[i][q] = IF i = j /\ q = p THEN ran[j][p] \cup {outcome} ELSE ran[i][q]
  BY <1>1, <1>2, <1>3
<1>6. Grows(ran, ran') /\ outcome \in ran'[j][p]
  BY <1>1, <1>5 DEF Grows
<1> QED
  BY <1>4, <1>6 DEF RanTyped, j, p

LEMMA RanStep ==
  ASSUME ExecInv, [ExecNext]_execVars
  PROVE  RanTyped' /\ Grows(ran, ran')
<1>1. ASSUME UNCHANGED ran
      PROVE  RanTyped' /\ Grows(ran, ran')
  BY <1>1, NothingGrows DEF ExecInv, ExecTyped, RanTyped
<1>2. ASSUME NEW e \in Executors, LocalStep(e)
      PROVE  RanTyped' /\ Grows(ran, ran')
  <2>1. CASE \E outcome \in ItemResults : PackageEnds(e, outcome)
    BY <2>1, PackageEndsRan
  <2>2. CASE UNCHANGED ran
    BY <1>1, <2>2
  <2> QED
    BY <1>2, <2>1, <2>2
    DEF LocalStep, Wake, FindRunning, ReadPackages, FindPending, LookupRefused, SkipPackage,
        StartPackage, AllPackagesDone, TurnedAway, SystemEnds, Crash, LoseAnswer, Fault
<1> QED
  BY <1>1, <1>2, ExecCases DEF Send, Operator, programVars, OperatorDisables, Fault, execVars

-----------------------------------------------------------------------------
(* Requests stay sound *)

\* No thread but the one that arrives takes up a request.
LEMMA RequestsKept ==
  ASSUME ExecInv, Grows(ran, ran'), NEW S \in SUBSET Threads,
         \A u \in S : RequestSound(request'[u], ran'),
         \A u \in Threads \ S :
           pc'[u] # "idle" => pc[u] # "idle" /\ request'[u] = request[u]
  PROVE  RequestsSound'
<1> SUFFICES ASSUME NEW u \in Threads, pc'[u] # "idle"
             PROVE  RequestSound(request'[u], ran')
  BY DEF RequestsSound
<1>1. CASE u \in S
  BY <1>1
<1>2. CASE u \notin S
  <2>1. pc[u] # "idle" /\ request'[u] = request[u]
    BY <1>2
  <2>2. request[u] \in Requests /\ WellFormed(request[u]) /\ RequestSound(request[u], ran)
    BY <2>1, Serving DEF ExecInv, ExecTyped, Typed, RequestsSound
  <2> QED
    BY <2>1, <2>2, RequestKept
<1> QED
  BY <1>1, <1>2

\* What a step that ends a request leaves to the other threads.
LEMMA DoneThreads ==
  ASSUME ExecInv, NEW t \in Threads, Done(t), NEW u \in Threads
  PROVE  IF u = t THEN pc'[u] = "idle"
                  ELSE pc'[u] = pc[u] /\ request'[u] = request[u]
  BY DEF Done, ExecInv, ExecTyped, Typed, TypeOK

LEMMA WorkingThreads ==
  ASSUME ExecInv, NEW t \in Threads, ThreadWorks(t), NEW u \in Threads
  PROVE  \/ request[u].kind = "create"
         \/ /\ (pc'[u] = "idle") <=> (pc[u] = "idle")
            /\ request'[u] = request[u]
<1>1. CASE CreateWrite(t)
  <2>1. u # t => pc'[u] = pc[u] /\ request'[u] = request[u]
    BY <1>1, DoneThreads DEF CreateWrite
  <2> QED
    BY <1>1, <2>1 DEF CreateWrite, AtStep
<1>2. CASE CreateCheck(t) \/ CheckpointCheck(t) \/ ResultCheck(t)
  BY <1>2 DEF CreateCheck, CheckpointCheck, ResultCheck, AtStep, Checked,
              ExecInv, ExecTyped, Typed, TypeOK
<1> QED
  BY <1>1, <1>2 DEF ThreadWorks

LEMMA RequestsNext ==
  ASSUME ExecInv, [ExecNext]_execVars
  PROVE  RequestsSound'
<1>1. Grows(ran, ran')
  BY RanStep
<1>2. ASSUME \A u \in Threads :
               pc'[u] # "idle" => pc[u] # "idle" /\ request'[u] = request[u]
      PROVE  RequestsSound'
  <2>1. {} \in SUBSET Threads
    OBVIOUS
  <2> QED
    BY <1>1, <1>2, <2>1, RequestsKept
<1>3. ASSUME NEW t \in Threads, NEW r, Arrive(t, r), RequestSound(r, ran')
      PROVE  RequestsSound'
  <2>1. \A u \in Threads \ {t} : pc'[u] = pc[u] /\ request'[u] = request[u]
    BY <1>3 DEF Arrive, ExecInv, ExecTyped, Typed, TypeOK
  <2>2. request'[t] = r
    BY <1>3 DEF Arrive, ExecInv, ExecTyped, Typed, TypeOK
  <2>3. \A u \in Threads \ {t} :
          pc'[u] # "idle" => pc[u] # "idle" /\ request'[u] = request[u]
    <3> SUFFICES ASSUME NEW u \in Threads \ {t}, pc'[u] # "idle"
                 PROVE  pc[u] # "idle" /\ request'[u] = request[u]
      OBVIOUS
    <3> QED
      BY <2>1
  <2>4. \A u \in {t} : RequestSound(request'[u], ran')
    BY <1>3, <2>2
  <2>5. {t} \in SUBSET Threads
    OBVIOUS
  <2> QED
    BY <1>1, <2>3, <2>4, <2>5, RequestsKept
<1>4. ASSUME NEW e \in Executors, LocalStep(e)
      PROVE  RequestsSound'
  BY <1>2, <1>4, LocalKeepsStore DEF vars, ExecInv, ExecTyped, Typed, TypeOK
<1>5. ASSUME NEW e \in Executors, NEW t \in Threads, Send(e, t)
      PROVE  RequestsSound'
  BY <1>3, <1>5, SentRequest DEF Send, Arrive
<1>6. ASSUME NEW t \in Threads, Answer(t)
      PROVE  RequestsSound'
  <2>1. \A u \in Threads : pc'[u] # "idle" => pc[u] # "idle" /\ request'[u] = request[u]
    BY <1>6, AnswerIsServed, DoneThreads
  <2> QED
    BY <1>2, <2>1
<1>7. ASSUME NEW t \in Threads, ThreadWorks(t)
      PROVE  RequestsSound'
  <2>1. CASE CreateWrite(t)
    <3>1. \A u \in Threads : pc'[u] # "idle" => pc[u] # "idle" /\ request'[u] = request[u]
      BY <2>1, DoneThreads DEF CreateWrite
    <3> QED
      BY <1>2, <3>1
  <2>2. CASE CreateCheck(t) \/ CheckpointCheck(t) \/ ResultCheck(t)
    <3>1. \A u \in Threads : pc'[u] # "idle" => pc[u] # "idle" /\ request'[u] = request[u]
      BY <2>2 DEF CreateCheck, CheckpointCheck, ResultCheck, AtStep, Checked,
                  ExecInv, ExecTyped, Typed, TypeOK
    <3> QED
      BY <1>2, <3>1
  <2> QED
    BY <1>7, <2>1, <2>2 DEF ThreadWorks
<1>8. ASSUME NEW t \in Threads, Operator(t)
      PROVE  RequestsSound'
  <2>1. PICK r \in CreateRequests : Arrive(t, r)
    BY <1>8 DEF Operator
  <2>2. RequestSound(r, ran')
    BY DEF CreateRequests, RequestSound
  <2> QED
    BY <1>3, <2>1, <2>2
<1>9. ASSUME NEW c \in Clients, OperatorDisables(c)
      PROVE  RequestsSound'
  BY <1>2, <1>9 DEF OperatorDisables, DisableClient
<1>10. CASE UNCHANGED execVars
  BY <1>2, <1>10 DEF execVars, vars
<1> QED
  BY <1>4, <1>5, <1>6, <1>7, <1>8, <1>9, <1>10, ExecCases

-----------------------------------------------------------------------------
(* What the server records *)

\* The packages of a job are packages.
LEMMA ItemPackages ==
  ASSUME ExecInv, NEW j \in JobIds
  PROVE  j \in 1..MaxJobs /\ DOMAIN jobs[j].items \subseteq Packages
<1>1. jobs[j] \in JobRows
  BY JobRow DEF ExecInv, ExecTyped, Typed
<1>2. j \in 1..MaxJobs
  BY ExistingJobs DEF ExecInv, ExecTyped, JobIds
<1> QED
  BY <1>1, <1>2 DEF JobRows, PackageRows

LEMMA RecordsNext ==
  ASSUME ExecInv, [Next]_vars, Grows(ran, ran')
  PROVE  RecordsAreTrue'
<1> SUFFICES ASSUME NEW j \in JobIds', NEW p \in DOMAIN jobs'[j].items,
                    jobs'[j].items[p] # "pending"
             PROVE  jobs'[j].items[p] \in ran'[j][p]
  BY DEF RecordsAreTrue
<1>1. ASSUME j \in JobIds, p \in DOMAIN jobs[j].items, jobs'[j].items[p] = jobs[j].items[p]
      PROVE  jobs'[j].items[p] \in ran'[j][p]
  <2>1. jobs[j].items[p] \in ran[j][p]
    BY <1>1 DEF ExecInv, RecordsAreTrue
  <2>2. j \in 1..MaxJobs /\ p \in Packages
    BY <1>1, ItemPackages
  <2> QED
    BY <1>1, <2>1, <2>2 DEF Grows
<1>2. Typed
  BY DEF ExecInv, ExecTyped
<1>3. CASE QuietStep
  BY <1>1, <1>3, QuietKeepsTables DEF JobIds
<1>4. ASSUME NEW t \in Threads, CreateWrite(t)
      PROVE  jobs'[j].items[p] \in ran'[j][p]
  <2>1. j # Len(jobs) + 1
    BY <1>2, <1>4, CreateFields
  <2>2. JobIds' = JobIds \cup {Len(jobs) + 1} /\ \A i \in JobIds : jobs'[i] = jobs[i]
    BY <1>2, <1>4, CreateEffect
  <2>3. j \in JobIds /\ jobs'[j] = jobs[j]
    BY <2>1, <2>2
  <2> QED
    BY <1>1, <2>3
<1>5. ASSUME NEW t \in Threads, Claim(t)
      PROVE  jobs'[j].items[p] \in ran'[j][p]
  <2>1. j \in JobIds /\ jobs'[j].items = jobs[j].items
    BY <1>2, <1>5, ClaimEffect, ClaimFields
  <2> QED
    BY <1>1, <2>1
<1>6. ASSUME NEW t \in Threads, CheckpointWrite(t)
      PROVE  jobs'[j].items[p] \in ran'[j][p]
  <2>1. j \in JobIds
    BY <1>2, <1>6, CheckpointEffect
  <2>2. p \in DOMAIN jobs[j].items
    BY <1>2, <1>6, <2>1, CheckpointFields
  <2>3. CASE j = request[t].job /\ p = request[t].package
    <3>1. jobs'[j].items[p] = request[t].status
      BY <1>2, <1>6, <2>1, <2>2, <2>3, CheckpointFields
    <3>2. request[t].status \in ran[j][p]
      BY <1>6, <2>3 DEF ExecInv, RequestsSound, RequestSound, CheckpointWrite, AtStep
    <3>3. j \in 1..MaxJobs /\ p \in Packages
      BY <2>1, <2>2, ItemPackages
    <3> QED
      BY <3>1, <3>2, <3>3 DEF Grows
  <2>4. CASE ~(j = request[t].job /\ p = request[t].package)
    <3>1. jobs'[j].items[p] = jobs[j].items[p]
      BY <1>2, <1>6, <2>1, <2>2, <2>4, CheckpointFields
    <3> QED
      BY <1>1, <2>1, <2>2, <3>1
  <2> QED
    BY <2>3, <2>4
<1>7. ASSUME NEW t \in Threads, ResultWrite(t)
      PROVE  jobs'[j].items[p] \in ran'[j][p]
  <2>1. j \in JobIds
    BY <1>2, <1>7, ResultEffect
  <2>2. p \in DOMAIN jobs[j].items
    BY <1>2, <1>7, <2>1, ResultFields
  <2>3. CASE j = request[t].job
    <3>1. jobs'[j].items = request[t].results
      BY <1>2, <1>7, <2>1, <2>3, ResultFields
    <3>2. request[t].results[p] \in ran[j][p]
      BY <1>7, <2>3, <3>1 DEF ExecInv, RequestsSound, RequestSound, ResultWrite, AtStep
    <3>3. j \in 1..MaxJobs /\ p \in Packages
      BY <2>1, <2>2, ItemPackages
    <3> QED
      BY <3>1, <3>2, <3>3 DEF Grows
  <2>4. CASE j # request[t].job
    <3>1. jobs'[j].items = jobs[j].items
      BY <1>2, <1>7, <2>1, <2>4, ResultFields
    <3> QED
      BY <1>1, <2>1, <2>2, <3>1
  <2> QED
    BY <2>3, <2>4
<1>8. ASSUME NEW t \in Threads, AbandonWrite(t)
      PROVE  jobs'[j].items[p] \in ran'[j][p]
  <2>1. j \in JobIds /\ jobs'[j].items = jobs[j].items
    BY <1>2, <1>8, AbandonEffect, AbandonFields
  <2> QED
    BY <1>1, <2>1
<1> QED
  BY <1>2, <1>3, <1>4, <1>5, <1>6, <1>7, <1>8, StepCases

\* A result that says "success" names a success for every package of the job.
LEMMA SuccessfulResult ==
  ASSUME Typed, NEW t \in Threads, ResultWrite(t), request[t].status = "success",
         NEW p \in DOMAIN request[t].results
  PROVE  request[t].results[p] = "success"
<1>1. request[t].kind = "result" /\ StaleButSound(request[t])
  BY ResultEffect DEF ResultWrite, AtStep
<1>2. ResultFits(request[t])
  BY <1>1 DEF StaleButSound
<1>3. request[t].status = DerivedStatus(request[t].results)
  BY <1>2 DEF ResultFits
<1>4. Failed(request[t].results) = {}
  <2>1. DerivedStatus(request[t].results) = "success"
    BY <1>3
  <2> QED
    BY <2>1 DEF DerivedStatus
<1> QED
  BY <1>4 DEF Failed

LEMMA SuccessNext ==
  ASSUME ExecInv, [Next]_vars, Grows(ran, ran')
  PROVE  SuccessIsComplete'
<1> SUFFICES ASSUME NEW j \in JobIds', jobs'[j].status = "success",
                    NEW p \in DOMAIN jobs'[j].items
             PROVE  "success" \in ran'[j][p]
  BY DEF SuccessIsComplete
<1>1. ASSUME j \in JobIds, p \in DOMAIN jobs[j].items, jobs[j].status = "success"
      PROVE  "success" \in ran'[j][p]
  <2>1. "success" \in ran[j][p]
    BY <1>1 DEF ExecInv, SuccessIsComplete
  <2>2. j \in 1..MaxJobs /\ p \in Packages
    BY <1>1, ItemPackages
  <2> QED
    BY <2>1, <2>2 DEF Grows
<1>2. Typed
  BY DEF ExecInv, ExecTyped
<1>3. CASE QuietStep
  BY <1>1, <1>3, QuietKeepsTables DEF JobIds
<1>4. ASSUME NEW t \in Threads, CreateWrite(t)
      PROVE  "success" \in ran'[j][p]
  <2>1. j # Len(jobs) + 1
    BY <1>2, <1>4, CreateFields
  <2>2. JobIds' = JobIds \cup {Len(jobs) + 1} /\ \A i \in JobIds : jobs'[i] = jobs[i]
    BY <1>2, <1>4, CreateEffect
  <2>3. j \in JobIds /\ jobs'[j] = jobs[j]
    BY <2>1, <2>2
  <2> QED
    BY <1>1, <2>3
<1>5. ASSUME NEW t \in Threads, Claim(t)
      PROVE  "success" \in ran'[j][p]
  <2>1. j \in JobIds
    BY <1>2, <1>5, ClaimEffect
  <2>2. jobs'[j].items = jobs[j].items /\ jobs[j].status = "success"
    BY <1>2, <1>5, <2>1, ClaimFields
  <2> QED
    BY <1>1, <2>1, <2>2
<1>6. ASSUME NEW t \in Threads, CheckpointWrite(t)
      PROVE  "success" \in ran'[j][p]
  <2>1. j \in JobIds
    BY <1>2, <1>6, CheckpointEffect
  <2>2. p \in DOMAIN jobs[j].items /\ jobs[j].status = "success"
    BY <1>2, <1>6, <2>1, CheckpointFields
  <2> QED
    BY <1>1, <2>1, <2>2
<1>7. ASSUME NEW t \in Threads, ResultWrite(t)
      PROVE  "success" \in ran'[j][p]
  <2>1. j \in JobIds
    BY <1>2, <1>7, ResultEffect
  <2>2. p \in DOMAIN jobs[j].items
    BY <1>2, <1>7, <2>1, ResultFields
  <2>3. CASE j = request[t].job
    <3>1. /\ jobs'[j].items = request[t].results
          /\ request[t].status = "success"
      BY <1>2, <1>7, <2>1, <2>3, ResultFields
    <3>2. request[t].results[p] = "success"
      BY <1>2, <1>7, <3>1, SuccessfulResult
    <3>3. request[t].results[p] \in ran[j][p]
      BY <1>7, <2>3, <3>1 DEF ExecInv, RequestsSound, RequestSound, ResultWrite, AtStep
    <3>4. j \in 1..MaxJobs /\ p \in Packages
      BY <2>1, <2>2, ItemPackages
    <3> QED
      BY <3>2, <3>3, <3>4 DEF Grows
  <2>4. CASE j # request[t].job
    <3>1. jobs[j].status = "success"
      BY <1>2, <1>7, <2>1, <2>4, ResultFields
    <3> QED
      BY <1>1, <2>1, <2>2, <3>1
  <2> QED
    BY <2>3, <2>4
<1>8. ASSUME NEW t \in Threads, AbandonWrite(t)
      PROVE  "success" \in ran'[j][p]
  <2>1. j \in JobIds
    BY <1>2, <1>8, AbandonEffect
  <2>2. jobs'[j].items = jobs[j].items /\ jobs[j].status = "success"
    BY <1>2, <1>8, <2>1, AbandonFields
  <2> QED
    BY <1>1, <2>1, <2>2
<1> QED
  BY <1>2, <1>3, <1>4, <1>5, <1>6, <1>7, <1>8, StepCases

-----------------------------------------------------------------------------
(* The programs *)

LEMMA OffSound ==
  ASSUME NEW rows, NEW done
  PROVE  StateSound(Off, rows, done)
<1>1. DOMAIN Off.known = {} /\ DOMAIN Off.results = {} /\ Off.at = "off"
  BY DEF Off
<1>2. Off.known \in PackageRows /\ Off.results \in ResultLists
  <2>1. \A S : <<>> \in [{} -> S]
    OBVIOUS
  <2> QED
    BY <2>1 DEF Off, PackageRows, ResultLists
<1>3. Off \in States
  BY <1>2, BoundsAssumption DEF Off, States, Phases
<1> QED
  BY <1>1, <1>3 DEF StateSound, Unstarted

\* The results of a program with one more entry.
OneMore(e, p, outcome) ==
  /\ Record(e, p, outcome) \in ResultLists
  /\ DOMAIN Record(e, p, outcome) = DOMAIN proc[e].results \cup {p}
  /\ \A q \in DOMAIN proc[e].results \cup {p} :
       Record(e, p, outcome)[q] = IF q = p THEN outcome ELSE proc[e].results[q]

LEMMA RecordAdds ==
  ASSUME NEW e \in Executors, proc[e] \in States, NEW outcome \in ItemResults,
         NEW p \in Packages \cup {NoPackage}
  PROVE  OneMore(e, p, outcome)
<1>1. PICK S \in SUBSET (Packages \cup {NoPackage}) : proc[e].results \in [S -> ItemResults]
  BY DEF States, ResultLists
<1>2. Record(e, p, outcome) \in [S \cup {p} -> ItemResults]
  BY <1>1 DEF Record
<1>3. S \cup {p} \in SUBSET (Packages \cup {NoPackage})
  OBVIOUS
<1>4. Record(e, p, outcome) \in ResultLists
  BY <1>2, <1>3 DEF ResultLists
<1> QED
  BY <1>4 DEF OneMore, Record

\* The state a local step brings the program to.
LEMMA LocalState ==
  ASSUME ExecInv, NEW e \in Executors, LocalStep(e)
  PROVE  \E s : Becomes(e, s) /\ StateSound(s, jobs, ran') /\ s.thread = NoThread
<1> DEFINE now == proc[e]
           Goal == \E s : Becomes(e, s) /\ StateSound(s, jobs, ran') /\ s.thread = NoThread
<1>1. StateSound(now, jobs, ran) /\ now \in States
  BY DEF ExecInv, ProgramsSound, StateSound
<1>2. ASSUME ran' = ran, NEW s, Becomes(e, s), StateSound(s, jobs, ran), s.thread = NoThread
      PROVE  Goal
  BY <1>2
<1>3. Off.thread = NoThread /\ StateSound(Off, jobs, ran)
  BY OffSound DEF Off
<1>4. CASE ran' = ran /\ Becomes(e, Off)
  BY <1>2, <1>3, <1>4
<1>5. CASE Wake(e)
  <2>1. PICK phase \in {"find running", "find pending"} : Goto(e, phase)
    BY <1>5 DEF Wake
  <2>2. now.at = "off" /\ now.thread = NoThread /\ ran' = ran
    BY <1>5 DEF Wake, At, Waiting
  <2> DEFINE s == [now EXCEPT !.at = phase]
  <2>3. /\ s \in States /\ s.thread = NoThread /\ s.at = phase
        /\ s.known = now.known /\ s.results = now.results /\ s.job = now.job
    BY <1>1, <2>1, <2>2 DEF States, Phases
  <2>4. Becomes(e, s)
    BY <2>1 DEF Goto
  <2> HIDE DEF s
  <2>5. StateSound(s, jobs, ran)
    BY <1>1, <2>1, <2>2, <2>3 DEF StateSound, Unstarted
  <2> QED
    BY <1>2, <2>2, <2>3, <2>4, <2>5
<1>6. CASE FindRunning(e)
  <2> DEFINE running == JobsIn(ClientOf(e), "running")
             s == IF running = {} THEN [now EXCEPT !.at = "find pending"]
                  ELSE [now EXCEPT !.at = "read packages", !.job = Lowest(running)]
  <2>1. now.at = "find running" /\ now.thread = NoThread /\ ran' = ran /\ Becomes(e, s)
    BY <1>6 DEF FindRunning, At, Waiting
  <2>2. running # {} => Lowest(running) \in 1..Len(jobs) /\ Lowest(running) \in 0..MaxJobs
    BY FoundJob
  <2> HIDE DEF running
  <2>3. CASE running = {}
    <3>1. /\ s \in States /\ s.thread = NoThread /\ s.at = "find pending"
          /\ s.known = now.known /\ s.results = now.results /\ s.job = now.job
      BY <1>1, <2>1, <2>3 DEF States, Phases
    <3> HIDE DEF s
    <3>2. StateSound(s, jobs, ran)
      BY <1>1, <2>1, <3>1 DEF StateSound, Unstarted
    <3> QED
      BY <1>2, <2>1, <3>1, <3>2
  <2>4. CASE running # {}
    <3>1. /\ s \in States /\ s.thread = NoThread /\ s.at = "read packages"
          /\ s.known = now.known /\ s.results = now.results /\ s.job = Lowest(running)
      BY <1>1, <2>1, <2>2, <2>4 DEF States, Phases
    <3> HIDE DEF s
    <3>2. StateSound(s, jobs, ran)
      BY <1>1, <2>1, <2>2, <2>4, <3>1 DEF StateSound, Unstarted
    <3> QED
      BY <1>2, <2>1, <3>1, <3>2
  <2> QED
    BY <2>3, <2>4
<1>7. CASE FindPending(e) /\ ~Becomes(e, Off)
  <2> DEFINE pending == JobsIn(ClientOf(e), "pending")
             s == [now EXCEPT !.at = "claim", !.job = Lowest(pending)]
  <2>1. /\ now.at = "find pending" /\ now.thread = NoThread /\ ran' = ran
        /\ Becomes(e, s) /\ pending # {}
    BY <1>7 DEF FindPending, At, Waiting
  <2>2. Lowest(pending) \in 1..Len(jobs) /\ Lowest(pending) \in 0..MaxJobs
    BY <2>1, FoundJob
  <2> HIDE DEF pending
  <2>3. /\ s \in States /\ s.thread = NoThread /\ s.at = "claim"
        /\ s.known = now.known /\ s.results = now.results /\ s.job = Lowest(pending)
    BY <1>1, <2>1, <2>2 DEF States, Phases
  <2> HIDE DEF s
  <2>4. StateSound(s, jobs, ran)
    BY <1>1, <2>1, <2>2, <2>3 DEF StateSound, Unstarted
  <2> QED
    BY <1>2, <2>1, <2>3, <2>4
<1>8. CASE ReadPackages(e)
  <2> DEFINE rows == jobs[now.job].items
             s == [now EXCEPT !.at = "execute", !.known = rows]
  <2>1. now.at = "read packages" /\ now.thread = NoThread /\ ran' = ran /\ Becomes(e, s)
    BY <1>8 DEF ReadPackages, At, Waiting
  <2>2. now.job \in JobIds
    BY <1>1, <2>1 DEF StateSound, Unstarted, JobIds
  <2>3. rows \in PackageRows
    BY <2>2, JobRow DEF JobRows, ExecInv, ExecTyped, Typed
  <2>4. \A p \in DOMAIN rows : rows[p] # "pending" => rows[p] \in ran[now.job][p]
    BY <2>2 DEF ExecInv, RecordsAreTrue
  <2> HIDE DEF rows
  <2>5. /\ s \in States /\ s.thread = NoThread /\ s.at = "execute"
        /\ s.known = rows /\ s.results = now.results /\ s.job = now.job
    BY <1>1, <2>1, <2>3 DEF States, Phases
  <2> HIDE DEF s
  <2>6. StateSound(s, jobs, ran)
    BY <1>1, <2>1, <2>2, <2>4, <2>5 DEF StateSound, Unstarted, JobIds
  <2> QED
    BY <1>2, <2>1, <2>5, <2>6
<1>9. CASE SkipPackage(e)
  <2> DEFINE p == Current(e)
             found == Record(e, p, "success")
             s == [now EXCEPT !.results = found]
  <2>1. /\ now.at = "execute" /\ now.thread = NoThread /\ ran' = ran /\ Becomes(e, s)
        /\ Todo(e) # {} /\ now.known[p] = "success"
    BY <1>9 DEF SkipPackage, At, Waiting
  <2>2. p \in DOMAIN now.known /\ p \in Packages
    BY <1>1, <2>1, CurrentIsTodo DEF Todo
  <2>3. "success" \in ran[now.job][p]
    BY <1>1, <2>1, <2>2 DEF StateSound
  <2>4. "success" \in ItemResults
    <3>1. now.known[p] \in ItemStatuses
      BY <1>1, <2>2, StateFields DEF PackageRows
    <3> QED
      BY <2>1, <3>1 DEF ItemStatuses
  <2>5. /\ found \in ResultLists /\ DOMAIN found = DOMAIN now.results \cup {p}
        /\ \A q \in DOMAIN now.results \cup {p} :
             found[q] = IF q = p THEN "success" ELSE now.results[q]
    <3>1. p \in Packages \cup {NoPackage} /\ "success" \in ItemResults
      BY <2>2, <2>4
    <3>2. proc[e] \in States
      BY <1>1
    <3>3. OneMore(e, p, "success")
      BY <3>1, <3>2, RecordAdds
    <3> QED
      BY <3>3 DEF OneMore
  <2> HIDE DEF found, p
  <2>6. /\ s \in States /\ s.thread = NoThread /\ s.at = "execute"
        /\ s.known = now.known /\ s.results = found /\ s.job = now.job
    BY <1>1, <2>1, <2>5 DEF States, Phases
  <2> HIDE DEF s
  <2>7. \A q \in DOMAIN s.results \ {NoPackage} : s.results[q] \in ran[s.job][q]
    BY <1>1, <2>3, <2>5, <2>6 DEF StateSound
  <2>8. NoPackage \notin DOMAIN s.results
    BY <1>1, <2>1, <2>2, <2>5, <2>6, NoPackageAssumption DEF StateSound
  <2>9. StateSound(s, jobs, ran)
    BY <1>1, <2>1, <2>6, <2>7, <2>8 DEF StateSound, Unstarted
  <2> QED
    BY <1>2, <2>1, <2>6, <2>9
<1>10. CASE StartPackage(e)
  <2> DEFINE s == [now EXCEPT !.at = "package"]
  <2>1. /\ now.at = "execute" /\ now.thread = NoThread /\ ran' = ran /\ Becomes(e, s)
        /\ ~IsSystemJob(e) => Todo(e) # {}
    BY <1>10 DEF StartPackage, At, Waiting, Goto
  <2>2. /\ s \in States /\ s.thread = NoThread /\ s.at = "package"
        /\ s.known = now.known /\ s.results = now.results /\ s.job = now.job
    BY <1>1, <2>1 DEF States, Phases
  <2> HIDE DEF s
  <2>3. StateSound(s, jobs, ran)
    BY <1>1, <2>1, <2>2 DEF StateSound, Unstarted, IsSystemJob, Todo
  <2> QED
    BY <1>2, <2>1, <2>2, <2>3
<1>11. ASSUME NEW outcome \in ItemResults, PackageEnds(e, outcome)
       PROVE  Goal
  <2> DEFINE p == Current(e)
             found == Record(e, p, outcome)
             s == [now EXCEPT !.at = "checkpoint", !.results = found]
  <2>1. /\ now.at = "package" /\ now.thread = NoThread /\ Becomes(e, s) /\ ~IsSystemJob(e)
    BY <1>11 DEF PackageEnds, At, Waiting
  <2>2. p \in Packages
    BY <2>1, EndedPackage
  <2>3. outcome \in ran'[now.job][p] /\ Grows(ran, ran')
    BY <1>11, PackageEndsRan
  <2>4. StateSound(now, jobs, ran')
    <3>1. Extends(jobs, jobs)
      BY DEF Extends
    <3>2. 1..Len(jobs) \subseteq 1..MaxJobs
      BY ExistingJobs DEF ExecInv, ExecTyped
    <3> QED
      BY <1>1, <2>3, <3>1, <3>2, StateKept
  <2>5. /\ found \in ResultLists /\ DOMAIN found = DOMAIN now.results \cup {p}
        /\ \A q \in DOMAIN now.results \cup {p} :
             found[q] = IF q = p THEN outcome ELSE now.results[q]
    <3>1. p \in Packages \cup {NoPackage} /\ outcome \in ItemResults
      BY <2>2, <1>11
    <3>2. proc[e] \in States
      BY <1>1
    <3>3. OneMore(e, p, outcome)
      BY <3>1, <3>2, RecordAdds
    <3> QED
      BY <3>3 DEF OneMore
  <2> HIDE DEF found, p
  <2>6. /\ s \in States /\ s.thread = NoThread /\ s.at = "checkpoint"
        /\ s.known = now.known /\ s.results = found /\ s.job = now.job
    BY <1>1, <2>1, <2>5 DEF States, Phases
  <2> HIDE DEF s
  <2>7. \A q \in DOMAIN s.results \ {NoPackage} : s.results[q] \in ran'[s.job][q]
    BY <2>3, <2>4, <2>5, <2>6 DEF StateSound
  <2>8. NoPackage \notin DOMAIN s.results /\ DOMAIN s.results # {}
    BY <2>1, <2>2, <2>4, <2>5, <2>6, NoPackageAssumption DEF StateSound
  <2>9. StateSound(s, jobs, ran')
    BY <2>1, <2>4, <2>6, <2>7, <2>8 DEF StateSound, Unstarted
  <2> QED
    BY <2>1, <2>6, <2>9
<1>12. ASSUME NEW outcome \in ItemResults, SystemEnds(e, outcome)
       PROVE  Goal
  <2> DEFINE found == Record(e, NoPackage, outcome)
             s == [now EXCEPT !.at = "report", !.results = found]
  <2>1. now.at = "package" /\ now.thread = NoThread /\ Becomes(e, s) /\ ran' = ran
    BY <1>12 DEF SystemEnds, At, Waiting
  <2>2. /\ found \in ResultLists /\ DOMAIN found = DOMAIN now.results \cup {NoPackage}
        /\ \A q \in DOMAIN now.results \cup {NoPackage} :
             found[q] = IF q = NoPackage THEN outcome ELSE now.results[q]
    <3>1. NoPackage \in Packages \cup {NoPackage} /\ outcome \in ItemResults
      BY <1>12
    <3>2. proc[e] \in States
      BY <1>1
    <3>3. OneMore(e, NoPackage, outcome)
      BY <3>1, <3>2, RecordAdds
    <3> QED
      BY <3>3 DEF OneMore
  <2> HIDE DEF found
  <2>3. /\ s \in States /\ s.thread = NoThread /\ s.at = "report"
        /\ s.known = now.known /\ s.results = found /\ s.job = now.job
    BY <1>1, <2>1, <2>2 DEF States, Phases
  <2> HIDE DEF s
  <2>4. \A q \in DOMAIN s.results \ {NoPackage} : s.results[q] \in ran[s.job][q]
    BY <1>1, <2>2, <2>3 DEF StateSound
  <2>5. StateSound(s, jobs, ran)
    BY <1>1, <2>1, <2>3, <2>4 DEF StateSound, Unstarted
  <2> QED
    BY <1>2, <2>1, <2>3, <2>5
<1>13. CASE AllPackagesDone(e)
  <2> DEFINE s == [now EXCEPT !.at = "report"]
  <2>1. now.at = "execute" /\ now.thread = NoThread /\ ran' = ran /\ Becomes(e, s)
    BY <1>13 DEF AllPackagesDone, At, Waiting, Goto
  <2>2. /\ s \in States /\ s.thread = NoThread /\ s.at = "report"
        /\ s.known = now.known /\ s.results = now.results /\ s.job = now.job
    BY <1>1, <2>1 DEF States, Phases
  <2> HIDE DEF s
  <2>3. StateSound(s, jobs, ran)
    BY <1>1, <2>1, <2>2 DEF StateSound, Unstarted
  <2> QED
    BY <1>2, <2>1, <2>2, <2>3
<1>14. CASE LookupRefused(e) \/ TurnedAway(e) \/ Crash(e) \/ LoseAnswer(e)
  BY <1>4, <1>14 DEF LookupRefused, TurnedAway, Crash, LoseAnswer, Fault
<1>15. CASE FindPending(e) /\ Becomes(e, Off)
  BY <1>4, <1>15 DEF FindPending
<1> QED
  BY <1>5, <1>6, <1>7, <1>8, <1>9, <1>10, <1>11, <1>12, <1>13, <1>14, <1>15 DEF LocalStep

\* A program that this step does not move is as sound as before; its thread, if it
\* waits for one, still has its request.
LEMMA Unmoved ==
  ASSUME ExecInv, [Next]_vars, Grows(ran, ran'), NEW e \in Executors, proc'[e] = proc[e],
         proc[e].thread # NoThread =>
           /\ (pc'[proc[e].thread] = "idle") <=> (pc[proc[e].thread] = "idle")
           /\ request'[proc[e].thread] = request[proc[e].thread]
  PROVE  StateSound(proc'[e], jobs', ran') /\ Awaits(proc'[e], pc', request')
<1>1. StateSound(proc[e], jobs, ran) /\ Awaits(proc[e], pc, request)
  BY DEF ExecInv, ProgramsSound
<1>2. 1..Len(jobs) \subseteq 1..MaxJobs /\ Extends(jobs, jobs')
  BY ExistingJobs, JobsExtend DEF ExecInv, ExecTyped
<1>3. StateSound(proc[e], jobs', ran')
  BY <1>1, <1>2, StateKept
<1>4. Awaits(proc[e], pc', request')
  BY <1>1 DEF Awaits
<1> QED
  BY <1>3, <1>4

\* The thread a program waits for is a server thread that carries its request.
LEMMA AwaitedThread ==
  ASSUME ExecInv, NEW e \in Executors, proc[e].thread # NoThread
  PROVE  /\ proc[e].thread \in Threads
         /\ pc[proc[e].thread] # "idle"
         /\ \/ proc[e].at = "claim" /\ request[proc[e].thread].kind = "claim"
            \/ proc[e].at = "checkpoint" /\ request[proc[e].thread].kind = "checkpoint"
            \/ proc[e].at = "report" /\ request[proc[e].thread].kind = "result"
<1>1. proc[e].thread \in Threads \cup {NoThread}
  BY DEF ExecInv, ProgramsSound, StateSound, States
<1> QED
  BY <1>1 DEF ExecInv, ProgramsSound, Awaits

LEMMA ProgramsLocal ==
  ASSUME ExecInv, [ExecNext]_execVars, NEW e \in Executors, LocalStep(e)
  PROVE  ProgramsSound'
<1>1. PICK s : Becomes(e, s) /\ StateSound(s, jobs, ran') /\ s.thread = NoThread
  BY LocalState
<1>2. Grows(ran, ran') /\ [Next]_vars /\ UNCHANGED vars
  BY RanStep, LocalKeepsStore
<1>3. DOMAIN proc = Executors
  BY DEF ExecInv, ProgramsSound
<1>4. DOMAIN proc' = Executors /\ proc'[e] = s /\ \A d \in Executors \ {e} : proc'[d] = proc[d]
  BY <1>1, <1>3 DEF Becomes
<1>5. StateSound(proc'[e], jobs', ran') /\ Awaits(proc'[e], pc', request')
  BY <1>1, <1>2, <1>4 DEF vars, Awaits
<1>6. ASSUME NEW d \in Executors \ {e}
      PROVE  StateSound(proc'[d], jobs', ran') /\ Awaits(proc'[d], pc', request')
  <2>1. proc'[d] = proc[d] /\ pc' = pc /\ request' = request
    BY <1>2, <1>4 DEF vars
  <2> QED
    BY <1>2, <2>1, Unmoved
<1> QED
  BY <1>4, <1>5, <1>6 DEF ProgramsSound

LEMMA ProgramsSend ==
  ASSUME ExecInv, [ExecNext]_execVars, NEW e \in Executors, NEW t \in Threads, Send(e, t)
  PROVE  ProgramsSound'
<1> DEFINE s == [proc[e] EXCEPT !.thread = t]
<1>1. StateSound(proc[e], jobs, ran) /\ proc[e] \in States /\ DOMAIN proc = Executors
  BY DEF ExecInv, ProgramsSound, StateSound
<1>2. Grows(ran, ran') /\ [Next]_vars
  BY RanStep, StoreStep
<1>3. /\ Sending(e) /\ Arrive(t, RequestOf(e)) /\ proc' = [proc EXCEPT ![e] = s]
      /\ ran' = ran /\ jobs' = jobs
  BY DEF Send, Becomes, Arrive
<1>4. /\ s \in States /\ s.thread = t /\ s.at = proc[e].at /\ s.known = proc[e].known
      /\ s.results = proc[e].results /\ s.job = proc[e].job
  BY <1>1 DEF States
<1> HIDE DEF s
<1>5. DOMAIN proc' = Executors /\ proc'[e] = s /\ \A d \in Executors \ {e} : proc'[d] = proc[d]
  BY <1>1, <1>3
<1>6. StateSound(s, jobs, ran)
  BY <1>1, <1>4 DEF StateSound
<1>7. /\ pc'[t] = "entered" /\ request'[t] = RequestOf(e) /\ pc[t] = "idle"
      /\ \A u \in Threads \ {t} : pc'[u] = pc[u] /\ request'[u] = request[u]
  BY <1>3 DEF Arrive, ExecInv, ExecTyped, Typed, TypeOK
<1>8. Awaits(s, pc', request')
  <2>1. s.at \in {"claim", "checkpoint", "report"}
    BY <1>3, <1>4 DEF Sending, At
  <2>2. \/ s.at = "claim" /\ RequestOf(e).kind = "claim"
        \/ s.at = "checkpoint" /\ RequestOf(e).kind = "checkpoint"
        \/ s.at = "report" /\ RequestOf(e).kind = "result"
    BY <1>3, <1>4, <2>1, SentRequest
  <2> QED
    BY <1>4, <1>7, <2>2 DEF Awaits
<1>9. ASSUME NEW d \in Executors \ {e}
      PROVE  StateSound(proc'[d], jobs', ran') /\ Awaits(proc'[d], pc', request')
  <2>1. proc'[d] = proc[d]
    BY <1>5
  <2>2. proc[d].thread # NoThread =>
          proc[d].thread \in Threads /\ pc[proc[d].thread] # "idle"
    BY AwaitedThread
  <2>3. proc[d].thread # NoThread => proc[d].thread \in Threads \ {t}
    BY <1>7, <2>2
  <2> QED
    BY <1>2, <1>7, <2>1, <2>3, Unmoved
<1> QED
  BY <1>3, <1>5, <1>6, <1>8, <1>9 DEF ProgramsSound

\* Steps of the store that no waiting program notices.
LEMMA ProgramsUnchanged ==
  ASSUME ExecInv, [ExecNext]_execVars, UNCHANGED proc,
         \A u \in Threads :
           \/ pc[u] = "idle" \/ request[u].kind = "create"
           \/ /\ (pc'[u] = "idle") <=> (pc[u] = "idle")
              /\ request'[u] = request[u]
  PROVE  ProgramsSound'
<1>1. Grows(ran, ran') /\ [Next]_vars
  BY RanStep, StoreStep
<1>2. ASSUME NEW e \in Executors
      PROVE  StateSound(proc'[e], jobs', ran') /\ Awaits(proc'[e], pc', request')
  <2>1. ASSUME proc[e].thread # NoThread
        PROVE  /\ (pc'[proc[e].thread] = "idle") <=> (pc[proc[e].thread] = "idle")
               /\ request'[proc[e].thread] = request[proc[e].thread]
    <3>1. /\ proc[e].thread \in Threads
          /\ pc[proc[e].thread] # "idle"
          /\ request[proc[e].thread].kind # "create"
      BY <2>1, AwaitedThread
    <3> QED
      BY <3>1
  <2> QED
    BY <1>1, <2>1, Unmoved
<1> QED
  BY <1>2 DEF ProgramsSound, ExecInv

\* The thread a program waits for answers: the program goes on or ends.
LEMMA ProgramsAnswered ==
  ASSUME ExecInv, [ExecNext]_execVars, ran' = ran, NEW t \in Threads, Done(t), NEW next,
         Answered(t, next),
         \A e \in Executors : proc[e].thread = t =>
           StateSound(next[e], jobs, ran) /\ next[e].thread = NoThread
  PROVE  ProgramsSound'
<1>1. Grows(ran, ran') /\ [Next]_vars
  BY RanStep, StoreStep
<1>2. DOMAIN proc' = Executors
  BY DEF Answered
<1>3. ASSUME NEW e \in Executors
      PROVE  StateSound(proc'[e], jobs', ran') /\ Awaits(proc'[e], pc', request')
  <2>1. CASE proc[e].thread = t
    <3>1. proc'[e] = next[e]
      BY <2>1 DEF Answered
    <3>2. StateSound(next[e], jobs, ran) /\ next[e].thread = NoThread
      BY <2>1
    <3>3. 1..Len(jobs) \subseteq 1..MaxJobs /\ Extends(jobs, jobs')
      BY <1>1, ExistingJobs, JobsExtend DEF ExecInv, ExecTyped
    <3>4. StateSound(next[e], jobs', ran')
      BY <1>1, <3>2, <3>3, StateKept
    <3> QED
      BY <3>1, <3>2, <3>4 DEF Awaits
  <2>2. CASE proc[e].thread # t
    <3>1. proc'[e] = proc[e]
      BY <2>2 DEF Answered
    <3>2. proc[e].thread # NoThread => proc[e].thread \in Threads
      BY AwaitedThread
    <3>3. proc[e].thread # NoThread =>
            pc'[proc[e].thread] = pc[proc[e].thread] /\ request'[proc[e].thread] = request[proc[e].thread]
      BY <2>2, <3>2, DoneThreads
    <3> QED
      BY <1>1, <3>1, <3>3, Unmoved
  <2> QED
    BY <2>1, <2>2
<1> QED
  BY <1>2, <1>3 DEF ProgramsSound

LEMMA AnswerSound ==
  ASSUME ExecInv, [ExecNext]_execVars, ran' = ran, NEW t \in Threads, Answer(t)
  PROVE  ProgramsSound'
<1>1. Done(t)
  BY AnswerIsServed
<1>2. ASSUME Answered(t, [e \in Executors |-> Off])
      PROVE  ProgramsSound'
  <2> DEFINE next == [e \in Executors |-> Off]
  <2>1. \A e \in Executors : StateSound(next[e], jobs, ran) /\ next[e].thread = NoThread
    BY OffSound DEF Off
  <2> HIDE DEF next
  <2>2. Answered(t, next)
    BY <1>2 DEF next
  <2> QED
    BY <1>1, <2>1, <2>2, ProgramsAnswered
<1>3. CASE ThreadRefuses(t) \/ ThreadFinishes(t) \/ WorkerDies(t)
  BY <1>2, <1>3 DEF ThreadRefuses, ThreadFinishes, WorkerDies
<1>4. CASE ThreadGrants(t)
  <2> DEFINE rows(e) == [p \in DOMAIN jobs[proc[e].job].items |-> "pending"]
             next == [e \in Executors |->
               [proc[e] EXCEPT !.at = "execute", !.thread = NoThread, !.known = rows(e)]]
  <2>1. Claim(t) /\ Answered(t, next)
    BY <1>4 DEF ThreadGrants
  <2>2. ASSUME NEW e \in Executors, proc[e].thread = t
        PROVE  StateSound(next[e], jobs, ran) /\ next[e].thread = NoThread
    <3> DEFINE s == next[e]
    <3>1. StateSound(proc[e], jobs, ran) /\ proc[e] \in States
      BY DEF ExecInv, ProgramsSound, StateSound
    <3>2. proc[e].at = "claim"
      BY <2>1, <2>2, AwaitedThread, NoThreadAssumption DEF Claim, AtStep
    <3>3. proc[e].job \in JobIds
      BY <3>1, <3>2 DEF StateSound, Unstarted, JobIds
    <3>4. /\ rows(e) \in PackageRows
          /\ \A p \in DOMAIN rows(e) : rows(e)[p] = "pending"
      <4>1. DOMAIN jobs[proc[e].job].items \in SUBSET Packages
        BY <3>3, ItemPackages
      <4>2. rows(e) \in [DOMAIN jobs[proc[e].job].items -> ItemStatuses]
        BY DEF ItemStatuses
      <4> QED
        BY <4>1, <4>2 DEF PackageRows
    <3> HIDE DEF rows
    <3>5. /\ s \in States /\ s.thread = NoThread /\ s.at = "execute"
          /\ s.known = rows(e) /\ s.results = proc[e].results /\ s.job = proc[e].job
      BY <3>1, <3>4 DEF States, Phases
    <3> HIDE DEF next
    <3>6. StateSound(s, jobs, ran)
      BY <3>1, <3>2, <3>3, <3>4, <3>5 DEF StateSound, Unstarted, JobIds
    <3> QED
      BY <3>5, <3>6
  <2> HIDE DEF next
  <2> QED
    BY <1>1, <2>1, <2>2, ProgramsAnswered
<1>5. CASE ThreadRecords(t)
  <2> DEFINE next == [e \in Executors |->
               [proc[e] EXCEPT !.at = "execute", !.thread = NoThread]]
  <2>1. CheckpointWrite(t) /\ Answered(t, next)
    BY <1>5 DEF ThreadRecords
  <2>2. ASSUME NEW e \in Executors, proc[e].thread = t
        PROVE  StateSound(next[e], jobs, ran) /\ next[e].thread = NoThread
    <3> DEFINE s == next[e]
    <3>1. StateSound(proc[e], jobs, ran) /\ proc[e] \in States
      BY DEF ExecInv, ProgramsSound, StateSound
    <3>2. proc[e].at = "checkpoint"
      BY <2>1, <2>2, AwaitedThread, NoThreadAssumption DEF CheckpointWrite, AtStep
    <3>3. /\ s \in States /\ s.thread = NoThread /\ s.at = "execute"
          /\ s.known = proc[e].known /\ s.results = proc[e].results /\ s.job = proc[e].job
      BY <3>1 DEF States, Phases
    <3> HIDE DEF next
    <3>4. StateSound(s, jobs, ran)
      BY <3>1, <3>2, <3>3 DEF StateSound, Unstarted
    <3> QED
      BY <3>3, <3>4
  <2> HIDE DEF next
  <2> QED
    BY <1>1, <2>1, <2>2, ProgramsAnswered
<1> QED
  BY <1>3, <1>4, <1>5 DEF Answer

LEMMA ProgramsNext ==
  ASSUME ExecInv, [ExecNext]_execVars
  PROVE  ProgramsSound'
<1>1. ASSUME NEW t \in Threads, ThreadWorks(t)
      PROVE  ProgramsSound'
  <2>1. UNCHANGED proc
    BY <1>1 DEF ThreadWorks
  <2> QED
    BY <1>1, <2>1, WorkingThreads, ProgramsUnchanged
<1>2. ASSUME NEW t \in Threads, Operator(t)
      PROVE  ProgramsSound'
  <2>1. PICK r : Arrive(t, r)
    BY <1>2 DEF Operator
  <2>2. UNCHANGED proc
    BY <1>2 DEF Operator, programVars
  <2>3. pc[t] = "idle" /\ \A u \in Threads \ {t} : pc'[u] = pc[u] /\ request'[u] = request[u]
    BY <2>1 DEF Arrive, ExecInv, ExecTyped, Typed, TypeOK
  <2> QED
    BY <2>2, <2>3, ProgramsUnchanged
<1>3. ASSUME NEW c \in Clients, OperatorDisables(c)
      PROVE  ProgramsSound'
  <2>1. UNCHANGED <<proc, pc, request>>
    BY <1>3 DEF OperatorDisables, DisableClient
  <2> QED
    BY <2>1, ProgramsUnchanged
<1>4. CASE UNCHANGED execVars
  <2>1. UNCHANGED <<proc, pc, request>>
    BY <1>4 DEF execVars, vars, programVars
  <2> QED
    BY <2>1, ProgramsUnchanged
<1> QED
  BY <1>1, <1>2, <1>3, <1>4, ExecCases, ProgramsLocal, ProgramsSend, AnswerSound

-----------------------------------------------------------------------------
(* The theorems *)

THEOREM ExecInitInv == ExecInit => ExecInv
<1> SUFFICES ASSUME ExecInit PROVE ExecInv
  OBVIOUS
<1>1. Typed /\ InBounds
  BY InitTyped, EmptySeq, BoundsAssumption DEF ExecInit, Init, InBounds
<1>2. RanTyped
  BY DEF ExecInit, RanTyped
<1>3. ProgramsSound
  BY OffSound DEF ExecInit, ProgramsSound, Awaits, Off
<1>4. RequestsSound
  BY DEF ExecInit, Init, RequestsSound
<1>5. RecordsAreTrue /\ SuccessIsComplete
  BY EmptySeq DEF ExecInit, Init, RecordsAreTrue, SuccessIsComplete, JobIds
<1> QED
  BY <1>1, <1>2, <1>3, <1>4, <1>5 DEF ExecInv, ExecTyped

THEOREM ExecNextInv == ExecInv /\ [ExecNext]_execVars => ExecInv'
<1> SUFFICES ASSUME ExecInv, [ExecNext]_execVars PROVE ExecInv'
  OBVIOUS
<1>1. [Next]_vars /\ RanTyped' /\ Grows(ran, ran')
  BY StoreStep, RanStep
<1>2. Typed' /\ InBounds'
  BY <1>1, NextTyped, NextInBounds DEF ExecInv, ExecTyped
<1>3. ProgramsSound' /\ RequestsSound'
  BY ProgramsNext, RequestsNext
<1>4. RecordsAreTrue' /\ SuccessIsComplete'
  BY <1>1, RecordsNext, SuccessNext
<1> QED
  BY <1>1, <1>2, <1>3, <1>4 DEF ExecInv, ExecTyped

\* Whatever crashes, repeats itself or answers too late, the server never records
\* an outcome of a package that the package manager did not produce for that job.
THEOREM RecordsStayTrue == ExecSpec => []RecordsAreTrue
<1>1. ExecSpec => []ExecInv
  BY ExecInitInv, ExecNextInv, PTL DEF ExecSpec
<1> QED
  BY <1>1, PTL DEF ExecInv

\* A job the server calls successful had every one of its packages done.
THEOREM SuccessStaysComplete == ExecSpec => []SuccessIsComplete
<1>1. ExecSpec => []ExecInv
  BY ExecInitInv, ExecNextInv, PTL DEF ExecSpec
<1> QED
  BY <1>1, PTL DEF ExecInv

\* Agent and watcher, with all their faults, use the store only as UpdateJobs says:
\* what is proved of the store holds of a store they drive.
THEOREM ExecutionUsesStore == ExecSpec => Spec
<1>1. ExecInit => Init
  BY DEF ExecInit
<1>2. ExecInv /\ [ExecNext]_execVars => [Next]_vars
  BY StoreStep
<1> QED
  BY <1>1, <1>2, ExecInitInv, ExecNextInv, PTL DEF ExecSpec, Spec

\* With its programs the store implements the lifecycle: a job is handed out once
\* and ends at most once, even though two programs may work on it and repeat it.
THEOREM ExecutionLifecycle == ExecSpec => ImplementsLifecycle /\ []HistoryExactlyOnce
  BY ExecutionUsesStore, LifecycleImplemented, HistoryIsExact, PTL

-----------------------------------------------------------------------------
(* A watcher that works alone *)

\* A program works on a job of its own machine.
WorksOnOwn(e, s, rows) == s.at \notin Unstarted => rows[s.job].client = ClientOf(e)

\* What a program waits for is about the job it works on; a checkpoint is about a
\* package it has a result of.
AsksForOwn(e, s, asked) ==
  s.thread # NoThread =>
    /\ asked[s.thread].client = ClientOf(e)
    /\ asked[s.thread].job = s.job
    /\ s.at = "checkpoint" => asked[s.thread].package \in DOMAIN s.results

AskSound ==
  \A e \in Executors : WorksOnOwn(e, proc[e], jobs) /\ AsksForOwn(e, proc[e], request)

Busy == {"execute", "package", "checkpoint", "report"}

\* A program in state s knows of every success recorded of a package it has yet to do.
Told(s, rows) ==
  s.at \in Busy =>
    \A p \in DOMAIN s.known \ DOMAIN s.results :
      /\ p \in DOMAIN rows[s.job].items
      /\ s.known[p] # "success" => rows[s.job].items[p] # "success"

OnlyWatchers == \A e \in Executors : RoleOf(e) = "agent" => proc[e] = Off

\* Every request about a job has a program that waits for its answer.
Awaited ==
  \A t \in Threads :
    request[t].kind \in {"claim", "checkpoint", "result"} =>
      \E e \in Executors : proc[e].thread = t

AloneSound ==
  /\ OnlyWatchers /\ Awaited /\ PendingUntouched
  /\ \A e \in Executors : Told(proc[e], jobs)

EndsInv == ExecInv /\ AskSound /\ (scenario = "alone" => AloneSound)

\* How a step touches the program e: not at all, or as the step of e itself, of its
\* request, or of the answer it waits for.
Rests(e) ==
  /\ proc'[e] = proc[e]
  /\ proc[e].thread # NoThread => request'[proc[e].thread] = request[proc[e].thread]

LEMMA Turns ==
  ASSUME ExecInv, [ExecNext]_execVars, NEW e \in Executors
  PROVE  \/ Rests(e) \/ LocalStep(e)
         \/ \E t \in Threads : Send(e, t)
         \/ \E t \in Threads : Answer(t) /\ proc[e].thread = t
<1> DEFINE thread == proc[e].thread
<1>1. thread # NoThread =>
        /\ thread \in Threads /\ pc[thread] # "idle" /\ request[thread].kind # "create"
  BY AwaitedThread
<1>2. DOMAIN proc = Executors
  BY DEF ExecInv, ProgramsSound
<1>3. ASSUME NEW d \in Executors, LocalStep(d), d # e
      PROVE  Rests(e)
  <2>1. PICK s : Becomes(d, s)
    BY <1>3, LocalState
  <2>2. request' = request
    BY <1>3, LocalKeepsStore DEF vars
  <2> QED
    BY <1>2, <1>3, <2>1, <2>2 DEF Becomes, Rests
<1>4. ASSUME NEW d \in Executors, NEW t \in Threads, Send(d, t), d # e
      PROVE  Rests(e)
  <2>1. pc[t] = "idle" /\ \A u \in Threads \ {t} : request'[u] = request[u]
    BY <1>4 DEF Send, Arrive, ExecInv, ExecTyped, Typed, TypeOK
  <2>2. proc'[e] = proc[e]
    BY <1>2, <1>4 DEF Send, Becomes
  <2> QED
    BY <1>1, <2>1, <2>2 DEF Rests
<1>5. ASSUME NEW t \in Threads, Answer(t), thread # t
      PROVE  Rests(e)
  <2>1. proc'[e] = proc[e]
    BY <1>5 DEF Answer, ThreadRefuses, ThreadGrants, ThreadRecords, ThreadFinishes,
                WorkerDies, Answered
  <2>2. \A u \in Threads \ {t} : request'[u] = request[u]
    BY <1>5, AnswerIsServed, DoneThreads
  <2> QED
    BY <1>1, <1>5, <2>1, <2>2 DEF Rests
<1>6. ASSUME NEW t \in Threads, ThreadWorks(t)
      PROVE  Rests(e)
  <2>1. thread # NoThread => request'[thread] = request[thread]
    BY <1>1, <1>6, WorkingThreads
  <2> QED
    BY <1>6, <2>1 DEF ThreadWorks, Rests
<1>7. ASSUME NEW t \in Threads, Operator(t)
      PROVE  Rests(e)
  <2>1. proc' = proc
    BY <1>7 DEF Operator, programVars
  <2>2. pc[t] = "idle" /\ \A u \in Threads \ {t} : request'[u] = request[u]
    BY <1>7 DEF Operator, Arrive, ExecInv, ExecTyped, Typed, TypeOK
  <2> QED
    BY <1>1, <2>1, <2>2 DEF Rests
<1>8. ASSUME NEW c \in Clients, OperatorDisables(c)
      PROVE  Rests(e)
  BY <1>8 DEF OperatorDisables, DisableClient, Rests
<1>9. CASE UNCHANGED execVars
  BY <1>9 DEF execVars, vars, programVars, Rests
<1> QED
  BY <1>3, <1>4, <1>5, <1>6, <1>7, <1>8, <1>9, ExecCases

\* No job changes its owner.
LEMMA OwnersKept ==
  ASSUME Typed, [Next]_vars, NEW j \in JobIds
  PROVE  j \in JobIds' /\ jobs'[j].client = jobs[j].client
<1>1. CASE QuietStep
  BY <1>1, QuietKeepsTables DEF JobIds
<1>2. ASSUME NEW t \in Threads, CreateWrite(t)
      PROVE  j \in JobIds' /\ jobs'[j] = jobs[j]
  BY <1>2, CreateEffect
<1>3. ASSUME NEW t \in Threads, Claim(t)
      PROVE  j \in JobIds' /\ jobs'[j].client = jobs[j].client
  BY <1>3, ClaimEffect, ClaimFields
<1>4. ASSUME NEW t \in Threads, CheckpointWrite(t)
      PROVE  j \in JobIds' /\ jobs'[j].client = jobs[j].client
  BY <1>4, CheckpointEffect, CheckpointFields
<1>5. ASSUME NEW t \in Threads, ResultWrite(t)
      PROVE  j \in JobIds' /\ jobs'[j].client = jobs[j].client
  BY <1>5, ResultEffect, ResultFields
<1>6. ASSUME NEW t \in Threads, AbandonWrite(t)
      PROVE  j \in JobIds' /\ jobs'[j].client = jobs[j].client
  BY <1>6, AbandonEffect, AbandonFields
<1> QED
  BY <1>1, <1>2, <1>3, <1>4, <1>5, <1>6, StepCases

\* A program that has started works on a job that exists.
LEMMA JobOfProgram ==
  ASSUME ExecInv, NEW e \in Executors, proc[e].at \notin Unstarted
  PROVE  proc[e].job \in JobIds
  BY DEF ExecInv, ProgramsSound, StateSound, JobIds

LEMMA FoundOwn ==
  ASSUME ExecInv, NEW c, NEW status, JobsIn(c, status) # {}
  PROVE  jobs[Lowest(JobsIn(c, status))].client = c
<1>1. JobsIn(c, status) \in SUBSET Nat
  BY ExistingJobs DEF JobsIn, JobIds, ExecInv, ExecTyped
<1>2. Lowest(JobsIn(c, status)) \in JobsIn(c, status)
  BY <1>1, LowestIsMember
<1> QED
  BY <1>2 DEF JobsIn

\* What a local step makes of the state of its program.
LEMMA LocalEffect ==
  ASSUME ExecInv, NEW e \in Executors, LocalStep(e)
  PROVE  LET now == proc[e]
             then == proc'[e] IN
         /\ then.thread = NoThread
         /\ \/ then.at \in Unstarted
            \/ then.at \in {"read packages", "claim"} /\ jobs[then.job].client = ClientOf(e)
            \/ /\ now.at = "read packages" /\ then.at = "execute" /\ then.job = now.job
               /\ then.known = jobs[now.job].items
            \/ /\ now.at \in Busy /\ then.at \in Busy /\ then.job = now.job
               /\ then.known = now.known /\ DOMAIN now.results \subseteq DOMAIN then.results
<1> DEFINE now == proc[e]
<1>1. now \in States /\ DOMAIN proc = Executors
  BY DEF ExecInv, ProgramsSound, StateSound
<1>2. PICK s : Becomes(e, s) /\ s.thread = NoThread
  BY LocalState
<1>3. proc'[e] = s
  BY <1>1, <1>2 DEF Becomes
<1>4. \A x : Becomes(e, x) => proc'[e] = x
  BY <1>1 DEF Becomes
<1>5. CASE Wake(e)
  <2>1. PICK phase \in {"find running", "find pending"} : Goto(e, phase)
    BY <1>5 DEF Wake
  <2>2. s.at = phase
    BY <1>1, <1>3, <1>4, <2>1 DEF Goto, States
  <2> QED
    BY <1>2, <1>3, <2>2 DEF Unstarted
<1>6. CASE FindRunning(e)
  <2> DEFINE running == JobsIn(ClientOf(e), "running")
  <2>1. CASE running = {}
    <3>1. proc'[e] = [now EXCEPT !.at = "find pending"]
      BY <1>4, <1>6, <2>1 DEF FindRunning
    <3>2. s.at = "find pending"
      BY <1>1, <1>3, <3>1 DEF States
    <3> QED
      BY <1>2, <1>3, <3>2 DEF Unstarted
  <2>2. CASE running # {}
    <3>1. proc'[e] = [now EXCEPT !.at = "read packages", !.job = Lowest(running)]
      BY <1>4, <1>6, <2>2 DEF FindRunning
    <3>2. jobs[Lowest(running)].client = ClientOf(e)
      BY <2>2, FoundOwn
    <3> HIDE DEF running
    <3>3. s.at = "read packages" /\ s.job = Lowest(running)
      BY <1>1, <1>3, <3>1 DEF States
    <3> QED
      BY <1>2, <1>3, <3>2, <3>3
  <2> QED
    BY <2>1, <2>2
<1>7. CASE FindPending(e) /\ ~Becomes(e, Off)
  <2> DEFINE pending == JobsIn(ClientOf(e), "pending")
  <2>1. /\ pending # {}
        /\ proc'[e] = [now EXCEPT !.at = "claim", !.job = Lowest(pending)]
    BY <1>4, <1>7 DEF FindPending
  <2>2. jobs[Lowest(pending)].client = ClientOf(e)
    BY <2>1, FoundOwn
  <2> HIDE DEF pending
  <2>3. s.at = "claim" /\ s.job = Lowest(pending)
    BY <1>1, <1>3, <2>1 DEF States
  <2> QED
    BY <1>2, <1>3, <2>2, <2>3
<1>8. CASE ReadPackages(e)
  <2>1. /\ now.at = "read packages"
        /\ proc'[e] = [now EXCEPT !.at = "execute", !.known = jobs[now.job].items]
    BY <1>4, <1>8 DEF ReadPackages, At
  <2>2. s.at = "execute" /\ s.job = now.job /\ s.known = jobs[now.job].items
    BY <1>1, <1>3, <2>1 DEF States
  <2> QED
    BY <1>2, <1>3, <2>1, <2>2
<1>9. CASE SkipPackage(e)
  <2> DEFINE found == Record(e, Current(e), "success")
  <2>1. now.at = "execute" /\ proc'[e] = [now EXCEPT !.results = found]
    BY <1>4, <1>9 DEF SkipPackage, At
  <2>2. DOMAIN now.results \subseteq DOMAIN found
    BY DEF Record
  <2> HIDE DEF found
  <2>3. s.at = "execute" /\ s.job = now.job /\ s.known = now.known /\ s.results = found
    BY <1>1, <1>3, <2>1 DEF States
  <2> QED
    BY <1>2, <1>3, <2>1, <2>2, <2>3 DEF Busy
<1>10. CASE StartPackage(e)
  <2>1. now.at = "execute" /\ proc'[e] = [now EXCEPT !.at = "package"]
    BY <1>4, <1>10 DEF StartPackage, At, Goto
  <2>2. s.at = "package" /\ s.job = now.job /\ s.known = now.known /\ s.results = now.results
    BY <1>1, <1>3, <2>1 DEF States
  <2> QED
    BY <1>2, <1>3, <2>1, <2>2 DEF Busy
<1>11. CASE AllPackagesDone(e)
  <2>1. now.at = "execute" /\ proc'[e] = [now EXCEPT !.at = "report"]
    BY <1>4, <1>11 DEF AllPackagesDone, At, Goto
  <2>2. s.at = "report" /\ s.job = now.job /\ s.known = now.known /\ s.results = now.results
    BY <1>1, <1>3, <2>1 DEF States
  <2> QED
    BY <1>2, <1>3, <2>1, <2>2 DEF Busy
<1>12. ASSUME NEW outcome \in ItemResults, NEW p, NEW phase \in {"checkpoint", "report"},
              now.at = "package",
              Becomes(e, [now EXCEPT !.at = phase, !.results = Record(e, p, outcome)])
       PROVE  /\ s.at \in Busy /\ s.job = now.job /\ s.known = now.known
              /\ DOMAIN now.results \subseteq DOMAIN s.results
  <2> DEFINE found == Record(e, p, outcome)
  <2>1. DOMAIN now.results \subseteq DOMAIN found
    BY DEF Record
  <2>2. proc'[e] = [now EXCEPT !.at = phase, !.results = found]
    BY <1>4, <1>12
  <2> HIDE DEF found
  <2>3. s.at = phase /\ s.job = now.job /\ s.known = now.known /\ s.results = found
    BY <1>1, <1>3, <2>2 DEF States
  <2> QED
    BY <2>1, <2>3 DEF Busy
<1>13. ASSUME NEW outcome \in ItemResults, PackageEnds(e, outcome) \/ SystemEnds(e, outcome)
       PROVE  /\ now.at \in Busy /\ s.at \in Busy /\ s.job = now.job /\ s.known = now.known
              /\ DOMAIN now.results \subseteq DOMAIN s.results
  <2>1. now.at = "package"
    BY <1>13 DEF PackageEnds, SystemEnds, At
  <2>2. CASE PackageEnds(e, outcome)
    BY <1>12, <2>1, <2>2 DEF PackageEnds, Busy
  <2>3. CASE SystemEnds(e, outcome)
    BY <1>12, <2>1, <2>3 DEF SystemEnds, Busy
  <2> QED
    BY <1>13, <2>2, <2>3
<1>14. CASE Becomes(e, Off)
  <2>1. proc'[e] = Off
    BY <1>4, <1>14
  <2> QED
    BY <2>1 DEF Off, Unstarted
<1> QED
  BY <1>2, <1>3, <1>5, <1>6, <1>7, <1>8, <1>9, <1>10, <1>11, <1>13, <1>14
  DEF LocalStep, LookupRefused, TurnedAway, Crash, LoseAnswer

\* What an answer makes of the state of the program that waited for it.
LEMMA AnswerEffect ==
  ASSUME ExecInv, NEW e \in Executors, NEW t \in Threads, Answer(t), proc[e].thread = t
  PROVE  LET now == proc[e]
             then == proc'[e] IN
         /\ then.thread = NoThread
         /\ \/ then.at \in Unstarted
            \/ /\ Claim(t) /\ now.at = "claim" /\ then.at = "execute" /\ then.job = now.job
               /\ then.known = [p \in DOMAIN jobs[now.job].items |-> "pending"]
            \/ /\ CheckpointWrite(t) /\ now.at = "checkpoint" /\ then.at = "execute"
               /\ then.job = now.job /\ then.known = now.known /\ then.results = now.results
<1>1. proc[e] \in States
  BY DEF ExecInv, ProgramsSound, StateSound
<1>2. CASE ThreadRefuses(t) \/ ThreadFinishes(t) \/ WorkerDies(t)
  <2>1. proc'[e] = Off
    BY <1>2 DEF ThreadRefuses, ThreadFinishes, WorkerDies, Answered
  <2> QED
    BY <2>1 DEF Off, Unstarted
<1>3. CASE ThreadGrants(t)
  <2> DEFINE rows == [p \in DOMAIN jobs[proc[e].job].items |-> "pending"]
  <2>1. Claim(t) /\ proc'[e] = [proc[e] EXCEPT !.at = "execute", !.thread = NoThread,
                                               !.known = rows]
    BY <1>3 DEF ThreadGrants, Answered
  <2> HIDE DEF rows
  <2>2. /\ proc'[e].at = "execute" /\ proc'[e].thread = NoThread
        /\ proc'[e].known = rows /\ proc'[e].job = proc[e].job
    BY <1>1, <2>1 DEF States
  <2>3. proc[e].at = "claim"
    BY <2>1, AwaitedThread, NoThreadAssumption DEF Claim, AtStep
  <2> QED
    BY <2>1, <2>2, <2>3 DEF rows
<1>4. CASE ThreadRecords(t)
  <2>1. CheckpointWrite(t) /\ proc'[e] = [proc[e] EXCEPT !.at = "execute", !.thread = NoThread]
    BY <1>4 DEF ThreadRecords, Answered
  <2>2. /\ proc'[e].at = "execute" /\ proc'[e].thread = NoThread /\ proc'[e].job = proc[e].job
        /\ proc'[e].known = proc[e].known /\ proc'[e].results = proc[e].results
    BY <1>1, <2>1 DEF States
  <2>3. proc[e].at = "checkpoint"
    BY <2>1, AwaitedThread, NoThreadAssumption DEF CheckpointWrite, AtStep
  <2> QED
    BY <2>1, <2>2, <2>3
<1> QED
  BY <1>2, <1>3, <1>4 DEF Answer

\* A sent request is about the job of its program.
LEMMA SendEffect ==
  ASSUME ExecInv, NEW e \in Executors, NEW t \in Threads, Send(e, t)
  PROVE  /\ proc'[e].at = proc[e].at /\ proc'[e].job = proc[e].job
         /\ proc'[e].known = proc[e].known /\ proc'[e].results = proc[e].results
         /\ proc'[e].thread = t /\ jobs' = jobs
         /\ proc[e].at \in {"claim", "checkpoint", "report"}
         /\ request'[t].client = ClientOf(e) /\ request'[t].job = proc[e].job
         /\ proc[e].at = "checkpoint" => request'[t].package \in DOMAIN proc[e].results
<1>1. StateSound(proc[e], jobs, ran) /\ proc[e] \in States /\ DOMAIN proc = Executors
  BY DEF ExecInv, ProgramsSound, StateSound
<1>2. proc'[e] = [proc[e] EXCEPT !.thread = t] /\ jobs' = jobs
  BY <1>1 DEF Send, Becomes, Arrive
<1>3. /\ proc'[e].at = proc[e].at /\ proc'[e].job = proc[e].job
      /\ proc'[e].known = proc[e].known /\ proc'[e].results = proc[e].results
      /\ proc'[e].thread = t
  BY <1>1, <1>2 DEF States
<1>4. proc[e].at \in {"claim", "checkpoint", "report"}
  BY DEF Send, Sending, At
<1>5. request'[t] = RequestOf(e)
  BY DEF Send, Arrive, ExecInv, ExecTyped, Typed, TypeOK
<1>6. ASSUME proc[e].at = "checkpoint"
      PROVE  /\ RequestOf(e).client = ClientOf(e) /\ RequestOf(e).job = proc[e].job
             /\ RequestOf(e).package \in DOMAIN proc[e].results
  <2>1. LastPackage(e) \in DOMAIN proc[e].results
    BY <1>1, <1>6, LastIsRecorded DEF StateSound
  <2>2. RequestOf(e) = [kind |-> "checkpoint", client |-> ClientOf(e), job |-> proc[e].job,
          package |-> LastPackage(e), status |-> proc[e].results[LastPackage(e)]]
    BY <1>6 DEF RequestOf
  <2> QED
    BY <2>1, <2>2
<1>7. ASSUME proc[e].at = "claim"
      PROVE  RequestOf(e).client = ClientOf(e) /\ RequestOf(e).job = proc[e].job
  BY <1>7 DEF RequestOf
<1>8. ASSUME proc[e].at = "report"
      PROVE  RequestOf(e).client = ClientOf(e) /\ RequestOf(e).job = proc[e].job
  BY <1>8 DEF RequestOf
<1> QED
  BY <1>2, <1>3, <1>4, <1>5, <1>6, <1>7, <1>8

LEMMA AskNext ==
  ASSUME ExecInv, AskSound, [ExecNext]_execVars
  PROVE  AskSound'
<1> SUFFICES ASSUME NEW e \in Executors
             PROVE  WorksOnOwn(e, proc'[e], jobs') /\ AsksForOwn(e, proc'[e], request')
  BY DEF AskSound
<1>1. WorksOnOwn(e, proc[e], jobs) /\ AsksForOwn(e, proc[e], request)
  BY DEF AskSound
<1>2. Typed /\ [Next]_vars
  BY StoreStep DEF ExecInv, ExecTyped
<1>3. proc[e].at \notin Unstarted =>
        jobs'[proc[e].job].client = ClientOf(e) /\ jobs[proc[e].job].client = ClientOf(e)
  BY <1>1, <1>2, JobOfProgram, OwnersKept DEF WorksOnOwn
<1>4. CASE Rests(e)
  BY <1>1, <1>3, <1>4 DEF Rests, WorksOnOwn, AsksForOwn
<1>5. CASE LocalStep(e)
  <2>1. jobs' = jobs
    BY <1>5, LocalKeepsStore DEF vars
  <2> QED
    BY <1>3, <1>5, <2>1, LocalEffect DEF WorksOnOwn, AsksForOwn, Busy, Unstarted
<1>6. ASSUME NEW t \in Threads, Send(e, t)
      PROVE  WorksOnOwn(e, proc'[e], jobs') /\ AsksForOwn(e, proc'[e], request')
  BY <1>3, <1>6, SendEffect DEF WorksOnOwn, AsksForOwn
<1>7. ASSUME NEW t \in Threads, Answer(t), proc[e].thread = t
      PROVE  WorksOnOwn(e, proc'[e], jobs') /\ AsksForOwn(e, proc'[e], request')
  <2>1. /\ proc'[e].thread = NoThread
        /\ \/ proc'[e].at \in Unstarted
           \/ proc'[e].job = proc[e].job /\ proc[e].at \in {"claim", "checkpoint"}
    BY <1>7, AnswerEffect
  <2> QED
    BY <1>3, <2>1 DEF WorksOnOwn, AsksForOwn, Unstarted
<1> QED
  BY <1>4, <1>5, <1>6, <1>7, Turns

\* Alone, a request about a job of the machine is the one its program waits for.
LEMMA OwnRequest ==
  ASSUME ExecInv, AskSound, AloneSound, NEW e \in Executors, NEW t \in Threads,
         request[t].kind \in {"checkpoint", "result"}, pc[t] = "checked",
         proc[e].at \in Busy, proc[e].job = request[t].job
  PROVE  proc[e].thread = t
<1>1. PICK d \in Executors : proc[d].thread = t
  BY DEF AloneSound, Awaited
<1>2. t # NoThread
  BY NoThreadAssumption
<1>3. ClientOf(d) = request[t].client
  BY <1>1, <1>2 DEF AskSound, AsksForOwn
<1>4. jobs[request[t].job].client = request[t].client
  BY DEF ExecInv, ExecTyped, Typed, CheckedFits, StaleButSound
<1>5. ClientOf(e) = ClientOf(d)
  BY <1>3, <1>4 DEF AskSound, WorksOnOwn, Busy, Unstarted
<1>6. proc[e] # Off /\ proc[d] # Off
  BY <1>1, <1>2 DEF Off, Busy
<1>7. RoleOf(e) = "watcher" /\ RoleOf(d) = "watcher"
  BY <1>6, RolesAssumption DEF AloneSound, OnlyWatchers, Executors, RoleOf
<1>8. e = d
  BY <1>5, <1>7 DEF Executors, ClientOf, RoleOf
<1> QED
  BY <1>1, <1>8

\* What a program knows stays true while its own result is not written.
LEMMA KnowledgeKept ==
  ASSUME ExecInv, AskSound, AloneSound, [Next]_vars, NEW e \in Executors,
         proc[e].at \in Busy,
         \A t \in Threads : ~(ResultWrite(t) /\ proc[e].thread = t)
  PROVE  Told(proc[e], jobs')
<1> DEFINE j == proc[e].job
<1>1. Told(proc[e], jobs) /\ j \in JobIds /\ Typed
  BY JobOfProgram DEF AloneSound, Busy, Unstarted, ExecInv, ExecTyped
<1>2. ASSUME jobs'[j].items = jobs[j].items
      PROVE  Told(proc[e], jobs')
  BY <1>1, <1>2 DEF Told
<1>3. CASE QuietStep
  BY <1>2, <1>3, QuietKeepsTables
<1>4. ASSUME NEW t \in Threads, CreateWrite(t)
      PROVE  Told(proc[e], jobs')
  BY <1>1, <1>2, <1>4, CreateEffect
<1>5. ASSUME NEW t \in Threads, Claim(t)
      PROVE  Told(proc[e], jobs')
  BY <1>1, <1>2, <1>5, ClaimFields
<1>6. ASSUME NEW t \in Threads, AbandonWrite(t)
      PROVE  Told(proc[e], jobs')
  BY <1>1, <1>2, <1>6, AbandonFields
<1>7. ASSUME NEW t \in Threads, ResultWrite(t)
      PROVE  Told(proc[e], jobs')
  <2>1. j # request[t].job
    BY <1>7, OwnRequest DEF ResultWrite, AtStep
  <2> QED
    BY <1>1, <1>2, <1>7, <2>1, ResultFields
<1>8. ASSUME NEW t \in Threads, CheckpointWrite(t)
      PROVE  Told(proc[e], jobs')
  <2>1. request[t].kind = "checkpoint" /\ pc[t] = "checked"
    BY <1>8 DEF CheckpointWrite, AtStep
  <2>2. j = request[t].job => request[t].package \in DOMAIN proc[e].results
    <3>1. CASE j = request[t].job
      <4>1. proc[e].thread = t
        BY <2>1, <3>1, OwnRequest
      <4>2. proc[e].at = "checkpoint"
        BY <2>1, <4>1, AwaitedThread, NoThreadAssumption
      <4> QED
        BY <4>1, <4>2, NoThreadAssumption DEF AskSound, AsksForOwn
    <3> QED
      BY <3>1
  <2>3. ASSUME NEW p \in DOMAIN proc[e].known \ DOMAIN proc[e].results
        PROVE  /\ p \in DOMAIN jobs'[j].items
               /\ proc[e].known[p] # "success" => jobs'[j].items[p] # "success"
    <3>1. /\ p \in DOMAIN jobs[j].items
          /\ proc[e].known[p] # "success" => jobs[j].items[p] # "success"
      BY <1>1, <2>3 DEF Told
    <3>2. ~(j = request[t].job /\ p = request[t].package)
      BY <2>2, <2>3
    <3>3. DOMAIN jobs'[j].items = DOMAIN jobs[j].items /\ jobs'[j].items[p] = jobs[j].items[p]
      BY <1>1, <1>8, <3>1, <3>2, CheckpointFields
    <3> QED
      BY <3>1, <3>3
  <2> QED
    BY <2>3 DEF Told
<1> QED
  BY <1>1, <1>3, <1>4, <1>5, <1>6, <1>7, <1>8, StepCases

LEMMA ToldNext ==
  ASSUME ExecInv, AskSound, AloneSound, [ExecNext]_execVars, NEW e \in Executors
  PROVE  Told(proc'[e], jobs')
<1>1. Typed /\ [Next]_vars /\ Told(proc[e], jobs)
  BY StoreStep DEF ExecInv, ExecTyped, AloneSound
<1>2. CASE proc'[e].at \notin Busy
  BY <1>2 DEF Told
<1>3. CASE Rests(e) /\ proc'[e].at \in Busy
  <2>1. ASSUME NEW t \in Threads, ResultWrite(t), proc[e].thread = t
        PROVE  FALSE
    <3>1. request'[t] = NoRequest
      BY <2>1 DEF ResultWrite, Done, ExecInv, ExecTyped, Typed, TypeOK
    <3>2. request'[t] = request[t] /\ request[t].kind = "result"
      BY <1>3, <2>1, NoThreadAssumption DEF Rests, ResultWrite, AtStep
    <3> QED
      BY <3>1, <3>2 DEF NoRequest
  <2>2. Told(proc[e], jobs')
    BY <1>1, <1>3, <2>1, KnowledgeKept DEF Rests
  <2> QED
    BY <1>3, <2>2 DEF Rests
<1>4. CASE LocalStep(e) /\ proc'[e].at \in Busy
  <2>1. jobs' = jobs
    BY <1>4, LocalKeepsStore DEF vars
  <2>2. CASE proc[e].at = "read packages"
    BY <1>4, <2>1, <2>2, LocalEffect DEF Told, Busy, Unstarted
  <2>3. CASE proc[e].at # "read packages"
    <3>1. /\ proc[e].at \in Busy /\ proc'[e].job = proc[e].job
          /\ proc'[e].known = proc[e].known
          /\ DOMAIN proc[e].results \subseteq DOMAIN proc'[e].results
      BY <1>4, <2>3, LocalEffect DEF Busy, Unstarted
    <3> QED
      BY <1>1, <2>1, <3>1 DEF Told
  <2> QED
    BY <2>2, <2>3
<1>5. ASSUME NEW t \in Threads, Send(e, t)
      PROVE  Told(proc'[e], jobs')
  BY <1>1, <1>5, SendEffect DEF Told
<1>6. ASSUME NEW t \in Threads, Answer(t), proc[e].thread = t, proc'[e].at \in Busy
      PROVE  Told(proc'[e], jobs')
  <2>1. CASE proc[e].at = "claim"
    <3> DEFINE rows == [p \in DOMAIN jobs[proc[e].job].items |-> "pending"]
    <3>1. Claim(t) /\ proc'[e].job = proc[e].job /\ proc'[e].known = rows
      BY <1>6, <2>1, AnswerEffect DEF Busy, Unstarted
    <3>2. request[t].job = proc[e].job
      BY <1>6, NoThreadAssumption DEF AskSound, AsksForOwn
    <3>3. proc[e].job \in JobIds /\ jobs[proc[e].job].status = "pending"
      BY <1>1, <3>1, <3>2, ClaimEffect
    <3>4. \A p \in DOMAIN jobs[proc[e].job].items : jobs[proc[e].job].items[p] = "pending"
      BY <3>3 DEF AloneSound, PendingUntouched
    <3>5. jobs'[proc[e].job].items = jobs[proc[e].job].items
      BY <1>1, <3>1, <3>3, ClaimFields
    <3>6. DOMAIN rows = DOMAIN jobs[proc[e].job].items
      OBVIOUS
    <3> HIDE DEF rows
    <3> QED
      BY <3>1, <3>4, <3>5, <3>6 DEF Told
  <2>2. CASE proc[e].at # "claim"
    <3>1. /\ CheckpointWrite(t) /\ proc[e].at = "checkpoint" /\ proc'[e].job = proc[e].job
          /\ proc'[e].known = proc[e].known /\ proc'[e].results = proc[e].results
      BY <1>6, <2>2, AnswerEffect DEF Busy, Unstarted
    <3>2. ASSUME NEW u \in Threads, ResultWrite(u), proc[e].thread = u
          PROVE  FALSE
      BY <1>6, <3>1, <3>2 DEF CheckpointWrite, ResultWrite, AtStep
    <3>3. Told(proc[e], jobs')
      BY <1>1, <3>1, <3>2, KnowledgeKept DEF Busy
    <3> QED
      BY <3>1, <3>3 DEF Told, Busy
  <2> QED
    BY <2>1, <2>2
<1> QED
  BY <1>2, <1>3, <1>4, <1>5, <1>6, Turns

LEMMA EndsInitInv == EndsInit => EndsInv
<1> SUFFICES ASSUME EndsInit PROVE EndsInv
  OBVIOUS
<1>1. ExecInv
  BY ExecInitInv DEF EndsInit
<1>2. \A e \in Executors : proc[e] = Off
  BY DEF EndsInit, ExecInit
<1>3. AskSound
  <2>1. Off.at \in Unstarted /\ Off.thread = NoThread
    BY DEF Off, Unstarted
  <2> QED
    BY <1>2, <2>1 DEF AskSound, WorksOnOwn, AsksForOwn
<1>4. OnlyWatchers /\ \A e \in Executors : Told(proc[e], jobs)
  BY <1>2 DEF OnlyWatchers, Told, Off, Busy
<1>5. Awaited
  BY DEF EndsInit, ExecInit, Init, Awaited, NoRequest
<1>6. PendingUntouched
  BY EmptySeq DEF EndsInit, ExecInit, Init, PendingUntouched, JobIds
<1> QED
  BY <1>1, <1>3, <1>4, <1>5, <1>6 DEF EndsInv, AloneSound

LEMMA EndsNextInv == EndsInv /\ [EndsNext]_<<execVars, scenario>> => EndsInv'
<1> SUFFICES ASSUME EndsInv, [EndsNext]_<<execVars, scenario>> PROVE EndsInv'
  OBVIOUS
<1>1. ExecInv /\ AskSound /\ [ExecNext]_execVars /\ scenario' = scenario
  BY DEF EndsInv, EndsNext
<1>2. ExecInv' /\ AskSound'
  BY <1>1, ExecNextInv, AskNext
<1>3. ASSUME scenario = "alone"
      PROVE  AloneSound'
  <2>1. AloneSound
    BY <1>3 DEF EndsInv
  <2>2. \A e \in Executors : Told(proc'[e], jobs')
    BY <1>1, <2>1, ToldNext
  <2>3. PendingUntouched'
    BY <1>1, <2>1, StoreStep, PendingNext DEF ExecInv, ExecTyped, AloneSound
  <2>4. CASE EndsNext
    <3>1. Alone
      BY <1>3, <2>4 DEF EndsNext
    <3> QED
      BY <2>2, <2>3, <3>1 DEF Alone, AloneSound, OnlyWatchers, Awaited
  <2>5. CASE UNCHANGED <<execVars, scenario>>
    BY <2>1, <2>2, <2>3, <2>5
    DEF AloneSound, OnlyWatchers, Awaited, execVars, vars, programVars
  <2> QED
    BY <2>4, <2>5
<1> QED
  BY <1>1, <1>2, <1>3 DEF EndsInv

\* Only StartPackage starts a package.
LEMMA StartsOnlyHere ==
  ASSUME ExecInv, [ExecNext]_execVars, NEW e \in Executors, Starts(e)
  PROVE  StartPackage(e)
<1>1. proc[e].at # "package" /\ proc'[e].at = "package"
  BY DEF Starts
<1>2. proc[e] \in States /\ DOMAIN proc = Executors
  BY DEF ExecInv, ProgramsSound, StateSound
<1>3. ~Rests(e)
  BY <1>1 DEF Rests
<1>4. \A t \in Threads : ~Send(e, t)
  BY <1>1, SendEffect
<1>5. \A t \in Threads : ~(Answer(t) /\ proc[e].thread = t)
  BY <1>1, AnswerEffect DEF Unstarted
<1>6. LocalStep(e)
  BY <1>3, <1>4, <1>5, Turns
<1>7. ASSUME NEW s, Becomes(e, s), s.at # "package"
      PROVE  FALSE
  BY <1>1, <1>2, <1>7 DEF Becomes
<1>8. ASSUME NEW phase, Goto(e, phase), phase # "package"
      PROVE  FALSE
  BY <1>2, <1>7, <1>8 DEF Goto, States
<1>9. ~Wake(e) /\ ~AllPackagesDone(e)
  BY <1>8 DEF Wake, AllPackagesDone
<1>10. ~Becomes(e, Off)
  BY <1>7 DEF Off
<1>11. ~FindRunning(e)
  BY <1>2, <1>7 DEF FindRunning, States
<1>12. ~FindPending(e)
  BY <1>2, <1>7, <1>10 DEF FindPending, States
<1>13. ~ReadPackages(e)
  BY <1>2, <1>7 DEF ReadPackages, States
<1>14. ~SkipPackage(e)
  BY <1>1, <1>2, <1>7 DEF SkipPackage, States
<1>15. \A outcome \in ItemResults : ~PackageEnds(e, outcome) /\ ~SystemEnds(e, outcome)
  BY <1>1 DEF PackageEnds, SystemEnds, At
<1> QED
  BY <1>6, <1>9, <1>10, <1>11, <1>12, <1>13, <1>14, <1>15
  DEF LocalStep, LookupRefused, TurnedAway, Crash, LoseAnswer

\* A watcher whose agent is stopped, and that waits for its answers, never starts a
\* package again whose success is recorded, on any machine, with any packages and
\* any number of crashes of the watcher and of server workers.
THEOREM AloneNeverRepeats == EndsSpec => AloneRepeatsNothing
<1> DEFINE Fresh(e) == Starts(e) /\ ~IsSystemJob(e) =>
                         jobs[proc[e].job].items[Current(e)] # "success"
<1>1. EndsSpec => []EndsInv
  BY EndsInitInv, EndsNextInv, PTL DEF EndsSpec
<1>2. ASSUME EndsInv, [EndsNext]_<<execVars, scenario>>
      PROVE  [scenario = "alone" => \A e \in Executors : Fresh(e)]_execVars
  <2> SUFFICES ASSUME scenario = "alone", NEW e \in Executors, Starts(e), ~IsSystemJob(e),
                      [ExecNext]_execVars
               PROVE  jobs[proc[e].job].items[Current(e)] # "success"
    BY <1>2 DEF EndsNext
  <2>1. ExecInv /\ AloneSound
    BY <1>2 DEF EndsInv
  <2>2. StartPackage(e)
    BY <2>1, StartsOnlyHere
  <2>3. /\ proc[e].at = "execute" /\ Todo(e) # {}
        /\ proc[e].known[Current(e)] # "success"
    BY <2>2 DEF StartPackage, At
  <2>4. Current(e) \in Todo(e)
    BY <2>1, <2>3, CurrentIsTodo DEF ExecInv, ProgramsSound, StateSound
  <2>5. Told(proc[e], jobs)
    BY <2>1 DEF AloneSound
  <2> QED
    BY <2>3, <2>4, <2>5 DEF Told, Todo, Busy
<1> QED
  BY <1>1, <1>2, PTL DEF EndsSpec, AloneRepeatsNothing

=============================================================================
