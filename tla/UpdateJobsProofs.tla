-------------------------- MODULE UpdateJobsProofs --------------------------
(***************************************************************************)
(* Proofs about the update-job store, for every set of clients, packages   *)
(* and threads.                                                            *)
(***************************************************************************)
EXTENDS UpdateJobsProps, SequenceTheorems, FiniteSetTheorems, TLAPS

-----------------------------------------------------------------------------
(* The inductive invariant *)

\* The verdict a thread carries from its SELECTs to its write can be stale in one
\* respect only, the status; and even the status never returns to pending.
StaleButSound(r) ==
  /\ r.kind \in {"create", "checkpoint", "result", "abandon"}
  /\ r.kind # "create" =>
       /\ r.job \in JobIds
       /\ jobs[r.job].client = r.client
       /\ jobs[r.job].status # "pending"
  /\ r.kind = "checkpoint" => r.package \in DOMAIN jobs[r.job].items
  /\ r.kind = "result" => ResultFits(r)

CheckedFits == \A t \in Threads : pc[t] = "checked" => StaleButSound(request[t])

Typed == TypeOK /\ CheckedFits /\ OnlySystemJobsAreEmpty

-----------------------------------------------------------------------------
(* Requests and threads *)

\* Every request a thread may carry, by the kind of handler.
LEMMA RequestFields ==
  ASSUME NEW r \in Requests
  PROVE  /\ r.kind \in {"create", "report", "claim", "abandon", "checkpoint", "result"}
         /\ r.client \in Clients
         /\ r.kind = "create" => r \in CreateRequests
         /\ r.kind = "report" => r \in ReportRequests
         /\ r.kind \in {"claim", "abandon"} => r \in JobRequests
         /\ r.kind = "checkpoint" => r \in CheckpointRequests
         /\ r.kind = "result" => r \in ResultRequests
         /\ r.kind \notin {"create", "report"} => r \in ClientRequests \ ReportRequests
         /\ r # NoRequest
  BY DEF Requests, ClientRequests, CreateRequests, ReportRequests, JobRequests,
         CheckpointRequests, ResultRequests, NoRequest

\* A thread that is serving carries a well-formed request.
LEMMA Serving ==
  ASSUME TypeOK, NEW t \in Threads, pc[t] # "idle"
  PROVE  request[t] \in Requests /\ WellFormed(request[t])
  BY DEF TypeOK

\* Ending a request keeps the threads well typed.
ThreadsTyped ==
  /\ pc \in [Threads -> {"idle", "entered", "checked"}]
  /\ request \in [Threads -> Requests \cup {NoRequest}]
  /\ \A u \in Threads :
       /\ (pc[u] = "idle") <=> (request[u] = NoRequest)
       /\ pc[u] # "idle" => WellFormed(request[u])

LEMMA DoneType ==
  ASSUME TypeOK, NEW t \in Threads, Done(t)
  PROVE  ThreadsTyped'
  BY DEF TypeOK, ThreadsTyped, Done, WellFormed

\* Only the thread that ends its request changes; the others keep what they have.
LEMMA DoneKeepsOthers ==
  ASSUME TypeOK, NEW t \in Threads, Done(t), NEW u \in Threads, pc'[u] = "checked"
  PROVE  u # t /\ pc[u] = "checked" /\ request'[u] = request[u]
  BY DEF TypeOK, Done

LEMMA CheckedType ==
  ASSUME TypeOK, NEW t \in Threads, Checked(t), pc[t] = "entered"
  PROVE  TypeOK'
  BY DEF TypeOK, Checked, WellFormed

-----------------------------------------------------------------------------
(* Rows *)

LEMMA JobRow ==
  ASSUME TypeOK, NEW j \in JobIds
  PROVE  jobs[j] \in JobRows
  BY ElementOfSeq DEF TypeOK, JobIds

LEMMA SetStatus ==
  ASSUME NEW row \in JobRows, NEW s \in JobStatuses
  PROVE  [row EXCEPT !.status = s] \in JobRows
  BY DEF JobRows

LEMMA SetItem ==
  ASSUME NEW row \in JobRows, NEW p, NEW s \in ItemStatuses
  PROVE  /\ [row EXCEPT !.items[p] = s] \in JobRows
         /\ DOMAIN [row EXCEPT !.items[p] = s].items = DOMAIN row.items
  BY DEF JobRows, PackageRows

\* The results of a well-formed result request are package rows.
LEMMA ResultsAreRows ==
  ASSUME NEW r \in ResultRequests, WellFormed(r)
  PROVE  r.results \in PackageRows /\ r.status \in ResultStatuses
<1>1. r.results \in ResultLists /\ r.status \in ResultStatuses /\ r.kind = "result"
  BY DEF ResultRequests
<1>2. NoPackage \notin DOMAIN r.results
  BY <1>1 DEF WellFormed
<1>3. PICK S \in SUBSET (Packages \cup {NoPackage}) : r.results \in [S -> ItemResults]
  BY <1>1 DEF ResultLists
<1>4. S \in SUBSET Packages /\ r.results \in [S -> ItemStatuses]
  BY <1>2, <1>3 DEF ItemStatuses
<1> QED
  BY <1>1, <1>4 DEF PackageRows

\* One row rewritten: the table keeps its type and its length, and the row keeps
\* its owner and its package names.
LEMMA RewriteRow ==
  ASSUME TypeOK, NEW j \in JobIds, NEW row \in JobRows,
         jobs' = [jobs EXCEPT ![j] = row]
  PROVE  /\ jobs' \in Seq(JobRows)
         /\ JobIds' = JobIds
         /\ \A i \in JobIds : jobs'[i] = IF i = j THEN row ELSE jobs[i]
  BY ExceptSeq DEF TypeOK, JobIds

LEMMA AddRow ==
  ASSUME TypeOK, NEW row \in JobRows, jobs' = Append(jobs, row)
  PROVE  /\ jobs' \in Seq(JobRows)
         /\ Len(jobs') = Len(jobs) + 1
         /\ JobIds' = JobIds \cup {Len(jobs) + 1}
         /\ \A i \in JobIds : jobs'[i] = jobs[i]
         /\ jobs'[Len(jobs) + 1] = row
<1>1. Len(jobs) \in Nat
  BY LenProperties DEF TypeOK
<1>2. Len(jobs') = Len(jobs) + 1 /\ jobs' \in Seq(JobRows)
  BY AppendProperties DEF TypeOK
<1>3. \A i \in JobIds : jobs'[i] = jobs[i]
  BY AppendProperties DEF TypeOK, JobIds
<1>4. jobs'[Len(jobs) + 1] = row
  BY AppendProperties DEF TypeOK
<1> QED
  BY <1>1, <1>2, <1>3, <1>4 DEF JobIds

-----------------------------------------------------------------------------
(* Type correctness *)

THEOREM InitTyped == Init => Typed
  BY EmptySeq DEF Init, Typed, TypeOK, CheckedFits, NoRequest,
                  OnlySystemJobsAreEmpty, JobIds

\* A step that ends its request, leaves the other variables in their types and
\* lets no job lose a row, an owner, an action or a package.
LEMMA DoneTyped ==
  ASSUME Typed, NEW t \in Threads, Done(t),
         enabled' \in [Clients -> BOOLEAN],
         available' \in [Clients -> SUBSET Packages],
         jobs' \in Seq(JobRows), history' \in Seq(HistoryRows),
         JobIds \subseteq JobIds', OnlySystemJobsAreEmpty',
         \A j \in JobIds : /\ jobs'[j].client = jobs[j].client
                           /\ jobs'[j].action = jobs[j].action
                           /\ DOMAIN jobs'[j].items = DOMAIN jobs[j].items
                           /\ jobs[j].status # "pending" => jobs'[j].status # "pending"
  PROVE  Typed'
<1>1. TypeOK'
  BY DoneType DEF Typed, TypeOK, ThreadsTyped
<1>2. ASSUME NEW u \in Threads, pc'[u] = "checked"
      PROVE  StaleButSound(request[u])' 
  <2>1. u # t /\ pc[u] = "checked" /\ request'[u] = request[u]
    BY <1>2, DoneKeepsOthers DEF Typed
  <2>2. StaleButSound(request[u])
    BY <2>1 DEF Typed, CheckedFits
  <2> QED
    BY <2>1, <2>2 DEF StaleButSound, ResultFits
<1> QED
  BY <1>1, <1>2 DEF Typed, CheckedFits

\* A request whose SELECTs let it through may be stale from now on.
LEMMA CheckedTyped ==
  ASSUME Typed, NEW t \in Threads, pc[t] = "entered", Checked(t),
         request[t].kind \in {"create", "checkpoint", "result", "abandon"},
         Admissible(request[t])
  PROVE  Typed'
<1>1. TypeOK'
  BY CheckedType DEF Typed
<1>2. StaleButSound(request[t])
  BY DEF StaleButSound, Admissible, OwnRunningJob
<1>3. ASSUME NEW u \in Threads, pc'[u] = "checked"
      PROVE  StaleButSound(request[u])'
  <2>1. request'[u] = request[u] /\ jobs' = jobs
    BY DEF Checked
  <2>2. u = t \/ pc[u] = "checked"
    BY <1>3 DEF Checked, Typed, TypeOK
  <2>3. StaleButSound(request[u])
    BY <1>2, <2>2 DEF Typed, CheckedFits
  <2> QED
    BY <2>1, <2>3 DEF StaleButSound, ResultFits, JobIds
<1>4. OnlySystemJobsAreEmpty'
  BY DEF Typed, OnlySystemJobsAreEmpty, Checked, JobIds
<1> QED
  BY <1>1, <1>3, <1>4 DEF Typed, CheckedFits

\* What each writing step does to the tables, stated once for every invariant.
LEMMA CreateEffect ==
  ASSUME Typed, NEW t \in Threads, CreateWrite(t)
  PROVE  /\ jobs' \in Seq(JobRows)
         /\ Len(jobs') = Len(jobs) + 1
         /\ JobIds' = JobIds \cup {Len(jobs) + 1}
         /\ \A i \in JobIds : jobs'[i] = jobs[i]
         /\ jobs'[Len(jobs) + 1] =
              [client |-> request[t].client, action |-> request[t].action,
               status |-> "pending", items |-> [p \in request[t].packages |-> "pending"]]
         /\ request[t] \in CreateRequests
         /\ WellFormed(request[t])
<1> DEFINE r == request[t]
           row == [client |-> r.client, action |-> r.action, status |-> "pending",
                   items |-> [p \in r.packages |-> "pending"]]
<1>1. r \in CreateRequests /\ WellFormed(r)
  BY Serving, RequestFields DEF CreateWrite, AtStep, Typed
<1>2. [p \in r.packages |-> "pending"] \in PackageRows
  <2>1. r.packages \in SUBSET Packages
    BY <1>1 DEF CreateRequests
  <2>2. [p \in r.packages |-> "pending"] \in [r.packages -> ItemStatuses]
    BY DEF ItemStatuses
  <2> QED
    BY <2>1, <2>2 DEF PackageRows
<1>3. row \in JobRows
  BY <1>1, <1>2 DEF JobRows, CreateRequests, JobStatuses
<1>4. jobs' = Append(jobs, row)
  BY DEF CreateWrite
<1> QED
  BY <1>1, <1>3, <1>4, AddRow DEF Typed

LEMMA ClaimEffect ==
  ASSUME Typed, NEW t \in Threads, Claim(t)
  PROVE  /\ request[t].job \in JobIds
         /\ jobs[request[t].job].client = request[t].client
         /\ jobs[request[t].job].status = "pending"
         /\ jobs' \in Seq(JobRows)
         /\ JobIds' = JobIds
         /\ \A i \in JobIds : jobs'[i] =
              IF i = request[t].job THEN [jobs[i] EXCEPT !.status = "running"] ELSE jobs[i]
         /\ request[t] \in ClientRequests \ ReportRequests
<1> DEFINE r == request[t]
           row == [jobs[r.job] EXCEPT !.status = "running"]
<1>1. r.kind = "claim" /\ Admissible(r)
  BY DEF Claim, AtStep
<1>2. /\ r.job \in JobIds
      /\ jobs[r.job].client = r.client
      /\ jobs[r.job].status = "pending"
  BY <1>1 DEF Admissible
<1>3. r \in ClientRequests \ ReportRequests
  BY <1>1, Serving, RequestFields DEF Claim, AtStep, Typed
<1>4. row \in JobRows
  BY <1>2, JobRow, SetStatus DEF Typed, JobStatuses
<1>5. jobs' = [jobs EXCEPT ![r.job] = row]
  BY DEF Claim
<1> QED
  <2>1. /\ jobs' \in Seq(JobRows)
        /\ JobIds' = JobIds
        /\ \A i \in JobIds : jobs'[i] = IF i = r.job THEN row ELSE jobs[i]
    <3> HIDE DEF row
    <3> QED BY <1>2, <1>4, <1>5, RewriteRow DEF Typed
  <2> QED
    BY <1>2, <1>3, <2>1

LEMMA CheckpointEffect ==
  ASSUME Typed, NEW t \in Threads, CheckpointWrite(t)
  PROVE  /\ StaleButSound(request[t])
         /\ request[t].job \in JobIds
         /\ request[t].status \in ItemResults
         /\ jobs' \in Seq(JobRows)
         /\ JobIds' = JobIds
         /\ \A i \in JobIds : jobs'[i] =
              IF i = request[t].job
              THEN [jobs[i] EXCEPT !.items[request[t].package] = request[t].status]
              ELSE jobs[i]
         /\ request[t] \in ClientRequests \ ReportRequests
<1> DEFINE r == request[t]
           row == [jobs[r.job] EXCEPT !.items[r.package] = r.status]
<1>1. r.kind = "checkpoint" /\ StaleButSound(r) /\ r.job \in JobIds
  BY DEF CheckpointWrite, AtStep, Typed, CheckedFits, StaleButSound
<1>2. r \in CheckpointRequests /\ r \in ClientRequests \ ReportRequests
  BY <1>1, Serving, RequestFields DEF CheckpointWrite, AtStep, Typed
<1>3. r.status \in ItemResults
  BY <1>2 DEF CheckpointRequests
<1>4. row \in JobRows
  BY <1>1, <1>3, JobRow, SetItem DEF Typed, ItemStatuses
<1>5. jobs' = [jobs EXCEPT ![r.job] = row]
  BY DEF CheckpointWrite
<1> QED
  <2>1. /\ jobs' \in Seq(JobRows)
        /\ JobIds' = JobIds
        /\ \A i \in JobIds : jobs'[i] = IF i = r.job THEN row ELSE jobs[i]
    <3> HIDE DEF row
    <3> QED BY <1>1, <1>4, <1>5, RewriteRow DEF Typed
  <2> QED
    BY <1>1, <1>2, <1>3, <2>1

\* The history row of a request with counts that are natural numbers.
LEMMA NewHistory ==
  ASSUME TypeOK, NEW r, r.client \in Clients, r.job \in Nat,
         NEW status \in FinishedStatuses,
         NEW total \in Nat, NEW good \in Nat, NEW bad \in Nat,
         history' = Append(history, HistoryRow(r, status, total, good, bad))
  PROVE  /\ history' \in Seq(HistoryRows)
         /\ Len(history') = Len(history) + 1
         /\ \A i \in 1..Len(history) : history'[i] = history[i]
         /\ history'[Len(history) + 1] = HistoryRow(r, status, total, good, bad)
<1> DEFINE row == HistoryRow(r, status, total, good, bad)
<1>1. row \in HistoryRows
  BY DEF HistoryRow, HistoryRows
<1>2. history \in Seq(HistoryRows) /\ history' = Append(history, row)
  BY DEF TypeOK
<1> HIDE DEF row
<1>3. /\ history' \in Seq(HistoryRows)
      /\ Len(history') = Len(history) + 1
      /\ \A i \in 1..Len(history) : history'[i] = history[i]
      /\ history'[Len(history) + 1] = row
  BY <1>1, <1>2, AppendProperties
<1> QED
  BY <1>3 DEF row

LEMMA PackageCounts ==
  ASSUME NEW rows \in PackageRows
  PROVE  /\ IsFiniteSet(DOMAIN rows)
         /\ Cardinality(DOMAIN rows) \in Nat
         /\ Cardinality(Successful(rows)) \in Nat
         /\ Cardinality(Failed(rows)) \in Nat
<1>1. DOMAIN rows \in SUBSET Packages
  BY DEF PackageRows
<1>2. IsFiniteSet(DOMAIN rows)
  BY <1>1, FS_Subset, PackagesAssumption
<1>3. Successful(rows) \subseteq DOMAIN rows /\ Failed(rows) \subseteq DOMAIN rows
  BY DEF Successful, Failed
<1> QED
  BY <1>2, <1>3, FS_Subset, FS_CardinalityType

LEMMA ResultEffect ==
  ASSUME Typed, NEW t \in Threads, ResultWrite(t)
  PROVE  /\ StaleButSound(request[t])
         /\ request[t].job \in JobIds
         /\ request[t].client \in Clients
         /\ jobs[request[t].job].status = "running"
         /\ request[t].status \in ResultStatuses
         /\ request[t].results \in PackageRows
         /\ jobs' \in Seq(JobRows)
         /\ JobIds' = JobIds
         /\ \A i \in JobIds : jobs'[i] =
              IF i = request[t].job
              THEN [jobs[i] EXCEPT !.status = request[t].status,
                                   !.items = request[t].results]
              ELSE jobs[i]
         /\ DOMAIN request[t].results = DOMAIN jobs[request[t].job].items
         /\ request[t] \in ResultRequests
         /\ request[t] \in ClientRequests \ ReportRequests
         /\ history' \in Seq(HistoryRows)
         /\ Len(history') = Len(history) + 1
         /\ \A i \in 1..Len(history) : history'[i] = history[i]
         /\ history'[Len(history) + 1] =
              HistoryRow(request[t], request[t].status,
                         Cardinality(DOMAIN request[t].results),
                         Cardinality(Successful(request[t].results)),
                         Cardinality(Failed(request[t].results)))
<1> DEFINE r == request[t]
           row == [jobs[r.job] EXCEPT !.status = r.status, !.items = r.results]
<1>1. r.kind = "result" /\ StaleButSound(r) /\ r.job \in JobIds /\ ResultFits(r)
  BY DEF ResultWrite, AtStep, Typed, CheckedFits, StaleButSound
<1>2. /\ r \in ResultRequests /\ r \in ClientRequests \ ReportRequests
      /\ WellFormed(r) /\ r.client \in Clients
  BY <1>1, Serving, RequestFields DEF ResultWrite, AtStep, Typed
<1>3. r.results \in PackageRows /\ r.status \in ResultStatuses
  BY <1>2, ResultsAreRows
<1>4. jobs[r.job] \in JobRows
  BY <1>1, JobRow DEF Typed
<1>5. row \in JobRows
  BY <1>3, <1>4 DEF JobRows, JobStatuses, FinishedStatuses
<1>6. jobs' = [jobs EXCEPT ![r.job] = row]
  <2>1. jobs \in [1..Len(jobs) -> JobRows]
    BY LenProperties DEF Typed, TypeOK
  <2> QED
    BY <1>1, <2>1 DEF ResultWrite, JobIds
<1>7. jobs[r.job].status = "running"
  BY DEF ResultWrite, StillRunning
<1>8. DOMAIN r.results = DOMAIN jobs[r.job].items
  <2>1. CASE jobs[r.job].action = "UPDATE_SYSTEM"
    <3>1. DOMAIN r.results = {}
      BY <1>1, <2>1 DEF ResultFits
    <3>2. DOMAIN jobs[r.job].items = {}
      BY <1>1, <2>1 DEF Typed, OnlySystemJobsAreEmpty
    <3> QED
      BY <3>1, <3>2
  <2> QED
    BY <1>1, <2>1 DEF ResultFits
<1>9. /\ jobs' \in Seq(JobRows)
      /\ JobIds' = JobIds
      /\ \A i \in JobIds : jobs'[i] = IF i = r.job THEN row ELSE jobs[i]
  <2> HIDE DEF row
  <2> QED BY <1>1, <1>5, <1>6, RewriteRow DEF Typed
<1>10. /\ Cardinality(DOMAIN r.results) \in Nat
       /\ Cardinality(Successful(r.results)) \in Nat
       /\ Cardinality(Failed(r.results)) \in Nat
  BY <1>3, PackageCounts
<1>11. r.job \in Nat
  BY <1>1 DEF JobIds
<1>12. r.status \in FinishedStatuses
  BY <1>3 DEF FinishedStatuses
<1>13. history' = Append(history,
         HistoryRow(r, r.status, Cardinality(DOMAIN r.results),
                    Cardinality(Successful(r.results)),
                    Cardinality(Failed(r.results))))
  BY DEF ResultWrite
<1>14. /\ history' \in Seq(HistoryRows)
       /\ Len(history') = Len(history) + 1
       /\ \A i \in 1..Len(history) : history'[i] = history[i]
       /\ history'[Len(history) + 1] =
            HistoryRow(r, r.status, Cardinality(DOMAIN r.results),
                       Cardinality(Successful(r.results)),
                       Cardinality(Failed(r.results)))
  BY <1>2, <1>10, <1>11, <1>12, <1>13, NewHistory DEF Typed
<1> QED
  BY <1>1, <1>2, <1>3, <1>7, <1>8, <1>9, <1>14

LEMMA AbandonEffect ==
  ASSUME Typed, NEW t \in Threads, AbandonWrite(t)
  PROVE  /\ request[t].job \in JobIds
         /\ jobs[request[t].job].client = request[t].client
         /\ jobs[request[t].job].status = "running"
         /\ jobs' \in Seq(JobRows)
         /\ JobIds' = JobIds
         /\ \A i \in JobIds : jobs'[i] =
              IF i = request[t].job
              THEN [jobs[i] EXCEPT !.status = "abandoned"] ELSE jobs[i]
         /\ request[t] \in ClientRequests \ ReportRequests
         /\ history' \in Seq(HistoryRows)
         /\ Len(history') = Len(history) + 1
         /\ \A i \in 1..Len(history) : history'[i] = history[i]
         /\ history'[Len(history) + 1] =
              HistoryRow(request[t], "abandoned",
                         Cardinality(DOMAIN jobs[request[t].job].items), 0, 0)
<1> DEFINE r == request[t]
           row == [jobs[r.job] EXCEPT !.status = "abandoned"]
<1>1. r.kind = "abandon" /\ StaleButSound(r)
  BY DEF AbandonWrite, AtStep, Typed, CheckedFits
<1>2. /\ r.job \in JobIds /\ r.job \in Nat
      /\ jobs[r.job].client = r.client
  BY <1>1 DEF StaleButSound, JobIds
<1>3. r \in ClientRequests \ ReportRequests /\ r.client \in Clients
  BY <1>1, Serving, RequestFields DEF AbandonWrite, AtStep, Typed
<1>4. row \in JobRows
  BY <1>2, JobRow, SetStatus DEF Typed, JobStatuses, FinishedStatuses
<1>5. jobs' = [jobs EXCEPT ![r.job] = row]
  BY DEF AbandonWrite
<1>6. /\ jobs' \in Seq(JobRows)
      /\ JobIds' = JobIds
      /\ \A i \in JobIds : jobs'[i] = IF i = r.job THEN row ELSE jobs[i]
  <2> HIDE DEF row
  <2> QED BY <1>2, <1>4, <1>5, RewriteRow DEF Typed
<1>7. Cardinality(DOMAIN jobs[r.job].items) \in Nat
  <2>1. jobs[r.job].items \in PackageRows
    BY <1>2, JobRow DEF Typed, JobRows
  <2> QED
    BY <2>1, PackageCounts
<1>8. history' = Append(history,
        HistoryRow(r, "abandoned", Cardinality(DOMAIN jobs[r.job].items), 0, 0))
  BY DEF AbandonWrite
<1>9. /\ history' \in Seq(HistoryRows)
      /\ Len(history') = Len(history) + 1
      /\ \A i \in 1..Len(history) : history'[i] = history[i]
      /\ history'[Len(history) + 1] =
           HistoryRow(r, "abandoned", Cardinality(DOMAIN jobs[r.job].items), 0, 0)
  <2> DEFINE total == Cardinality(DOMAIN jobs[r.job].items)
             zero == 0
             ended == "abandoned"
  <2>1. total \in Nat /\ zero \in Nat /\ ended \in FinishedStatuses
    BY <1>7 DEF FinishedStatuses
  <2>2. history' = Append(history, HistoryRow(r, ended, total, zero, zero))
    BY <1>8
  <2>3. TypeOK /\ r.client \in Clients /\ r.job \in Nat
    BY <1>2, <1>3 DEF Typed
  <2> HIDE DEF total, zero, ended, r
  <2>4. /\ history' \in Seq(HistoryRows)
        /\ Len(history') = Len(history) + 1
        /\ \A i \in 1..Len(history) : history'[i] = history[i]
        /\ history'[Len(history) + 1] = HistoryRow(r, ended, total, zero, zero)
    BY <2>1, <2>2, <2>3, NewHistory
  <2> QED
    BY <2>4 DEF total, zero, ended, r
<1>10. jobs[r.job].status = "running"
  BY DEF AbandonWrite, StillRunning
<1> QED
  BY <1>2, <1>3, <1>6, <1>9, <1>10

\* The same effects, field by field.
LEMMA ClaimFields ==
  ASSUME Typed, NEW t \in Threads, Claim(t), NEW j \in JobIds
  PROVE  /\ jobs'[j].client = jobs[j].client
         /\ jobs'[j].action = jobs[j].action
         /\ jobs'[j].items = jobs[j].items
         /\ jobs'[j].status = IF j = request[t].job THEN "running" ELSE jobs[j].status
<1>1. jobs[j] \in JobRows
  BY JobRow DEF Typed
<1>2. jobs'[j] = IF j = request[t].job THEN [jobs[j] EXCEPT !.status = "running"] ELSE jobs[j]
  BY ClaimEffect
<1> QED
  BY <1>1, <1>2 DEF JobRows

LEMMA AbandonFields ==
  ASSUME Typed, NEW t \in Threads, AbandonWrite(t), NEW j \in JobIds
  PROVE  /\ jobs'[j].client = jobs[j].client
         /\ jobs'[j].action = jobs[j].action
         /\ jobs'[j].items = jobs[j].items
         /\ jobs'[j].status = IF j = request[t].job THEN "abandoned" ELSE jobs[j].status
<1>1. jobs[j] \in JobRows
  BY JobRow DEF Typed
<1>2. jobs'[j] = IF j = request[t].job THEN [jobs[j] EXCEPT !.status = "abandoned"] ELSE jobs[j]
  BY AbandonEffect
<1> QED
  BY <1>1, <1>2 DEF JobRows

LEMMA CheckpointFields ==
  ASSUME Typed, NEW t \in Threads, CheckpointWrite(t), NEW j \in JobIds
  PROVE  /\ jobs'[j].client = jobs[j].client
         /\ jobs'[j].action = jobs[j].action
         /\ jobs'[j].status = jobs[j].status
         /\ DOMAIN jobs'[j].items = DOMAIN jobs[j].items
         /\ \A p \in DOMAIN jobs[j].items : jobs'[j].items[p] =
              IF j = request[t].job /\ p = request[t].package
              THEN request[t].status ELSE jobs[j].items[p]
<1>1. jobs[j] \in JobRows
  BY JobRow DEF Typed
<1>2. CASE j = request[t].job
  <2> DEFINE items == [jobs[j].items EXCEPT ![request[t].package] = request[t].status]
  <2>1. jobs'[j] = [jobs[j] EXCEPT !.items = items]
    BY <1>2, CheckpointEffect
  <2>2. /\ DOMAIN items = DOMAIN jobs[j].items
        /\ \A p \in DOMAIN jobs[j].items : items[p] =
             IF p = request[t].package THEN request[t].status ELSE jobs[j].items[p]
    BY <1>1 DEF JobRows, PackageRows
  <2> HIDE DEF items
  <2>3. /\ jobs'[j].items = items
        /\ jobs'[j].client = jobs[j].client
        /\ jobs'[j].action = jobs[j].action
        /\ jobs'[j].status = jobs[j].status
    BY <1>1, <2>1 DEF JobRows
  <2> QED
    BY <1>2, <2>2, <2>3
<1>3. CASE j # request[t].job
  BY <1>3, CheckpointEffect
<1> QED
  BY <1>2, <1>3

LEMMA ResultFields ==
  ASSUME Typed, NEW t \in Threads, ResultWrite(t), NEW j \in JobIds
  PROVE  /\ jobs'[j].client = jobs[j].client
         /\ jobs'[j].action = jobs[j].action
         /\ jobs'[j].status = IF j = request[t].job THEN request[t].status ELSE jobs[j].status
         /\ jobs'[j].items = IF j = request[t].job THEN request[t].results ELSE jobs[j].items
         /\ DOMAIN jobs'[j].items = DOMAIN jobs[j].items
<1>1. jobs[j] \in JobRows
  BY JobRow DEF Typed
<1>2. CASE j = request[t].job
  <2>1. jobs'[j] = [jobs[j] EXCEPT !.status = request[t].status, !.items = request[t].results]
    BY <1>2, ResultEffect
  <2>2. DOMAIN request[t].results = DOMAIN jobs[j].items
    BY <1>2, ResultEffect
  <2> QED
    BY <1>1, <1>2, <2>1, <2>2 DEF JobRows
<1>3. CASE j # request[t].job
  BY <1>3, ResultEffect
<1> QED
  BY <1>2, <1>3

LEMMA ResultStatus ==
  ASSUME Typed, NEW t \in Threads, ResultWrite(t)
  PROVE  request[t].status \in ResultStatuses /\ request[t].status # "pending"
<1>1. request[t].status \in ResultStatuses
  BY ResultEffect
<1> QED
  BY <1>1 DEF ResultStatuses

LEMMA CreateFields ==
  ASSUME Typed, NEW t \in Threads, CreateWrite(t)
  PROVE  LET n == Len(jobs) + 1 IN
         /\ jobs'[n].client = request[t].client
         /\ jobs'[n].action = request[t].action
         /\ jobs'[n].status = "pending"
         /\ DOMAIN jobs'[n].items = request[t].packages
         /\ \A p \in DOMAIN jobs'[n].items : jobs'[n].items[p] = "pending"
<1> DEFINE items == [p \in request[t].packages |-> "pending"]
<1>1. DOMAIN items = request[t].packages /\ \A p \in DOMAIN items : items[p] = "pending"
  OBVIOUS
<1>2. jobs'[Len(jobs) + 1] = [client |-> request[t].client, action |-> request[t].action,
                              status |-> "pending", items |-> items]
  BY CreateEffect
<1> HIDE DEF items
<1> QED
  BY <1>1, <1>2

LEMMA HistoryRowFields ==
  ASSUME NEW r, NEW status, NEW total, NEW good, NEW bad
  PROVE  LET row == HistoryRow(r, status, total, good, bad) IN
         /\ row.client = r.client
         /\ row.job = r.job
         /\ row.status = status
         /\ row.package_count = total
         /\ row.successful_count = good
         /\ row.failed_count = bad
  BY DEF HistoryRow

LEMMA ResultRow ==
  ASSUME Typed, NEW t \in Threads, ResultWrite(t)
  PROVE  LET row == history'[Len(history) + 1] IN
         /\ row.client = request[t].client
         /\ row.job = request[t].job
         /\ row.status = request[t].status
         /\ row.package_count = Cardinality(DOMAIN request[t].results)
         /\ row.successful_count = Cardinality(Successful(request[t].results))
         /\ row.failed_count = Cardinality(Failed(request[t].results))
<1> DEFINE total == Cardinality(DOMAIN request[t].results)
           good == Cardinality(Successful(request[t].results))
           bad == Cardinality(Failed(request[t].results))
<1>1. history'[Len(history) + 1] = HistoryRow(request[t], request[t].status, total, good, bad)
  BY ResultEffect
<1> HIDE DEF total, good, bad
<1>2. LET row == history'[Len(history) + 1] IN
      /\ row.client = request[t].client
      /\ row.job = request[t].job
      /\ row.status = request[t].status
      /\ row.package_count = total
      /\ row.successful_count = good
      /\ row.failed_count = bad
  BY <1>1, HistoryRowFields
<1> QED
  BY <1>2 DEF total, good, bad

\* A thread takes a request.
LEMMA ArriveTyped ==
  ASSUME Typed, NEW t \in Threads, NEW r \in Requests, Arrive(t, r)
  PROVE  Typed'
<1>1. r # NoRequest
  BY RequestFields
<1>2. TypeOK'
  BY <1>1 DEF Typed, TypeOK, Arrive, WellFormed
<1>3. ASSUME NEW u \in Threads, pc'[u] = "checked"
      PROVE  StaleButSound(request[u])'
  <2>1. pc[u] = "checked" /\ request'[u] = request[u] /\ jobs' = jobs
    BY <1>3 DEF Arrive, Typed, TypeOK
  <2>2. StaleButSound(request[u])
    BY <2>1 DEF Typed, CheckedFits
  <2> QED
    BY <2>1, <2>2 DEF StaleButSound, ResultFits, JobIds
<1>4. OnlySystemJobsAreEmpty'
  BY DEF Typed, OnlySystemJobsAreEmpty, Arrive, JobIds
<1> QED
  BY <1>2, <1>3, <1>4 DEF Typed, CheckedFits

\* A request ends and the tables of jobs and history are as they were.
LEMMA NothingWrittenTyped ==
  ASSUME Typed, NEW t \in Threads, Done(t), UNCHANGED <<enabled, jobs, history>>,
         available' \in [Clients -> SUBSET Packages]
  PROVE  Typed'
  BY DoneTyped DEF Typed, TypeOK, JobIds, OnlySystemJobsAreEmpty

THEOREM NextTyped == Typed /\ [Next]_vars => Typed'
<1> SUFFICES ASSUME Typed, [Next]_vars PROVE Typed'
  OBVIOUS
<1>1. ASSUME NEW t \in Threads, NEW r \in Requests, Arrive(t, r)
      PROVE  Typed'
  BY <1>1, ArriveTyped
<1>2. ASSUME NEW t \in Threads, Refuse(t) \/ Conflict(t) \/ Die(t)
      PROVE  Typed'
  BY <1>2, NothingWrittenTyped DEF Refuse, Conflict, Die, Typed, TypeOK
<1>3. ASSUME NEW t \in Threads,
             CreateCheck(t) \/ CheckpointCheck(t) \/ ResultCheck(t) \/ AbandonCheck(t)
      PROVE  Typed'
  BY <1>3, CheckedTyped DEF CreateCheck, CheckpointCheck, ResultCheck, AbandonCheck, AtStep
<1>4. ASSUME NEW t \in Threads, CreateWrite(t)
      PROVE  Typed'
  <2>1. Done(t) /\ UNCHANGED <<enabled, available, history>>
    BY <1>4 DEF CreateWrite
  <2>2. /\ request[t].packages = DOMAIN jobs'[Len(jobs) + 1].items
        /\ request[t].action = jobs'[Len(jobs) + 1].action
    BY <1>4, CreateFields
  <2>3. (request[t].action = "UPDATE_SYSTEM") <=> (request[t].packages = {})
    BY <1>4, CreateEffect DEF WellFormed, CreateRequests
  <2>4. OnlySystemJobsAreEmpty'
    BY <1>4, <2>2, <2>3, CreateEffect DEF Typed, OnlySystemJobsAreEmpty
  <2> QED
    BY <1>4, <2>1, <2>4, CreateEffect, DoneTyped DEF Typed, TypeOK
<1>5. ASSUME NEW t \in Threads, Claim(t)
      PROVE  Typed'
  <2>1. Done(t) /\ UNCHANGED <<enabled, available, history>>
    BY <1>5 DEF Claim
  <2>2. \A j \in JobIds : /\ jobs'[j].client = jobs[j].client
                          /\ jobs'[j].action = jobs[j].action
                          /\ DOMAIN jobs'[j].items = DOMAIN jobs[j].items
                          /\ jobs[j].status # "pending" => jobs'[j].status # "pending"
    BY <1>5, ClaimFields
  <2>3. OnlySystemJobsAreEmpty'
    BY <1>5, <2>2, ClaimEffect DEF Typed, OnlySystemJobsAreEmpty
  <2> QED
    BY <1>5, <2>1, <2>2, <2>3, ClaimEffect, DoneTyped DEF Typed, TypeOK
<1>6. ASSUME NEW t \in Threads, CheckpointWrite(t)
      PROVE  Typed'
  <2>1. Done(t) /\ UNCHANGED <<enabled, available, history>>
    BY <1>6 DEF CheckpointWrite
  <2>2. \A j \in JobIds : /\ jobs'[j].client = jobs[j].client
                          /\ jobs'[j].action = jobs[j].action
                          /\ DOMAIN jobs'[j].items = DOMAIN jobs[j].items
                          /\ jobs'[j].status = jobs[j].status
    BY <1>6, CheckpointFields
  <2>3. OnlySystemJobsAreEmpty'
    BY <1>6, <2>2, CheckpointEffect DEF Typed, OnlySystemJobsAreEmpty
  <2> QED
    BY <1>6, <2>1, <2>2, <2>3, CheckpointEffect, DoneTyped DEF Typed, TypeOK
<1>7. ASSUME NEW t \in Threads, ResultWrite(t)
      PROVE  Typed'
  <2>1. Done(t) /\ UNCHANGED <<enabled, available>>
    BY <1>7 DEF ResultWrite
  <2>2. \A j \in JobIds : /\ jobs'[j].client = jobs[j].client
                          /\ jobs'[j].action = jobs[j].action
                          /\ DOMAIN jobs'[j].items = DOMAIN jobs[j].items
                          /\ jobs[j].status # "pending" => jobs'[j].status # "pending"
    BY <1>7, ResultFields, ResultStatus
  <2>3. OnlySystemJobsAreEmpty'
    BY <1>7, <2>2, ResultEffect DEF Typed, OnlySystemJobsAreEmpty
  <2> QED
    BY <1>7, <2>1, <2>2, <2>3, ResultEffect, DoneTyped DEF Typed, TypeOK
<1>8. ASSUME NEW t \in Threads, AbandonWrite(t)
      PROVE  Typed'
  <2>1. Done(t) /\ UNCHANGED <<enabled, available>>
    BY <1>8 DEF AbandonWrite
  <2>2. \A j \in JobIds : /\ jobs'[j].client = jobs[j].client
                          /\ jobs'[j].action = jobs[j].action
                          /\ DOMAIN jobs'[j].items = DOMAIN jobs[j].items
                          /\ jobs[j].status # "pending" => jobs'[j].status # "pending"
    BY <1>8, AbandonFields
  <2>3. OnlySystemJobsAreEmpty'
    BY <1>8, <2>2, AbandonEffect DEF Typed, OnlySystemJobsAreEmpty
  <2> QED
    BY <1>8, <2>1, <2>2, <2>3, AbandonEffect, DoneTyped DEF Typed, TypeOK
<1>9. ASSUME NEW t \in Threads, ReportWrite(t)
      PROVE  Typed'
  <2>1. request[t] \in ReportRequests
    BY <1>9, Serving, RequestFields DEF ReportWrite, AtStep, Typed
  <2>2. available' \in [Clients -> SUBSET Packages]
    BY <1>9, <2>1 DEF ReportWrite, ReportRequests, Typed, TypeOK
  <2> QED
    BY <1>9, <2>2, NothingWrittenTyped DEF ReportWrite
<1>10. ASSUME NEW c \in Clients, DisableClient(c)
       PROVE  Typed'
  <2>1. TypeOK'
    BY <1>10 DEF DisableClient, Typed, TypeOK, WellFormed
  <2>2. CheckedFits'
    BY <1>10 DEF DisableClient, Typed, CheckedFits, StaleButSound, ResultFits, JobIds
  <2> QED
    BY <1>10, <2>1, <2>2 DEF DisableClient, Typed, OnlySystemJobsAreEmpty, JobIds
<1>11. CASE UNCHANGED vars
  <2>1. TypeOK'
    BY <1>11 DEF vars, Typed, TypeOK, WellFormed
  <2>2. CheckedFits'
    BY <1>11 DEF vars, Typed, CheckedFits, StaleButSound, ResultFits, JobIds
  <2> QED
    BY <1>11, <2>1, <2>2 DEF vars, Typed, OnlySystemJobsAreEmpty, JobIds
<1> QED
  BY <1>1, <1>2, <1>3, <1>4, <1>5, <1>6, <1>7, <1>8, <1>9, <1>10, <1>11
  DEF Next, Serve

\* The tables and the threads stay well typed, a whole-system job never has
\* package rows, and a checked request still names a job of its client.
THEOREM AlwaysTyped == Spec => []Typed
  BY InitTyped, NextTyped, PTL DEF Spec

THEOREM TypeCorrect == Spec => []TypeOK
  BY AlwaysTyped, PTL DEF Typed

THEOREM EmptyJobs == Spec => []OnlySystemJobsAreEmpty
  BY AlwaysTyped, PTL DEF Typed

-----------------------------------------------------------------------------
(* The history of finished jobs *)

\* HistoryExactlyOnce is inductive together with the foreign key: a history row
\* names an existing job.
Recorded ==
  /\ HistoryExactlyOnce
  /\ \A i \in 1..Len(history) : history[i].job \in JobIds

LEMMA RowsAfterAppend ==
  ASSUME TypeOK, NEW row,
         Len(history') = Len(history) + 1,
         \A i \in 1..Len(history) : history'[i] = history[i],
         history'[Len(history) + 1] = row,
         NEW j
  PROVE  RowsOf(j)' = IF j = row.job THEN RowsOf(j) \cup {Len(history) + 1} ELSE RowsOf(j)
<1>1. Len(history) \in Nat
  BY LenProperties DEF TypeOK
<1> QED
  BY <1>1 DEF RowsOf

\* A step that records nothing and ends no job keeps the history exact.
LEMMA NothingRecorded ==
  ASSUME Typed, Recorded, UNCHANGED history, JobIds \subseteq JobIds',
         \A j \in JobIds : /\ jobs'[j].client = jobs[j].client
                           /\ Finished(j)' = Finished(j)
                           /\ Finished(j) => jobs'[j].status = jobs[j].status,
         \A j \in JobIds' \ JobIds : ~Finished(j)'
  PROVE  Recorded'
<1>1. \A j : RowsOf(j)' = RowsOf(j)
  BY DEF RowsOf
<1>2. \A j \in JobIds' \ JobIds : RowsOf(j) = {}
  BY DEF Recorded, RowsOf
<1>3. ASSUME NEW j \in JobIds', Finished(j)'
      PROVE  \E i \in RowsOf(j)' : /\ RowsOf(j)' = {i}
                                   /\ history'[i].status = jobs'[j].status
                                   /\ history'[i].client = jobs'[j].client
  <2>1. j \in JobIds /\ Finished(j)
    BY <1>3
  <2>2. PICK i \in RowsOf(j) : /\ RowsOf(j) = {i}
                               /\ history[i].status = jobs[j].status
                               /\ history[i].client = jobs[j].client
    BY <2>1 DEF Recorded, HistoryExactlyOnce
  <2> QED
    BY <1>1, <2>1, <2>2
<1>4. ASSUME NEW j \in JobIds', ~Finished(j)'
      PROVE  RowsOf(j)' = {}
  BY <1>1, <1>2, <1>4 DEF Recorded, HistoryExactlyOnce
<1>5. HistoryExactlyOnce'
  BY <1>3, <1>4 DEF HistoryExactlyOnce
<1> QED
  BY <1>5 DEF Recorded

\* Ending one running job and appending its row keeps the history exact.
LEMMA OneRecorded ==
  ASSUME Typed, Recorded, NEW k \in JobIds, NEW row,
         jobs[k].status = "running",
         JobIds' = JobIds,
         \A j \in JobIds \ {k} : jobs'[j] = jobs[j],
         jobs'[k].client = jobs[k].client,
         row.job = k, row.client = jobs[k].client,
         row.status = jobs'[k].status, row.status \in FinishedStatuses,
         Len(history') = Len(history) + 1,
         \A i \in 1..Len(history) : history'[i] = history[i],
         history'[Len(history) + 1] = row
  PROVE  Recorded'
<1> DEFINE n == Len(history) + 1
<1>1. Len(history) \in Nat
  BY LenProperties DEF Typed, TypeOK
<1>2. \A j : RowsOf(j)' = IF j = k THEN RowsOf(j) \cup {n} ELSE RowsOf(j)
  BY RowsAfterAppend DEF Typed
<1>3. RowsOf(k)' = {n}
  <2>1. RowsOf(k) = {}
    BY DEF Recorded, HistoryExactlyOnce, Finished, FinishedStatuses, ResultStatuses
  <2> QED
    BY <1>2, <2>1
<1>4. ASSUME NEW j \in JobIds, j # k, Finished(j)
      PROVE  \E i \in RowsOf(j)' : /\ RowsOf(j)' = {i}
                                   /\ history'[i].status = jobs'[j].status
                                   /\ history'[i].client = jobs'[j].client
  <2>1. PICK i \in RowsOf(j) : /\ RowsOf(j) = {i}
                               /\ history[i].status = jobs[j].status
                               /\ history[i].client = jobs[j].client
    BY <1>4 DEF Recorded, HistoryExactlyOnce
  <2>2. history'[i] = history[i]
    BY DEF RowsOf
  <2> QED
    BY <1>2, <1>4, <2>1, <2>2
<1>5. ASSUME NEW j \in JobIds, j # k, ~Finished(j)
      PROVE  RowsOf(j)' = {}
  BY <1>2, <1>5 DEF Recorded, HistoryExactlyOnce
<1>6. Finished(k)' /\ \A j \in JobIds \ {k} : Finished(j)' = Finished(j)
  BY DEF Finished
<1>7. HistoryExactlyOnce'
  <2> SUFFICES ASSUME NEW j \in JobIds
               PROVE  IF Finished(j)'
                      THEN \E i \in RowsOf(j)' : /\ RowsOf(j)' = {i}
                                                 /\ history'[i].status = jobs'[j].status
                                                 /\ history'[i].client = jobs'[j].client
                      ELSE RowsOf(j)' = {}
    BY DEF HistoryExactlyOnce
  <2>1. CASE j = k
    BY <1>3, <1>6, <2>1
  <2>2. CASE j # k
    BY <1>4, <1>5, <1>6, <2>2
  <2> QED
    BY <2>1, <2>2
<1>8. \A i \in 1..Len(history') : history'[i].job \in JobIds
  <2>1. \A i \in 1..Len(history') : i \in 1..Len(history) \/ i = n
    BY <1>1
  <2> QED
    BY <2>1 DEF Recorded
<1> QED
  BY <1>7, <1>8 DEF Recorded

THEOREM InitRecorded == Init => Recorded
  BY EmptySeq DEF Init, Recorded, HistoryExactlyOnce, JobIds

\* The steps that leave the tables of jobs and history as they are.
QuietStep ==
  \/ \E t \in Threads, r \in Requests : Arrive(t, r)
  \/ \E t \in Threads : \/ Refuse(t) \/ Conflict(t) \/ Die(t) \/ ReportWrite(t)
                        \/ CreateCheck(t) \/ CheckpointCheck(t)
                        \/ ResultCheck(t) \/ AbandonCheck(t)
  \/ \E c \in Clients : DisableClient(c)
  \/ UNCHANGED vars

LEMMA QuietKeepsTables ==
  QuietStep => UNCHANGED <<jobs, history>>
  BY DEF QuietStep, Arrive, Refuse, Conflict, Die, ReportWrite, CreateCheck, CheckpointCheck,
         ResultCheck, AbandonCheck, DisableClient, vars, Checked

\* Every step is quiet or one of the five writes.
LEMMA StepCases ==
  ASSUME [Next]_vars
  PROVE  \/ QuietStep
         \/ \E t \in Threads : \/ CreateWrite(t) \/ Claim(t) \/ CheckpointWrite(t)
                               \/ ResultWrite(t) \/ AbandonWrite(t)
  BY DEF Next, Serve, QuietStep

THEOREM NextRecorded == Typed /\ Recorded /\ [Next]_vars => Recorded'
<1> SUFFICES ASSUME Typed, Recorded, [Next]_vars PROVE Recorded'
  OBVIOUS
<1>1. CASE QuietStep
  BY <1>1, QuietKeepsTables, NothingRecorded DEF JobIds, Finished
<1>2. ASSUME NEW t \in Threads, CreateWrite(t)
      PROVE  Recorded'
  <2>1. UNCHANGED history
    BY <1>2 DEF CreateWrite
  <2>2. \A j \in JobIds' \ JobIds : ~Finished(j)'
    <3>1. JobIds' = JobIds \cup {Len(jobs) + 1}
      BY <1>2, CreateEffect
    <3>2. jobs'[Len(jobs) + 1].status = "pending"
      BY <1>2, CreateFields
    <3> QED
      BY <3>1, <3>2 DEF Finished, FinishedStatuses, ResultStatuses
  <2>3. \A j \in JobIds : jobs'[j] = jobs[j] /\ j \in JobIds'
    BY <1>2, CreateEffect
  <2> QED
    BY <2>1, <2>2, <2>3, NothingRecorded DEF Finished
<1>3. ASSUME NEW t \in Threads, Claim(t)
      PROVE  Recorded'
  <2>1. UNCHANGED history
    BY <1>3 DEF Claim
  <2>2. \A j \in JobIds : /\ jobs'[j].client = jobs[j].client
                          /\ Finished(j)' = Finished(j)
                          /\ Finished(j) => jobs'[j].status = jobs[j].status
    BY <1>3, ClaimFields, ClaimEffect DEF Finished, FinishedStatuses, ResultStatuses
  <2>3. JobIds' = JobIds
    BY <1>3, ClaimEffect
  <2> QED
    BY <2>1, <2>2, <2>3, NothingRecorded
<1>4. ASSUME NEW t \in Threads, CheckpointWrite(t)
      PROVE  Recorded'
  <2>1. UNCHANGED history
    BY <1>4 DEF CheckpointWrite
  <2>2. \A j \in JobIds : jobs'[j].client = jobs[j].client /\ jobs'[j].status = jobs[j].status
    BY <1>4, CheckpointFields
  <2>3. JobIds' = JobIds
    BY <1>4, CheckpointEffect
  <2> QED
    BY <2>1, <2>2, <2>3, NothingRecorded DEF Finished
<1>5. ASSUME NEW t \in Threads, ResultWrite(t)
      PROVE  Recorded'
  <2> DEFINE k == request[t].job
             row == history'[Len(history) + 1]
  <2>1. /\ row.job = k /\ row.client = request[t].client /\ row.status = request[t].status
    BY <1>5, ResultRow
  <2>2. /\ k \in JobIds
        /\ jobs[k].client = request[t].client
        /\ jobs[k].status = "running"
        /\ request[t].status \in FinishedStatuses
    BY <1>5, ResultEffect DEF StaleButSound, FinishedStatuses, ResultWrite, AtStep
  <2>3. /\ jobs'[k].client = jobs[k].client
        /\ jobs'[k].status = request[t].status
        /\ \A j \in JobIds \ {k} : jobs'[j] = jobs[j]
    BY <1>5, <2>2, ResultEffect, ResultFields
  <2>4. /\ JobIds' = JobIds
        /\ Len(history') = Len(history) + 1
        /\ \A i \in 1..Len(history) : history'[i] = history[i]
    BY <1>5, ResultEffect
  <2> QED
    BY <2>1, <2>2, <2>3, <2>4, OneRecorded
<1>6. ASSUME NEW t \in Threads, AbandonWrite(t)
      PROVE  Recorded'
  <2> DEFINE k == request[t].job
             row == history'[Len(history) + 1]
  <2>1. /\ row.job = k /\ row.client = request[t].client /\ row.status = "abandoned"
    BY <1>6, AbandonEffect, HistoryRowFields
  <2>2. /\ k \in JobIds
        /\ jobs[k].client = request[t].client
        /\ jobs[k].status = "running"
    BY <1>6, AbandonEffect
  <2>3. /\ jobs'[k].client = jobs[k].client
        /\ jobs'[k].status = "abandoned"
        /\ \A j \in JobIds \ {k} : jobs'[j] = jobs[j]
    BY <1>6, <2>2, AbandonEffect, AbandonFields
  <2>4. /\ JobIds' = JobIds
        /\ Len(history') = Len(history) + 1
        /\ \A i \in 1..Len(history) : history'[i] = history[i]
    BY <1>6, AbandonEffect
  <2>5. "abandoned" \in FinishedStatuses
    BY DEF FinishedStatuses
  <2> QED
    BY <2>1, <2>2, <2>3, <2>4, <2>5, OneRecorded
<1> QED
  BY <1>1, <1>2, <1>3, <1>4, <1>5, <1>6, StepCases

\* However the handlers interleave, a job that ended is recorded exactly once and
\* no other job is recorded.
THEOREM HistoryIsExact == Spec => []HistoryExactlyOnce
<1>1. Spec => [](Typed /\ Recorded)
  BY InitTyped, InitRecorded, NextTyped, NextRecorded, PTL DEF Spec
<1> QED
  BY <1>1, PTL DEF Recorded

-----------------------------------------------------------------------------
(* The package rows *)

LEMMA PendingNext == Typed /\ PendingUntouched /\ [Next]_vars => PendingUntouched'
<1> SUFFICES ASSUME Typed, PendingUntouched, [Next]_vars,
                    NEW j \in JobIds', jobs'[j].status = "pending",
                    NEW p \in DOMAIN jobs'[j].items
             PROVE  jobs'[j].items[p] = "pending"
  BY DEF PendingUntouched
<1>1. CASE QuietStep
  BY <1>1, QuietKeepsTables DEF PendingUntouched, JobIds
<1>2. ASSUME NEW t \in Threads, CreateWrite(t)
      PROVE  jobs'[j].items[p] = "pending"
  <2>1. CASE j \in JobIds
    BY <1>2, <2>1, CreateEffect DEF PendingUntouched
  <2>2. CASE j = Len(jobs) + 1
    BY <1>2, <2>2, CreateFields
  <2> QED
    BY <1>2, <2>1, <2>2, CreateEffect
<1>3. ASSUME NEW t \in Threads, Claim(t)
      PROVE  jobs'[j].items[p] = "pending"
  BY <1>3, ClaimEffect, ClaimFields DEF PendingUntouched
<1>4. ASSUME NEW t \in Threads, CheckpointWrite(t)
      PROVE  jobs'[j].items[p] = "pending"
  <2>1. j \in JobIds /\ jobs[j].status = "pending" /\ p \in DOMAIN jobs[j].items
    BY <1>4, CheckpointEffect, CheckpointFields
  <2>2. j # request[t].job
    BY <1>4, <2>1, CheckpointEffect DEF StaleButSound, CheckpointWrite, AtStep
  <2> QED
    BY <1>4, <2>1, <2>2, CheckpointFields DEF PendingUntouched
<1>5. ASSUME NEW t \in Threads, ResultWrite(t)
      PROVE  jobs'[j].items[p] = "pending"
  <2>1. j \in JobIds
    BY <1>5, ResultEffect
  <2> QED
    BY <1>5, <2>1, ResultStatus, ResultFields DEF PendingUntouched
<1>6. ASSUME NEW t \in Threads, AbandonWrite(t)
      PROVE  jobs'[j].items[p] = "pending"
  BY <1>6, AbandonEffect, AbandonFields DEF PendingUntouched
<1> QED
  BY <1>1, <1>2, <1>3, <1>4, <1>5, <1>6, StepCases

\* A claim always hands out a job of which nothing has been done.
THEOREM PendingStaysUntouched == Spec => []PendingUntouched
<1>1. Init => PendingUntouched
  BY EmptySeq DEF Init, PendingUntouched, JobIds
<1> QED
  BY <1>1, InitTyped, NextTyped, PendingNext, PTL DEF Spec

\* Every outcome a result names is a decided one.
LEMMA ResultItems ==
  ASSUME Typed, NEW t \in Threads, ResultWrite(t), NEW p \in DOMAIN request[t].results
  PROVE  request[t].results[p] # "pending"
<1>1. request[t] \in ResultRequests
  BY ResultEffect
<1>2. request[t].results \in ResultLists
  BY <1>1 DEF ResultRequests
<1>3. PICK S \in SUBSET (Packages \cup {NoPackage}) : request[t].results \in [S -> ItemResults]
  BY <1>2 DEF ResultLists
<1> QED
  BY <1>3, ItemResultsAssumption

LEMMA DecidedNext == Typed /\ ResultDecidesEveryItem /\ [Next]_vars => ResultDecidesEveryItem'
<1> SUFFICES ASSUME Typed, ResultDecidesEveryItem, [Next]_vars,
                    NEW j \in JobIds', jobs'[j].status \in ResultStatuses,
                    NEW p \in DOMAIN jobs'[j].items
             PROVE  jobs'[j].items[p] # "pending"
  BY DEF ResultDecidesEveryItem
<1>1. CASE QuietStep
  BY <1>1, QuietKeepsTables DEF ResultDecidesEveryItem, JobIds
<1>2. ASSUME NEW t \in Threads, CreateWrite(t)
      PROVE  jobs'[j].items[p] # "pending"
  <2>1. j # Len(jobs) + 1
    BY <1>2, CreateFields DEF ResultStatuses
  <2>2. j \in JobIds /\ jobs'[j] = jobs[j]
    BY <1>2, <2>1, CreateEffect
  <2> QED
    BY <2>2 DEF ResultDecidesEveryItem
<1>3. ASSUME NEW t \in Threads, Claim(t)
      PROVE  jobs'[j].items[p] # "pending"
  <2>1. j \in JobIds
    BY <1>3, ClaimEffect
  <2> QED
    BY <1>3, <2>1, ClaimFields DEF ResultDecidesEveryItem, ResultStatuses
<1>4. ASSUME NEW t \in Threads, CheckpointWrite(t)
      PROVE  jobs'[j].items[p] # "pending"
  <2>1. /\ j \in JobIds
        /\ request[t].status # "pending"
    BY <1>4, CheckpointEffect, ItemResultsAssumption
  <2> QED
    BY <1>4, <2>1, CheckpointFields DEF ResultDecidesEveryItem
<1>5. ASSUME NEW t \in Threads, ResultWrite(t)
      PROVE  jobs'[j].items[p] # "pending"
  <2>1. j \in JobIds
    BY <1>5, ResultEffect
  <2> QED
    BY <1>5, <2>1, ResultFields, ResultItems DEF ResultDecidesEveryItem
<1>6. ASSUME NEW t \in Threads, AbandonWrite(t)
      PROVE  jobs'[j].items[p] # "pending"
  <2>1. j \in JobIds
    BY <1>6, AbandonEffect
  <2> QED
    BY <1>6, <2>1, AbandonFields DEF ResultDecidesEveryItem, ResultStatuses
<1> QED
  BY <1>1, <1>2, <1>3, <1>4, <1>5, <1>6, StepCases

\* A checkpoint written after the job's result may change an outcome but never
\* leaves a finished job with an undecided package.
THEOREM ResultsAreDecided == Spec => []ResultDecidesEveryItem
<1>1. Init => ResultDecidesEveryItem
  BY EmptySeq DEF Init, ResultDecidesEveryItem, JobIds
<1> QED
  BY <1>1, InitTyped, NextTyped, DecidedNext, PTL DEF Spec

\* The package rows of a job follow its status (RowsFollowStatus): pending before
\* the claim, decided after a result, absent in a whole-system job.
THEOREM RowsFollow == Spec => []RowsFollowStatus
  BY AlwaysTyped, PendingStaysUntouched, ResultsAreDecided, EmptyJobs, PTL
     DEF RowsFollowStatus

-----------------------------------------------------------------------------
(* Ownership *)

LEMMA OwnerStep ==
  ASSUME Typed, [Next]_vars, NEW j \in JobIds, jobs'[j] # jobs[j]
  PROVE  /\ \E t \in Threads : /\ request[t] \in ClientRequests \ ReportRequests
                               /\ request[t].job = j
                               /\ request[t].client = jobs[j].client
                               /\ pc'[t] = "idle"
         /\ jobs'[j].client = jobs[j].client
         /\ jobs'[j].action = jobs[j].action
         /\ DOMAIN jobs'[j].items = DOMAIN jobs[j].items
<1> DEFINE Owned(t) == /\ request[t] \in ClientRequests \ ReportRequests
                       /\ request[t].job = j
                       /\ request[t].client = jobs[j].client
                       /\ pc'[t] = "idle"
           Kept == /\ jobs'[j].client = jobs[j].client
                   /\ jobs'[j].action = jobs[j].action
                   /\ DOMAIN jobs'[j].items = DOMAIN jobs[j].items
<1>1. ~QuietStep
  BY QuietKeepsTables
<1>2. ASSUME NEW t \in Threads, Done(t)
      PROVE  pc'[t] = "idle"
  BY <1>2 DEF Done, Typed, TypeOK
<1>3. ASSUME NEW t \in Threads, CreateWrite(t)
      PROVE  FALSE
  BY <1>3, CreateEffect
<1>4. ASSUME NEW t \in Threads, Claim(t)
      PROVE  Owned(t) /\ Kept
  <2>1. /\ request[t] \in ClientRequests \ ReportRequests
        /\ request[t].job = j
        /\ request[t].client = jobs[j].client
    BY <1>4, ClaimEffect
  <2>2. pc'[t] = "idle"
    BY <1>2, <1>4 DEF Claim
  <2> QED
    BY <1>4, <2>1, <2>2, ClaimFields
<1>5. ASSUME NEW t \in Threads, CheckpointWrite(t)
      PROVE  Owned(t) /\ Kept
  <2>1. /\ request[t] \in ClientRequests \ ReportRequests
        /\ request[t].job = j
        /\ StaleButSound(request[t])
    BY <1>5, CheckpointEffect
  <2>2. request[t].client = jobs[j].client
    BY <1>5, <2>1 DEF CheckpointWrite, StaleButSound, AtStep
  <2>3. pc'[t] = "idle"
    BY <1>2, <1>5 DEF CheckpointWrite
  <2> QED
    BY <1>5, <2>1, <2>2, <2>3, CheckpointFields
<1>6. ASSUME NEW t \in Threads, ResultWrite(t)
      PROVE  Owned(t) /\ Kept
  <2>1. /\ request[t] \in ClientRequests \ ReportRequests
        /\ request[t].job = j
        /\ StaleButSound(request[t])
    BY <1>6, ResultEffect
  <2> QED
    BY <1>2, <1>6, <2>1, ResultFields DEF ResultWrite, StaleButSound, AtStep
<1>7. ASSUME NEW t \in Threads, AbandonWrite(t)
      PROVE  Owned(t) /\ Kept
  <2>1. /\ request[t] \in ClientRequests \ ReportRequests
        /\ request[t].job = j
        /\ request[t].client = jobs[j].client
    BY <1>7, AbandonEffect
  <2>2. pc'[t] = "idle"
    BY <1>2, <1>7 DEF AbandonWrite
  <2> QED
    BY <1>7, <2>1, <2>2, AbandonFields
<1> QED
  BY <1>1, <1>3, <1>4, <1>5, <1>6, <1>7, StepCases

\* No client's requests ever touch another client's job, although most handlers
\* check the owner outside the transaction that writes.
THEOREM OnlyOwner == Spec => OnlyOwnerTouchesJob
<1> DEFINE Step == \A j \in JobIds : jobs'[j] # jobs[j] =>
              /\ \E t \in Threads : /\ request[t] \in ClientRequests \ ReportRequests
                                    /\ request[t].job = j
                                    /\ request[t].client = jobs[j].client
                                    /\ pc'[t] = "idle"
              /\ jobs'[j].client = jobs[j].client
              /\ jobs'[j].action = jobs[j].action
              /\ DOMAIN jobs'[j].items = DOMAIN jobs[j].items
<1>1. Typed /\ [Next]_vars => [Step]_vars
  BY OwnerStep
<1> QED
  BY <1>1, AlwaysTyped, PTL DEF Spec, OnlyOwnerTouchesJob

-----------------------------------------------------------------------------
(* The counts of a history row *)

\* What CountsExplainStatus says of one row and the job it names.
Explains(row, job) ==
  /\ row.package_count = Cardinality(DOMAIN job.items)
  /\ IF row.status = "abandoned" \/ job.action = "UPDATE_SYSTEM"
     THEN row.successful_count = 0 /\ row.failed_count = 0
     ELSE /\ row.successful_count + row.failed_count = row.package_count
          /\ row.status = "success" <=> row.failed_count = 0
          /\ row.status = "failed"  <=> row.successful_count = 0

LEMMA CountsByRow ==
  CountsExplainStatus <=>
    \A i \in 1..Len(history) :
      history[i].job \in JobIds /\ Explains(history[i], jobs[history[i].job])
  BY DEF CountsExplainStatus, Explains

\* The two counts of a list of results add up, and tell which are empty.
LEMMA CountsAddUp ==
  ASSUME NEW rows \in PackageRows
  PROVE  /\ Cardinality(Successful(rows)) + Cardinality(Failed(rows))
              = Cardinality(DOMAIN rows)
         /\ Cardinality(Successful(rows)) = 0 <=> Successful(rows) = {}
         /\ Cardinality(Failed(rows)) = 0 <=> Failed(rows) = {}
<1> DEFINE good == Successful(rows)
           bad == Failed(rows)
<1>1. IsFiniteSet(DOMAIN rows)
  BY PackageCounts
<1>2. good \cup bad = DOMAIN rows /\ good \cap bad = {}
  BY DEF Successful, Failed
<1>3. IsFiniteSet(good) /\ IsFiniteSet(bad)
  <2>1. good \subseteq DOMAIN rows /\ bad \subseteq DOMAIN rows
    BY <1>2
  <2> QED
    BY <1>1, <2>1, FS_Subset
<1> HIDE DEF good, bad
<1>4. Cardinality(good) \in Nat /\ Cardinality(bad) \in Nat /\ Cardinality(good \cap bad) = 0
  BY <1>2, <1>3, FS_CardinalityType, FS_EmptySet
<1>5. Cardinality(good \cup bad) = Cardinality(good) + Cardinality(bad) - Cardinality(good \cap bad)
  BY <1>3, FS_Union
<1>6. Cardinality(good) + Cardinality(bad) = Cardinality(DOMAIN rows)
  BY <1>2, <1>4, <1>5
<1>7. (Cardinality(good) = 0 <=> good = {}) /\ (Cardinality(bad) = 0 <=> bad = {})
  BY <1>3, FS_EmptySet
<1> QED
  BY <1>6, <1>7 DEF good, bad

\* The row a result writes.
LEMMA ResultExplains ==
  ASSUME Typed, NEW t \in Threads, ResultWrite(t)
  PROVE  Explains(history'[Len(history) + 1], jobs[request[t].job])
<1> DEFINE r == request[t]
           job == jobs[r.job]
           row == history'[Len(history) + 1]
           good == Cardinality(Successful(r.results))
           bad == Cardinality(Failed(r.results))
<1>1. /\ row.status = r.status
      /\ row.package_count = Cardinality(DOMAIN r.results)
      /\ row.successful_count = good
      /\ row.failed_count = bad
  BY ResultRow
<1>2. /\ r.job \in JobIds /\ StaleButSound(r)
      /\ r.results \in PackageRows
      /\ DOMAIN r.results = DOMAIN job.items
      /\ r.status \in ResultStatuses
  BY ResultEffect
<1>3. ResultFits(r)
  BY <1>2 DEF StaleButSound, ResultWrite, AtStep
<1>4. /\ good + bad = Cardinality(DOMAIN r.results)
      /\ good = 0 <=> Successful(r.results) = {}
      /\ bad = 0 <=> Failed(r.results) = {}
  BY <1>2, CountsAddUp
<1>5. job.action = "UPDATE_SYSTEM" <=> DOMAIN r.results = {}
  BY <1>2 DEF Typed, OnlySystemJobsAreEmpty
<1>6. row.status # "abandoned"
  BY <1>1, <1>2 DEF ResultStatuses
<1>7. CASE job.action = "UPDATE_SYSTEM"
  <2>1. Successful(r.results) = {} /\ Failed(r.results) = {}
    BY <1>5, <1>7 DEF Successful, Failed
  <2>2. good = 0 /\ bad = 0
    BY <1>4, <2>1
  <2> HIDE DEF good, bad, row, job
  <2> QED
    BY <1>1, <1>2, <1>7, <2>2 DEF Explains, job, row
<1>8. CASE job.action # "UPDATE_SYSTEM"
  <2>1. r.status = DerivedStatus(r.results)
    BY <1>3, <1>8 DEF ResultFits
  <2>2. Successful(r.results) # {} \/ Failed(r.results) # {}
    <3>1. PICK p \in DOMAIN r.results : TRUE
      BY <1>5, <1>8
    <3> QED
      BY DEF Successful, Failed
  <2>3. /\ r.status = "success" <=> Failed(r.results) = {}
        /\ r.status = "failed" <=> Successful(r.results) = {}
    BY <2>1, <2>2 DEF DerivedStatus
  <2>4. /\ row.successful_count + row.failed_count = row.package_count
        /\ row.status = "success" <=> row.failed_count = 0
        /\ row.status = "failed" <=> row.successful_count = 0
        /\ row.package_count = Cardinality(DOMAIN job.items)
    <3> HIDE DEF good, bad, row, job
    <3> QED
      BY <1>1, <1>2, <1>4, <2>3
  <2> HIDE DEF row, job
  <2>5. Explains(row, job)
    BY <1>6, <1>8, <2>4 DEF Explains
  <2> QED
    BY <2>5 DEF row, job
<1> QED
  BY <1>7, <1>8

LEMMA AbandonExplains ==
  ASSUME Typed, NEW t \in Threads, AbandonWrite(t)
  PROVE  /\ history'[Len(history) + 1].job = request[t].job
         /\ Explains(history'[Len(history) + 1], jobs[request[t].job])
<1> DEFINE total == Cardinality(DOMAIN jobs[request[t].job].items)
           row == history'[Len(history) + 1]
<1>1. row = HistoryRow(request[t], "abandoned", total, 0, 0)
  BY AbandonEffect
<1>2. /\ row.job = request[t].job /\ row.status = "abandoned" /\ row.package_count = total
      /\ row.successful_count = 0 /\ row.failed_count = 0
  BY <1>1 DEF HistoryRow
<1> QED
  BY <1>2 DEF Explains

\* A job keeps what its history row is explained by.
LEMMA ExplainedKept ==
  ASSUME Typed, [Next]_vars, NEW row, NEW j \in JobIds, Explains(row, jobs[j])
  PROVE  j \in JobIds' /\ Explains(row, jobs'[j])
<1>1. jobs'[j].action = jobs[j].action /\ DOMAIN jobs'[j].items = DOMAIN jobs[j].items
  BY OwnerStep
<1>2. JobIds \subseteq JobIds'
  <2>1. CASE QuietStep
    BY <2>1, QuietKeepsTables DEF JobIds
  <2>2. ASSUME NEW t \in Threads, CreateWrite(t)
        PROVE  JobIds \subseteq JobIds'
    BY <2>2, CreateEffect
  <2> QED
    BY <2>1, <2>2, StepCases, ClaimEffect, CheckpointEffect, ResultEffect, AbandonEffect
<1> QED
  BY <1>1, <1>2 DEF Explains

LEMMA CountsNext == Typed /\ CountsExplainStatus /\ [Next]_vars => CountsExplainStatus'
<1> SUFFICES ASSUME Typed, CountsExplainStatus, [Next]_vars
             PROVE  CountsExplainStatus'
  OBVIOUS
<1>1. \A i \in 1..Len(history) :
        history[i].job \in JobIds /\ Explains(history[i], jobs[history[i].job])
  BY CountsByRow
<1>2. \A i \in 1..Len(history) :
        history[i].job \in JobIds' /\ Explains(history[i], jobs'[history[i].job])
  BY <1>1, ExplainedKept
<1>3. ASSUME UNCHANGED history
      PROVE  CountsExplainStatus'
  BY <1>2, <1>3 DEF CountsExplainStatus, Explains
<1>4. ASSUME NEW row, NEW j \in JobIds, row.job = j, Explains(row, jobs[j]),
             Len(history') = Len(history) + 1,
             \A i \in 1..Len(history) : history'[i] = history[i],
             history'[Len(history) + 1] = row
      PROVE  CountsExplainStatus'
  <2>1. j \in JobIds' /\ Explains(row, jobs'[j])
    BY <1>4, ExplainedKept
  <2>2. Len(history) \in Nat
    BY LenProperties DEF Typed, TypeOK
  <2>3. \A i \in 1..Len(history') : i \in 1..Len(history) \/ i = Len(history) + 1
    BY <1>4, <2>2
  <2>4. ASSUME NEW i \in 1..Len(history')
        PROVE  history'[i].job \in JobIds' /\ Explains(history'[i], jobs'[history'[i].job])
    BY <1>2, <1>4, <2>1, <2>3
  <2> QED
    BY <2>4 DEF CountsExplainStatus, Explains
<1>5. CASE QuietStep
  BY <1>3, <1>5, QuietKeepsTables
<1>6. ASSUME NEW t \in Threads, CreateWrite(t) \/ Claim(t) \/ CheckpointWrite(t)
      PROVE  CountsExplainStatus'
  BY <1>3, <1>6 DEF CreateWrite, Claim, CheckpointWrite
<1>7. ASSUME NEW t \in Threads, ResultWrite(t)
      PROVE  CountsExplainStatus'
  <2>1. /\ request[t].job \in JobIds
        /\ Len(history') = Len(history) + 1
        /\ \A i \in 1..Len(history) : history'[i] = history[i]
    BY <1>7, ResultEffect
  <2>2. history'[Len(history) + 1].job = request[t].job
    BY <1>7, ResultRow
  <2> QED
    BY <1>4, <1>7, <2>1, <2>2, ResultExplains
<1>8. ASSUME NEW t \in Threads, AbandonWrite(t)
      PROVE  CountsExplainStatus'
  <2>1. /\ request[t].job \in JobIds
        /\ Len(history') = Len(history) + 1
        /\ \A i \in 1..Len(history) : history'[i] = history[i]
    BY <1>8, AbandonEffect
  <2> QED
    BY <1>4, <1>8, <2>1, AbandonExplains
<1> QED
  BY <1>5, <1>6, <1>7, <1>8, StepCases

\* A history row counts every package of the job it names, and its status is the
\* one its counts derive, whatever was checkpointed before or after it.
THEOREM CountsAreExplained == Spec => []CountsExplainStatus
<1>1. Init => CountsExplainStatus
  BY EmptySeq DEF Init, CountsExplainStatus
<1> QED
  BY <1>1, InitTyped, NextTyped, CountsNext, PTL DEF Spec

-----------------------------------------------------------------------------
(* The store implements the lifecycle *)

InBounds == Len(jobs) <= MaxJobs

LEMMA NextInBounds == Typed /\ InBounds /\ [Next]_vars => InBounds'
<1> SUFFICES ASSUME Typed, InBounds, [Next]_vars PROVE InBounds'
  OBVIOUS
<1>1. CASE QuietStep
  BY <1>1, QuietKeepsTables DEF InBounds
<1>2. ASSUME NEW t \in Threads, CreateWrite(t)
      PROVE  InBounds'
  <2>1. Len(jobs') = Len(jobs) + 1
    BY <1>2, CreateEffect
  <2>2. Len(jobs) < MaxJobs
    BY <1>2 DEF CreateWrite
  <2>3. Len(jobs) \in Nat
    BY LenProperties DEF Typed, TypeOK
  <2> QED
    BY <2>1, <2>2, <2>3, BoundsAssumption DEF InBounds
<1>3. ASSUME JobIds' = JobIds, jobs' \in Seq(JobRows)
      PROVE  InBounds'
  <2>1. Len(jobs) \in Nat /\ Len(jobs') \in Nat
    BY <1>3, LenProperties DEF Typed, TypeOK
  <2>2. Len(jobs') = Len(jobs)
    BY <1>3, <2>1 DEF JobIds
  <2> QED
    BY <2>2 DEF InBounds
<1>4. ASSUME NEW t \in Threads,
             Claim(t) \/ CheckpointWrite(t) \/ ResultWrite(t) \/ AbandonWrite(t)
      PROVE  InBounds'
  BY <1>3, <1>4, ClaimEffect, CheckpointEffect, ResultEffect, AbandonEffect
<1> QED
  BY <1>1, <1>2, <1>4, StepCases

\* A row of history is an entry of the log.
LEMMA LogGrows ==
  ASSUME TypeOK,
         Len(history') = Len(history) + 1,
         \A i \in 1..Len(history) : history'[i] = history[i]
  PROVE  Log' = Append(Log, [job |-> history'[Len(history) + 1].job,
                             outcome |-> history'[Len(history) + 1].status])
<1> DEFINE n == Len(history)
           entry == [job |-> history'[n + 1].job, outcome |-> history'[n + 1].status]
<1>1. n \in Nat
  BY LenProperties DEF TypeOK
<1>2. Log \in Seq({Log[i] : i \in 1..n}) /\ Len(Log) = n
  BY <1>1 DEF Log
<1>3. Append(Log, entry) = [i \in 1..(n + 1) |-> IF i = n + 1 THEN entry ELSE Log[i]]
  BY <1>1, <1>2
<1>4. Log' = [i \in 1..(n + 1) |-> [job |-> history'[i].job, outcome |-> history'[i].status]]
  BY DEF Log
<1>5. \A i \in 1..(n + 1) :
        [job |-> history'[i].job, outcome |-> history'[i].status]
          = IF i = n + 1 THEN entry ELSE Log[i]
  BY <1>1 DEF Log
<1> QED
  BY <1>3, <1>4, <1>5

LEMMA PhaseMoves ==
  ASSUME Typed, InBounds, NEW k \in JobIds, JobIds' = JobIds, NEW status,
         \A j \in JobIds : jobs'[j].status = IF j = k THEN status ELSE jobs[j].status
  PROVE  Phase' = [Phase EXCEPT ![k] = status] /\ k \in 1..MaxJobs /\ Phase[k] = jobs[k].status
<1>1. k \in 1..MaxJobs
  BY LenProperties, BoundsAssumption DEF Typed, TypeOK, InBounds, JobIds
<1> QED
  BY <1>1 DEF Phase

THEOREM LifecycleInit == Init => Lifecycle!Init
  BY EmptySeq DEF Init, Lifecycle!Init, JobIds, Phase, Log

THEOREM LifecycleStep ==
  Typed /\ InBounds /\ [Next]_vars => [Lifecycle!Next]_(Lifecycle!lifecycleVars)
<1> SUFFICES ASSUME Typed, InBounds, [Next]_vars
             PROVE  Lifecycle!Next \/ (Phase' = Phase /\ Log' = Log)
  BY DEF Lifecycle!lifecycleVars
<1>1. CASE QuietStep
  BY <1>1, QuietKeepsTables DEF Phase, Log, JobIds
<1>2. ASSUME NEW t \in Threads, CreateWrite(t)
      PROVE  Lifecycle!Create(Len(jobs) + 1) /\ Len(jobs) + 1 \in 1..MaxJobs
  <2> DEFINE n == Len(jobs) + 1
  <2>1. Len(jobs) \in Nat /\ n \in 1..MaxJobs /\ n \notin JobIds
    BY <1>2, LenProperties, BoundsAssumption DEF CreateWrite, Typed, TypeOK, JobIds
  <2>2. JobIds' = JobIds \cup {n} /\ (\A i \in JobIds : jobs'[i] = jobs[i])
    BY <1>2, CreateEffect
  <2>3. jobs'[n].status = "pending"
    BY <1>2, CreateFields
  <2>4. Phase' = [Phase EXCEPT ![n] = "pending"] /\ Phase[n] = "absent"
    BY <2>1, <2>2, <2>3 DEF Phase
  <2>5. \A i \in 1..MaxJobs : i < n => Phase[i] # "absent"
    <3> SUFFICES ASSUME NEW i \in 1..MaxJobs, i < n PROVE Phase[i] # "absent"
      OBVIOUS
    <3>1. i \in JobIds
      BY <2>1 DEF JobIds
    <3>2. jobs[i].status \in JobStatuses
      BY <3>1, JobRow DEF Typed, JobRows
    <3> QED
      BY <3>1, <3>2 DEF Phase, JobStatuses, FinishedStatuses, ResultStatuses
  <2>6. Log' = Log
    BY <1>2 DEF CreateWrite, Log
  <2> QED
    BY <2>1, <2>4, <2>5, <2>6 DEF Lifecycle!Create
<1>3. ASSUME NEW t \in Threads, Claim(t)
      PROVE  Lifecycle!Start(request[t].job) /\ request[t].job \in 1..MaxJobs
  <2>1. /\ request[t].job \in JobIds
        /\ JobIds' = JobIds
        /\ jobs[request[t].job].status = "pending"
    BY <1>3, ClaimEffect
  <2>2. \A j \in JobIds : jobs'[j].status =
          IF j = request[t].job THEN "running" ELSE jobs[j].status
    BY <1>3, ClaimFields
  <2>3. Log' = Log
    BY <1>3 DEF Claim, Log
  <2> QED
    BY <2>1, <2>2, <2>3, PhaseMoves DEF Lifecycle!Start
<1>4. ASSUME NEW t \in Threads, CheckpointWrite(t)
      PROVE  Phase' = Phase /\ Log' = Log
  <2>1. JobIds' = JobIds /\ \A j \in JobIds : jobs'[j].status = jobs[j].status
    BY <1>4, CheckpointEffect, CheckpointFields
  <2> QED
    BY <1>4, <2>1 DEF Phase, Log, CheckpointWrite
<1>5. ASSUME NEW t \in Threads, ResultWrite(t)
      PROVE  /\ Lifecycle!Finish(request[t].job, request[t].status)
             /\ request[t].job \in 1..MaxJobs
             /\ request[t].status \in FinishedStatuses
  <2>1. /\ request[t].job \in JobIds
        /\ JobIds' = JobIds
        /\ jobs[request[t].job].status = "running"
        /\ Len(history') = Len(history) + 1
        /\ \A i \in 1..Len(history) : history'[i] = history[i]
    BY <1>5, ResultEffect
  <2>2. \A j \in JobIds : jobs'[j].status =
          IF j = request[t].job THEN request[t].status ELSE jobs[j].status
    BY <1>5, ResultFields
  <2>3. Log' = Append(Log, [job |-> request[t].job, outcome |-> request[t].status])
    BY <1>5, <2>1, LogGrows, ResultRow DEF Typed
  <2>4. request[t].status \in FinishedStatuses
    BY <1>5, ResultStatus DEF FinishedStatuses
  <2> QED
    BY <2>1, <2>2, <2>3, <2>4, PhaseMoves DEF Lifecycle!Finish
<1>6. ASSUME NEW t \in Threads, AbandonWrite(t)
      PROVE  /\ Lifecycle!Finish(request[t].job, "abandoned")
             /\ request[t].job \in 1..MaxJobs
  <2>1. /\ request[t].job \in JobIds
        /\ JobIds' = JobIds
        /\ jobs[request[t].job].status = "running"
        /\ Len(history') = Len(history) + 1
        /\ \A i \in 1..Len(history) : history'[i] = history[i]
    BY <1>6, AbandonEffect
  <2>2. \A j \in JobIds : jobs'[j].status =
          IF j = request[t].job THEN "abandoned" ELSE jobs[j].status
    BY <1>6, AbandonFields
  <2>3. /\ history'[Len(history) + 1].job = request[t].job
        /\ history'[Len(history) + 1].status = "abandoned"
    BY <1>6, AbandonEffect, HistoryRowFields
  <2>4. Log' = Append(Log, [job |-> request[t].job, outcome |-> "abandoned"])
    BY <2>1, <2>3, LogGrows DEF Typed
  <2> QED
    BY <2>1, <2>2, <2>4, PhaseMoves DEF Lifecycle!Finish
<1>7. "abandoned" \in FinishedStatuses
  BY DEF FinishedStatuses
<1>8. ASSUME NEW t \in Threads,
             CreateWrite(t) \/ Claim(t) \/ ResultWrite(t) \/ AbandonWrite(t)
      PROVE  Lifecycle!Next
  BY <1>2, <1>3, <1>5, <1>6, <1>7, <1>8 DEF Lifecycle!Next
<1> QED
  BY <1>1, <1>4, <1>8, StepCases

\* Every behaviour of the store, with all its stale reads and conflicts, is one of
\* the abstract lifecycle: created once, handed out once, ended at most once, and
\* logged in the same step.
THEOREM LifecycleImplemented == Spec => ImplementsLifecycle
<1>1. Init => InBounds
  BY EmptySeq, BoundsAssumption DEF Init, InBounds
<1> QED
  BY <1>1, LifecycleInit, LifecycleStep, InitTyped, NextTyped, NextInBounds, PTL
  DEF Spec, ImplementsLifecycle, Lifecycle!Spec

=============================================================================
