------------------------------ MODULE SocInbox ------------------------------
(***************************************************************************)
(* The inbox of the SOC: collectors put events into it by HTTP             *)
(* (server/soc/collector_api.py), workers claim them one at a time and     *)
(* finish or fail them (server/soc/worker.py); both use the tables of      *)
(* server/soc/collector_store.py.  Every operation of the store is one     *)
(* BEGIN IMMEDIATE transaction and one action here.                        *)
(*                                                                         *)
(* A worker keeps its claim in memory.  It may die with it at any time;    *)
(* the claim then goes stale, and so does that of a worker which is only   *)
(* slow.  Claim tokens are fresh UUIDs: the number of the attempt stands   *)
(* for it, which no other claim of the same row has.                       *)
(*                                                                         *)
(* What a worker makes of an event between its claim and its last          *)
(* transaction is left open here and filled in by SocPipeline.             *)
(***************************************************************************)
EXTENDS Naturals, Sequences, FiniteSets

CONSTANTS
  Agents,        \* collector ids
  Certificates,  \* fingerprints of verified client certificates
  EventIds,      \* event ids a collector uses
  Payloads,      \* contents of an event, as their digests
  Batches,       \* BOUND: the lists of [event, payload] a collector sends
  Workers,       \* worker processes
  MaxAttempts,   \* max_attempts of every worker
  BatchSize,     \* batch_size of every worker
  None           \* no agent, no row, a NULL column

ASSUME BatchesAssumption ==
  Batches \subseteq Seq([event : EventIds, payload : Payloads])
ASSUME LimitsAssumption ==
  MaxAttempts \in Nat \ {0} /\ BatchSize \in Nat \ {0}
ASSUME NoneAssumption == None \notin Agents \cup Certificates

VARIABLES
  agents,   \* table soc_collector_agents
  inbox,    \* table soc_event_inbox; inbox_id is the index
  upload,   \* per certificate: the agent and the batch of the request in progress
  worker    \* the local state of every worker process

vars == <<agents, inbox, upload, worker>>

-----------------------------------------------------------------------------
(* Collectors: registration, revocation, ingestion *)

RowIds == 1..Len(inbox)

NewRow(agent, item) ==
  [agent |-> agent, event |-> item.event, payload |-> item.payload,
   status |-> "pending", attempts |-> 0, token |-> 0, stale |-> FALSE]

NoAgent  == [certificate |-> None, status |-> "unregistered"]
NoUpload == [agent |-> None, batch |-> <<>>]

\* register_agent: both the id and the certificate must be new.
Register(agent, certificate) ==
  /\ agents[agent] = NoAgent
  /\ \A other \in Agents : agents[other].certificate # certificate
  /\ agents' = [agents EXCEPT ![agent] = [certificate |-> certificate, status |-> "active"]]
  /\ UNCHANGED <<inbox, upload, worker>>

\* revoke_agent
Revoke(agent) ==
  /\ agents[agent].status = "active"
  /\ agents' = [agents EXCEPT ![agent].status = "revoked"]
  /\ UNCHANGED <<inbox, upload, worker>>

\* ingest_collector_events up to the validated body: the certificate belongs to
\* an active agent now.  A collector may send any batch, and any batch again.
Identify(certificate, agent, batch) ==
  /\ upload[certificate] = NoUpload
  /\ agents[agent] = [certificate |-> certificate, status |-> "active"]
  /\ upload' = [upload EXCEPT ![certificate] = [agent |-> agent, batch |-> batch]]
  /\ UNCHANGED <<agents, inbox, worker>>

Stored(agent, event) ==
  {i \in RowIds : inbox[i].agent = agent /\ inbox[i].event = event}

\* MUTANT: what is stored under an event id is not compared with what is sent.
ConflictsNever(agent, batch) == FALSE

\* An event id of this agent that was used for other content.
Conflicts(agent, batch) ==
  \E k \in DOMAIN batch : \E i \in Stored(agent, batch[k].event) :
    inbox[i].payload # batch[k].payload

RepeatsAnId(batch) ==
  \E j, k \in DOMAIN batch : j # k /\ batch[j].event = batch[k].event

\* The rows of the events that are new, in the order of the batch: there is one
\* such sequence.
NewItems(agent, batch) ==
  LET fresh == {k \in DOMAIN batch : Stored(agent, batch[k].event) = {}}
      Increasing(s) == \A m, n \in DOMAIN s : m < n => s[m] < s[n]
  IN {[n \in DOMAIN s |-> NewRow(agent, batch[s[n]])] :
        s \in {s \in [1..Cardinality(fresh) -> fresh] : Increasing(s)}}

Accepted(agent, batch) ==
  /\ ~RepeatsAnId(batch)
  /\ agents[agent].status = "active"
  /\ ~Conflicts(agent, batch)

\* CollectorStore.ingest_batch: all new events of the batch, or none of it.
IngestBatch(certificate) ==
  /\ upload[certificate] # NoUpload
  /\ LET request == upload[certificate] IN
       IF Accepted(request.agent, request.batch)
       THEN \E rows \in NewItems(request.agent, request.batch) : inbox' = inbox \o rows
       ELSE inbox' = inbox
  /\ upload' = [upload EXCEPT ![certificate] = NoUpload]
  /\ UNCHANGED <<agents, worker>>

-----------------------------------------------------------------------------
(* Claims *)

\* No time limit binds a worker: any claim may outlive stale_after_seconds.
GoStale(i) ==
  /\ inbox[i].status = "processing" /\ ~inbox[i].stale
  /\ inbox' = [inbox EXCEPT ![i].stale = TRUE]
  /\ UNCHANGED <<agents, upload, worker>>

\* MUTANT: the first failure is final.
ReleasedAtOnce(row) == [row EXCEPT !.status = "failed", !.token = 0, !.stale = FALSE]

\* A row whose claim is given up: another attempt, or none left.
Released(row) ==
  [row EXCEPT !.status = IF row.attempts >= MaxAttempts THEN "failed" ELSE "pending",
              !.token = 0, !.stale = FALSE]

\* MUTANT: nobody takes back an expired claim.
RecoveredNever(rows) == rows

\* MUTANT: recovery takes every claim, however young.
RecoveredAll(rows) ==
  [i \in DOMAIN rows |->
     IF rows[i].status = "processing" THEN Released(rows[i]) ELSE rows[i]]

\* _recover_stale_claims_in_transaction
Recovered(rows) ==
  [i \in DOMAIN rows |->
     IF rows[i].status = "processing" /\ rows[i].stale THEN Released(rows[i]) ELSE rows[i]]

Due(rows, last) ==
  {i \in DOMAIN rows :
     rows[i].status = "pending" /\ rows[i].attempts < MaxAttempts /\ i > last}

Claimed(row) ==
  [row EXCEPT !.status = "processing", !.attempts = @ + 1, !.token = row.attempts + 1]

\* MUTANT: any claim of the row will do.
OwnsRow(w) == inbox[worker[w].row].status = "processing"

\* The guard of every statement that ends a claim.
Owns(w) ==
  LET row == inbox[worker[w].row]
  IN row.status = "processing" /\ row.token = worker[w].token

-----------------------------------------------------------------------------
(* Workers: SOCWorker.run_once in a loop, under a supervisor *)

\* Without a claim, at the start of a batch.
AtStart == [pc |-> "claiming", row |-> 0, token |-> 0, taken |-> 0, last |-> 0]
Down    == [AtStart EXCEPT !.pc = "down"]

Goes(w, pc) == worker' = [worker EXCEPT ![w].pc = pc]

\* The rows as this worker's claim sees them: recovery comes with the first
\* claim of a batch.
Visible(w) == IF worker[w].taken = 0 THEN Recovered(inbox) ELSE inbox

\* claim_next_pending finds the oldest due row after the last one it took.
ClaimNext(w) ==
  /\ worker[w].pc = "claiming" /\ worker[w].taken < BatchSize
  /\ \E i \in Due(Visible(w), worker[w].last) :
       /\ \A j \in Due(Visible(w), worker[w].last) : i <= j
       /\ inbox' = [Visible(w) EXCEPT ![i] = Claimed(@)]
       /\ worker' = [worker EXCEPT ![w] =
            [pc |-> "holding", row |-> i, token |-> Visible(w)[i].attempts + 1,
             taken |-> worker[w].taken + 1, last |-> i]]
  /\ UNCHANGED <<agents, upload>>

\* No row is due, or the batch is full: run_once returns and begins anew.
EndBatch(w) ==
  /\ worker[w].pc = "claiming"
  /\ IF worker[w].taken < BatchSize
     THEN Due(Visible(w), worker[w].last) = {} /\ inbox' = Visible(w)
     ELSE inbox' = inbox
  /\ worker' = [worker EXCEPT ![w] = AtStart]
  /\ UNCHANGED <<agents, upload>>

\* _process_claim up to its transaction: history, pipeline, builder.
Evaluate(w) ==
  /\ worker[w].pc = "holding"
  /\ Goes(w, "evaluated")
  /\ UNCHANGED <<agents, inbox, upload>>

\* An exception of _process_claim; its transaction, if begun, is rolled back.
ProcessingRaises(w) ==
  /\ worker[w].pc \in {"holding", "evaluated"}
  /\ Goes(w, "failing")
  /\ UNCHANGED <<agents, inbox, upload>>

\* The transaction of _process_claim by the owner of the claim.
Finalize(w) ==
  /\ worker[w].pc = "evaluated" /\ Owns(w)
  /\ inbox' = [inbox EXCEPT ![worker[w].row] =
                 [@ EXCEPT !.status = "processed", !.token = 0, !.stale = FALSE]]
  /\ Goes(w, "claiming")
  /\ UNCHANGED <<agents, upload>>

\* ClaimOwnershipLost: counted, and the batch goes on.
LoseClaim(w) ==
  /\ worker[w].pc = "evaluated" /\ ~Owns(w)
  /\ Goes(w, "claiming")
  /\ UNCHANGED <<agents, inbox, upload>>

\* fail_claim by the owner of the claim.
RecordFailure(w) ==
  /\ worker[w].pc = "failing" /\ Owns(w)
  /\ inbox' = [inbox EXCEPT ![worker[w].row] = Released(@)]
  /\ Goes(w, "claiming")
  /\ UNCHANGED <<agents, upload>>

\* fail_claim without the claim: run_once raises and the process exits.
AbortBatch(w) ==
  /\ worker[w].pc = "failing" /\ ~Owns(w)
  /\ worker' = [worker EXCEPT ![w] = Down]
  /\ UNCHANGED <<agents, inbox, upload>>

\* The process is killed, or an error of the database ends it.
Crash(w) ==
  /\ worker[w].pc # "down"
  /\ worker' = [worker EXCEPT ![w] = Down]
  /\ UNCHANGED <<agents, inbox, upload>>

\* The supervisor starts it again.
Restart(w) ==
  /\ worker[w].pc = "down"
  /\ worker' = [worker EXCEPT ![w] = AtStart]
  /\ UNCHANGED <<agents, inbox, upload>>

-----------------------------------------------------------------------------

Init ==
  /\ agents = [a \in Agents |-> NoAgent]
  /\ inbox = <<>>
  /\ upload = [c \in Certificates |-> NoUpload]
  /\ worker = [w \in Workers |-> Down]

Collects ==
  \/ \E a \in Agents, c \in Certificates : Register(a, c)
  \/ \E a \in Agents : Revoke(a)
  \/ \E c \in Certificates, a \in Agents, b \in Batches : Identify(c, a, b)
  \/ \E c \in Certificates : IngestBatch(c)

Works(w) ==
  \/ ClaimNext(w) \/ EndBatch(w) \/ Evaluate(w) \/ ProcessingRaises(w)
  \/ Finalize(w) \/ LoseClaim(w) \/ RecordFailure(w) \/ AbortBatch(w) \/ Restart(w)

Next ==
  \/ Collects
  \/ \E i \in RowIds : GoStale(i)
  \/ \E w \in Workers : Works(w) \/ Crash(w)

Spec == Init /\ [][Next]_vars

\* A claim that nobody ends goes stale; the supervisor restarts a worker, and a
\* worker that is restarted again and again does get as far as
\* its first transaction.
Fairness ==
  /\ WF_vars(\E i \in RowIds : GoStale(i))
  /\ \A w \in Workers : WF_vars(Works(w)) /\ SF_vars(ClaimNext(w) \/ EndBatch(w))

FairSpec == Spec /\ Fairness

=============================================================================
