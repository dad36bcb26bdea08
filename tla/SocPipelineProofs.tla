------------------------- MODULE SocPipelineProofs -------------------------
(***************************************************************************)
(* The SOC worker as a whole, for any workers, events, rule catalogs and   *)
(* limits.                                                                 *)
(*                                                                         *)
(* Every step is a step of the inbox or leaves it alone: a worker that is  *)
(* stopped between two batches looks like one that crashed.  So whatever   *)
(* SocInboxProofs shows of the inbox holds here.                           *)
(*                                                                         *)
(* PipelineInv says, besides, of what a worker has found for its row and   *)
(* not saved yet that it rests on processed rows and on that row, and that *)
(* it reports the matches of that row or another processed row with the    *)
(* same content does.                                                      *)
(*                                                                         *)
(* AloneInv says of a single worker that it claims rows in the order they  *)
(* came in, so that at the first attempt of a row all that was processed   *)
(* came before it; what it has found then reports every burst the row      *)
(* completes.                                                              *)
(***************************************************************************)
EXTENDS MCSocPipeline, SocInboxProofs, SocAnalysisProofs

-----------------------------------------------------------------------------
(* The inbox of the pipeline *)

LEMMA StopIsCrash ==
  ASSUME NEW w \in Workers, StopWorker(w)
  PROVE  Crash(w)
<1>1. worker[w].pc = "claiming"
  BY DEF StopWorker, AtStart
<1> QED
  BY <1>1 DEF StopWorker, Crash

LEMMA WorkersUseInbox ==
  ASSUME NEW w \in Workers, PWorks(w) \/ PCrash(w)
  PROVE  Next
<1>1. CASE StopWorker(w)
  BY <1>1, StopIsCrash DEF Next
<1>2. CASE ~StopWorker(w)
  BY <1>2
  DEF PWorks, PCrash, EvaluateClaim, EvaluationRaises, FinalizeClaim, SaveRaises, Interrupted,
      StartWorker, Works, Next
<1> QED
  BY <1>1, <1>2

LEMMA StepUsesInbox == [PNext]_pvars => [Next]_vars
<1> SUFFICES ASSUME [PNext]_pvars PROVE [Next]_vars
  OBVIOUS
<1>1. CASE UNCHANGED pvars
  BY <1>1 DEF pvars
<1>2. CASE PCollects \/ PStale
  BY <1>2 DEF PCollects, PStale, Next
<1>3. ASSUME NEW c \in Catalogs, InstallCatalog(c) PROVE UNCHANGED vars
  BY <1>3 DEF InstallCatalog
<1>4. ASSUME NEW id \in DOMAIN incidents, NEW new \in Store!Statuses, Operate(id, new)
      PROVE  UNCHANGED vars
  BY <1>4 DEF Operate
<1> QED
  BY <1>1, <1>2, <1>3, <1>4, WorkersUseInbox DEF PNext

\* With rules, incidents, restarts and operators, the workers use the inbox
\* only as SocInbox describes: what is shown of it holds for SOCWorker.
THEOREM PipelineUsesInbox == PSpec => Spec
<1>1. PInit => Init
  BY DEF PInit
<1> QED
  BY <1>1, StepUsesInbox, PTL DEF PSpec, Spec

\* A worker that holds a claim which is not stale is the only one to touch its
\* row, whatever the analysis of the others does.
THEOREM PipelineClaimsAreSafe == PSpec => FreshClaimIsSafe
BY PipelineUsesInbox, FreshClaimAlwaysSafe

\* An accepted event stays stored as it was sent, while workers analyse.
THEOREM PipelineStoresAccepted == PSpec => AcceptedIsStored
BY PipelineUsesInbox, AcceptedAlwaysStored

\* To its collector the SOC worker as a whole is SocEventLifecycle.
THEOREM PipelineImplementsLifecycle == PSpec => ImplementsEventLifecycle
BY PipelineUsesInbox, InboxImplementsLifecycle

-----------------------------------------------------------------------------
(* The batch that is analysed for a row *)

EngineEvents == {EventOf(row) : row \in InboxRow}

LEMMA EngineEventsPlaced == Placed(EngineEvents)
<1> SUFFICES ASSUME NEW row \in InboxRow
             PROVE  EventOf(row).id \in Int /\ EventOf(row).time \in Int
  BY DEF Placed, EngineEvents
<1>1. row.agent \in Agents /\ row.event \in EventIds /\ row.payload \in Payloads
  BY DEF InboxRow
<1>2. IdOf(row.agent, row.event) \in Int
  BY <1>1, IdsAssumption
<1>3. row.payload.time \in Int
  BY <1>1, PayloadsAssumption
<1> QED
  BY <1>2, <1>3 DEF EventOf

\* The batch for a row holds events of processed rows before it, and then its own.
LEMMA BatchIs ==
  ASSUME InboxInv, NEW i \in RowIds, NEW rules
  PROVE  LET b == Batch(i, rules)
         IN /\ b \in Seq(EngineEvents) /\ Len(b) \in Nat \ {0}
            /\ b[Len(b)] = EventOf(inbox[i])
            /\ \A k \in 1..(Len(b) - 1) : \E j \in Processed : j < i /\ b[k] = EventOf(inbox[j])
<1> DEFINE S == InWindow(i, rules)
           n == Cardinality(S)
           rows == Ascending(S)
<1>1. /\ i \in Nat /\ Len(inbox) \in Nat /\ i <= Len(inbox)
      /\ \A j \in RowIds : EventOf(inbox[j]) \in EngineEvents
  BY DEF InboxInv, RowsFit, RowFits, RowIds, EngineEvents
<1>2. \A j \in S : j \in Processed /\ j < i /\ j \in Nat
  BY <1>1 DEF InWindow, Processed, RowIds
<1>3. S \in SUBSET (1..(i - 1))
  BY DEF InWindow
<1>4. IsFiniteSet(S)
  <2>1. IsFiniteSet(1..(i - 1))
    BY <1>1, FS_Interval
  <2> QED
    BY <1>3, <2>1, FS_Subset
<1>5. n \in Nat /\ rows \in [1..n -> S]
  <2>1. S \in SUBSET Nat
    BY <1>2
  <2> HIDE DEF S
  <2> QED
    BY <1>4, <2>1, NumbersListed
<1>6. Len(rows) = n
  <2> HIDE DEF rows, S
  <2> QED
    BY <1>5
<1> DEFINE from == IF n > HistoryLimit THEN n - HistoryLimit ELSE 0
           past == [k \in 1..(n - from) |-> EventOf(inbox[rows[from + k]])]
<1>7. Historical(i, rules) = past
  BY <1>6 DEF Historical
<1>8. from \in 0..n
  BY <1>5, HistoryLimitAssumption
<1> HIDE DEF from, rows
<1>9. \A k \in 1..(n - from) : \E j \in Processed : j < i /\ past[k] = EventOf(inbox[j])
  <2> SUFFICES ASSUME NEW k \in 1..(n - from)
               PROVE  \E j \in Processed : j < i /\ past[k] = EventOf(inbox[j])
    OBVIOUS
  <2>1. from + k \in 1..n
    BY <1>5, <1>8
  <2>2. rows[from + k] \in S
    BY <1>5, <2>1
  <2> QED
    BY <1>2, <2>2
<1>10. n - from \in Nat /\ past \in Seq(EngineEvents) /\ Len(past) = n - from
  <2>1. n - from \in Nat
    BY <1>5, <1>8
  <2>2. \A k \in 1..(n - from) : past[k] \in EngineEvents
    BY <1>1, <1>9 DEF Processed
  <2>3. past \in [1..(n - from) -> EngineEvents]
    BY <2>2
  <2> HIDE DEF past
  <2> QED
    BY <2>1, <2>3
<1> HIDE DEF past
<1>11. Batch(i, rules) = Append(past, EventOf(inbox[i])) /\ EventOf(inbox[i]) \in EngineEvents
  BY <1>1, <1>7 DEF Batch
<1>12. /\ Batch(i, rules) \in Seq(EngineEvents) /\ Len(Batch(i, rules)) = Len(past) + 1
       /\ Batch(i, rules)[Len(past) + 1] = EventOf(inbox[i])
       /\ \A k \in 1..Len(past) : Batch(i, rules)[k] = past[k]
  BY <1>10, <1>11, AppendProperties
<1> HIDE DEF n
<1> QED
  BY <1>9, <1>10, <1>12

-----------------------------------------------------------------------------
(* Processed rows *)

\* A row that is processed stays so, and says what it said.
LEMMA ProcessedStays ==
  ASSUME InboxInv, Next, NEW i \in RowIds
  PROVE  /\ i \in RowIds'
         /\ inbox'[i].agent = inbox[i].agent /\ inbox'[i].event = inbox[i].event
         /\ EventOf(inbox'[i]) = EventOf(inbox[i])
         /\ i \in Processed => i \in Processed'
<1>1. /\ i \in RowIds' /\ Moves(inbox[i], inbox'[i])
      /\ inbox'[i].agent = inbox[i].agent /\ inbox'[i].event = inbox[i].event
      /\ inbox'[i].payload = inbox[i].payload
  BY RowMoves
<1>2. EventOf(inbox'[i]) = EventOf(inbox[i])
  BY <1>1 DEF EventOf
<1>3. i \in Processed => i \in Processed'
  BY <1>1 DEF Processed, Moves, Queued
<1> QED
  BY <1>1, <1>2, <1>3

\* Only the owner of a claim makes a row a processed one.
LEMMA OthersProcessNone ==
  ASSUME InboxInv,
         \/ Collects
         \/ \E i \in RowIds : GoStale(i)
         \/ \E w \in Workers : ClaimNext(w) \/ EndBatch(w) \/ RecordFailure(w)
         \/ UNCHANGED inbox
  PROVE  Processed' \subseteq Processed
<1> SUFFICES ASSUME NEW i \in RowIds', inbox'[i].status = "processed"
             PROVE  i \in RowIds /\ inbox[i].status = "processed"
  BY DEF Processed
<1>1. \A j \in RowIds : RowFits(inbox[j])
  BY DEF InboxInv, RowsFit
<1>2. \A j \in RowIds : Released(inbox[j]).status \in {"failed", "pending"}
  BY <1>1 DEF RowFits, InboxRow, Released
<1>3. CASE UNCHANGED inbox
  BY <1>3 DEF RowIds
<1>4. ASSUME NEW c \in Certificates, IngestBatch(c)
      PROVE  i \in RowIds /\ inbox[i].status = "processed"
  <2>1. i \in RowIds
    BY <1>4, IngestRows
  <2> QED
    BY <1>4, <2>1, IngestRows
<1>5. CASE Collects
  BY <1>3, <1>4, <1>5 DEF Collects, Register, Revoke, Identify
<1>6. ASSUME NEW j \in RowIds, GoStale(j)
      PROVE  i \in RowIds /\ inbox[i].status = "processed"
  <2>1. /\ i \in RowIds
        /\ inbox'[i] = IF i = j THEN [inbox[j] EXCEPT !.stale = TRUE] ELSE inbox[i]
    BY <1>6, GoStaleIs
  <2>2. inbox'[i].status = inbox[i].status
    BY <1>1, <2>1 DEF RowFits, InboxRow
  <2> QED
    BY <2>1, <2>2
<1>7. ASSUME NEW w \in Workers, ClaimNext(w)
      PROVE  i \in RowIds /\ inbox[i].status = "processed"
  <2>1. i \in RowIds
    BY <1>7, ClaimNextIs
  <2>2. PICK j \in RowIds :
          /\ inbox'[j].status = "processing"
          /\ \A l \in RowIds \ {j} :
               inbox'[l] # inbox[l] => inbox[l].stale /\ inbox'[l] = Released(inbox[l])
    BY <1>7, ClaimNextIs
  <2> QED
    BY <1>2, <2>1, <2>2
<1>8. ASSUME NEW w \in Workers, EndBatch(w)
      PROVE  i \in RowIds /\ inbox[i].status = "processed"
  <2>1. inbox' = Visible(w) \/ UNCHANGED inbox
    BY <1>8 DEF EndBatch
  <2>2. i \in RowIds
    BY <2>1, VisibleStep DEF RowIds
  <2>3. inbox'[i] # inbox[i] => inbox'[i] = Released(inbox[i])
    BY <2>1, <2>2, VisibleFits DEF InboxInv
  <2> QED
    BY <1>2, <2>2, <2>3
<1>9. ASSUME NEW w \in Workers, RecordFailure(w)
      PROVE  i \in RowIds /\ inbox[i].status = "processed"
  BY <1>2, <1>9, RecordFailureIs
<1> QED
  BY <1>3, <1>5, <1>6, <1>7, <1>8, <1>9

-----------------------------------------------------------------------------
(* From events to incidents *)

\* Some processed row, or row i, with the content of row i has its incident of the
\* rule among ids.
ReportsRule(ids, i, rule) ==
  Applies(rule, EventOf(inbox[i])) /\ rule.verdict[EventOf(inbox[i]).body] = "match" =>
    \E h \in Processed \cup {i} :
      /\ Fingerprint(EventOf(inbox[h])) = Fingerprint(EventOf(inbox[i]))
      /\ [kind |-> "detection", rule |-> rule.id, events |-> Ids({h})] \in ids

Reports(ids, i, cat) == \A rule \in cat.detection : ReportsRule(ids, i, rule)

Rests(ids, i) == \A id \in ids : id.events \subseteq Ids(Processed \cup {i})

IdsFound(w) == {incident.id : incident \in found[w]}

\* What a worker has found rests on processed events and its own, and reports them.
FoundFits ==
  \A w \in Workers : worker[w].pc = "evaluated" =>
    Rests(IdsFound(w), worker[w].row) /\ Reports(IdsFound(w), worker[w].row, loaded[w])

CatalogsLoaded ==
  /\ catalog \in Catalogs
  /\ loaded \in [Workers -> Catalogs]
  /\ DOMAIN found = Workers

PipelineInv ==
  InboxInv /\ CatalogsLoaded /\ FoundFits /\ IncidentsRestOnProcessed /\ NoDetectionLost

\* What is built from the batch of a row rests on processed rows and on that row.
LEMMA BuiltRests ==
  ASSUME InboxInv, NEW i \in RowIds, NEW cat \in Catalogs
  PROVE  Rests({incident.id : incident \in Incidents(Batch(i, cat), cat)}, i)
<1> SUFFICES ASSUME NEW incident \in Incidents(Batch(i, cat), cat), NEW x \in incident.id.events
             PROVE  x \in Ids(Processed \cup {i})
  BY DEF Rests
<1> DEFINE b == Batch(i, cat)
<1>1. /\ b \in Seq(EngineEvents) /\ Len(b) \in Nat \ {0}
      /\ b[Len(b)] = EventOf(inbox[i])
      /\ \A k \in 1..(Len(b) - 1) : \E j \in Processed : j < i /\ b[k] = EventOf(inbox[j])
  BY BatchIs
<1>2. RulesFit(cat.correlation)
  BY CatalogsAssumption DEF RulesFit
<1>3. PICK k \in 1..Len(b) : x = b[k].id
  <2> HIDE DEF b
  <2>1. incident \in Incidents(b, cat)
    BY DEF b
  <2>2. incident.id.events \subseteq {b[k].id : k \in 1..Len(b)}
    BY <1>1, <1>2, <2>1, EngineEventsPlaced, IncidentsRest
  <2> QED
    BY <2>2
<1> HIDE DEF b
<1>4. \E j \in Processed \cup {i} : b[k] = EventOf(inbox[j])
  <2>1. k = Len(b) \/ k \in 1..(Len(b) - 1)
    BY <1>1
  <2> QED
    BY <1>1, <2>1
<1>5. PICK j \in Processed \cup {i} : b[k] = EventOf(inbox[j])
  BY <1>4
<1>6. x = IdOf(inbox[j].agent, inbox[j].event)
  BY <1>3, <1>5 DEF EventOf
<1> QED
  BY <1>5, <1>6 DEF Ids

\* An id belongs to one row.
LEMMA IdsOnce ==
  ASSUME InboxInv, NEW i \in RowIds, NEW j \in RowIds,
         EventOf(inbox[i]).id = EventOf(inbox[j]).id
  PROVE  i = j
<1>1. \A h \in RowIds : inbox[h].agent \in Agents /\ inbox[h].event \in EventIds
  BY DEF InboxInv, RowsFit, RowFits, InboxRow
<1>2. IdOf(inbox[i].agent, inbox[i].event) = IdOf(inbox[j].agent, inbox[j].event)
  BY DEF EventOf
<1>3. inbox[i].agent = inbox[j].agent /\ inbox[i].event = inbox[j].event
  BY <1>1, <1>2, IdsAssumption
<1> QED
  BY <1>3 DEF InboxInv, RowsOnce

\* And it reports what the detection rules say of that row.
LEMMA BuiltReports ==
  ASSUME InboxInv, NEW i \in RowIds, NEW cat, NEW rule \in cat.detection
  PROVE  ReportsRule({incident.id : incident \in Incidents(Batch(i, cat), cat)}, i, rule)
<1> DEFINE b == Batch(i, cat)
           kept == Deduplicate(b).events
           e == EventOf(inbox[i])
<1> SUFFICES ASSUME Applies(rule, e), rule.verdict[e.body] = "match"
             PROVE  \E h \in Processed \cup {i} :
                      /\ Fingerprint(EventOf(inbox[h])) = Fingerprint(e)
                      /\ [kind |-> "detection", rule |-> rule.id, events |-> Ids({h})]
                           \in {incident.id : incident \in Incidents(b, cat)}
  BY DEF ReportsRule
<1>1. /\ b \in Seq(EngineEvents) /\ Len(b) \in Nat \ {0}
      /\ b[Len(b)] = e
      /\ \A k \in 1..(Len(b) - 1) : \E j \in Processed : j < i /\ b[k] = EventOf(inbox[j])
  BY BatchIs
<1> HIDE DEF b
<1>2. \A k \in 1..Len(b) : \E j \in Processed \cup {i} : b[k] = EventOf(inbox[j])
  <2> SUFFICES ASSUME NEW k \in 1..Len(b)
               PROVE  \E j \in Processed \cup {i} : b[k] = EventOf(inbox[j])
    OBVIOUS
  <2>1. k = Len(b) \/ k \in 1..(Len(b) - 1)
    BY <1>1
  <2> QED
    BY <1>1, <2>1
<1>3. SeenIs(EngineEvents, b, Len(b), Deduplicate(b))
  BY <1>1, DeduplicateIs
<1>4. ~\E k \in 1..(Len(b) - 1) : b[k].id = b[Len(b)].id
  <2> SUFFICES ASSUME NEW k \in 1..(Len(b) - 1), b[k].id = b[Len(b)].id PROVE FALSE
    OBVIOUS
  <2>1. PICK j \in Processed : j < i /\ b[k] = EventOf(inbox[j])
    BY <1>1
  <2>2. j \in RowIds /\ EventOf(inbox[j]).id = EventOf(inbox[i]).id
    BY <1>1, <2>1 DEF Processed
  <2>3. j = i
    BY <2>2, IdsOnce
  <2> QED
    BY <2>1, <2>3 DEF RowIds
<1>5. PICK k \in 1..Len(kept) : Fingerprint(kept[k]) = Fingerprint(e)
  <2>1. Len(b) \in 1..Len(b)
    BY <1>1
  <2> QED
    BY <1>1, <1>3, <1>4, <2>1 DEF SeenIs
<1>6. PICK h \in Processed \cup {i} : kept[k] = EventOf(inbox[h])
  BY <1>2, <1>3 DEF SeenIs
<1>7. kept[k].type = e.type /\ kept[k].body = e.body
  <2>1. \A f : Fingerprint(f).type = f.type /\ Fingerprint(f).body = f.body
    BY DEF Fingerprint
  <2> HIDE DEF kept, e
  <2> QED
    BY <1>5, <2>1
<1>8. Applies(rule, kept[k]) /\ rule.verdict[kept[k].body] = "match"
  BY <1>7 DEF Applies
<1>9. k \in DOMAIN kept
  BY <1>3 DEF SeenIs
<1>10. PICK incident \in Incidents(b, cat) :
         incident.id = [kind |-> "detection", rule |-> rule.id, events |-> {kept[k].id}]
  <2>1. /\ k \in DOMAIN Deduplicate(b).events
        /\ Applies(rule, Deduplicate(b).events[k])
        /\ rule.verdict[Deduplicate(b).events[k].body] = "match"
    BY <1>8, <1>9
  <2>2. \E incident \in Incidents(b, cat) :
          incident.id = [kind   |-> "detection", rule |-> rule.id,
                         events |-> {Deduplicate(b).events[k].id}]
    <3> HIDE DEF kept, e
    <3> QED
      BY <2>1, KeptIsReported
  <2> QED
    BY <2>2
<1>11. Ids({h}) = {kept[k].id}
  BY <1>6 DEF Ids, EventOf
<1> HIDE DEF kept, e
<1> QED
  BY <1>5, <1>6, <1>10, <1>11

\* What was found and saved stays right while rows are only added to the processed.
LEMMA RestsStays ==
  ASSUME InboxInv, Next, NEW i \in RowIds, NEW ids, Rests(ids, i)
  PROVE  \A id \in ids : id.events \subseteq Ids(Processed \cup {i})'
<1> SUFFICES ASSUME NEW id \in ids, NEW x \in id.events PROVE x \in Ids(Processed \cup {i})'
  OBVIOUS
<1>1. PICK j \in Processed \cup {i} : x = IdOf(inbox[j].agent, inbox[j].event)
  BY DEF Rests, Ids
<1>2. j \in RowIds
  BY DEF Processed
<1>3. /\ inbox'[j].agent = inbox[j].agent /\ inbox'[j].event = inbox[j].event
      /\ j \in Processed => j \in Processed'
  BY <1>2, ProcessedStays
<1>4. j \in (Processed \cup {i})'
  BY <1>1, <1>3
<1> QED
  BY <1>1, <1>3, <1>4 DEF Ids

\* (For the rows that were there: what is prime is the table, not the row.)
LEMMA ReportsStays ==
  ASSUME InboxInv, Next, NEW i \in RowIds, NEW ids, NEW more, ids \subseteq more,
         NEW rule, ReportsRule(ids, i, rule)
  PROVE  Applies(rule, EventOf(inbox'[i])) /\ rule.verdict[EventOf(inbox'[i]).body] = "match" =>
           \E h \in Processed' \cup {i} :
             /\ Fingerprint(EventOf(inbox'[h])) = Fingerprint(EventOf(inbox'[i]))
             /\ [kind |-> "detection", rule |-> rule.id, events |-> {IdOf(inbox'[h].agent, inbox'[h].event)}]
                  \in more
<1>1. EventOf(inbox'[i]) = EventOf(inbox[i])
  BY ProcessedStays
<1> SUFFICES ASSUME Applies(rule, EventOf(inbox[i])), rule.verdict[EventOf(inbox[i]).body] = "match"
             PROVE  \E h \in Processed' \cup {i} :
                      /\ Fingerprint(EventOf(inbox'[h])) = Fingerprint(EventOf(inbox[i]))
                      /\ [kind |-> "detection", rule |-> rule.id,
                          events |-> {IdOf(inbox'[h].agent, inbox'[h].event)}] \in more
  BY <1>1
<1>2. PICK h \in Processed \cup {i} :
        /\ Fingerprint(EventOf(inbox[h])) = Fingerprint(EventOf(inbox[i]))
        /\ [kind |-> "detection", rule |-> rule.id, events |-> Ids({h})] \in ids
  BY DEF ReportsRule
<1>3. h \in RowIds
  BY DEF Processed
<1>4. /\ inbox'[h].agent = inbox[h].agent /\ inbox'[h].event = inbox[h].event
      /\ EventOf(inbox'[h]) = EventOf(inbox[h])
      /\ h \in Processed => h \in Processed'
  BY <1>3, ProcessedStays
<1>5. Ids({h}) = {IdOf(inbox'[h].agent, inbox'[h].event)}
  BY <1>4 DEF Ids
<1>6. h \in Processed' \cup {i}
  BY <1>4
<1> QED
  BY <1>2, <1>4, <1>5, <1>6

\* What a worker has found stays right while it keeps it.
LEMMA FoundStays ==
  ASSUME PipelineInv, Next, NEW w \in Workers,
         worker[w].pc = "evaluated", worker'[w].row = worker[w].row,
         found'[w] = found[w], loaded'[w] = loaded[w]
  PROVE  Rests(IdsFound(w), worker[w].row)' /\ Reports(IdsFound(w), worker[w].row, loaded[w])'
<1>0. InboxInv /\ worker[w].row \in RowIds
  BY DEF PipelineInv, InboxInv, ClaimsKnown, Busy
<1> PICK i \in RowIds : i = worker[w].row
  BY <1>0
<1>1. InboxInv /\ Rests(IdsFound(w), i) /\ Reports(IdsFound(w), i, loaded[w])
  BY DEF PipelineInv, FoundFits
<1>2. IdsFound(w)' = IdsFound(w) /\ worker'[w].row = i
  BY DEF IdsFound
<1>3. Rests(IdsFound(w), worker[w].row)'
  <2>1. \A id \in IdsFound(w) : id.events \subseteq Ids(Processed \cup {i})'
    BY <1>1, RestsStays
  <2> QED
    BY <1>2, <2>1 DEF Rests
<1>4. Reports(IdsFound(w), worker[w].row, loaded[w])'
  <2> SUFFICES ASSUME NEW rule \in loaded[w].detection
               PROVE  ReportsRule(IdsFound(w), worker[w].row, rule)'
    BY DEF Reports
  <2>1. ReportsRule(IdsFound(w), i, rule)
    BY <1>1 DEF Reports
  <2>2. Applies(rule, EventOf(inbox'[i])) /\ rule.verdict[EventOf(inbox'[i]).body] = "match" =>
          \E h \in Processed' \cup {i} :
            /\ Fingerprint(EventOf(inbox'[h])) = Fingerprint(EventOf(inbox'[i]))
            /\ [kind |-> "detection", rule |-> rule.id,
                events |-> {IdOf(inbox'[h].agent, inbox'[h].event)}] \in IdsFound(w)
    BY <1>1, <2>1, ReportsStays
  <2>3. \A h : Ids({h})' = {IdOf(inbox'[h].agent, inbox'[h].event)}
    BY DEF Ids
  <2> QED
    BY <1>2, <2>2, <2>3 DEF ReportsRule
<1> QED
  BY <1>3, <1>4

\* A step that adds incidents, with their rows processed, loses no detection.
LEMMA NoneLost ==
  ASSUME PipelineInv, Next, DOMAIN incidents \subseteq DOMAIN incidents',
         \A i \in Processed' \ Processed :
           i \in RowIds /\ \E cat \in Catalogs, ids \in SUBSET DOMAIN incidents' : Reports(ids, i, cat)
  PROVE  NoDetectionLost'
<1>1. ASSUME NEW i \in Processed'
      PROVE  i \in RowIds /\ \E cat \in Catalogs, ids \in SUBSET DOMAIN incidents' : Reports(ids, i, cat)
  <2>1. CASE i \in Processed
    <3>1. PICK cat \in Catalogs : \A rule \in cat.detection :
            LET event == EventOf(inbox[i]) IN
              Applies(rule, event) /\ rule.verdict[event.body] = "match" =>
                \E h \in Processed :
                  /\ Fingerprint(EventOf(inbox[h])) = Fingerprint(event)
                  /\ [kind |-> "detection", rule |-> rule.id, events |-> Ids({h})] \in DOMAIN incidents
      BY <2>1 DEF PipelineInv, NoDetectionLost
    <3>2. Reports(DOMAIN incidents, i, cat)
      BY <3>1 DEF Reports, ReportsRule
    <3> QED
      BY <2>1, <3>2 DEF Processed
  <2> QED
    BY <2>1
<1>2. ASSUME NEW i \in Processed', NEW cat \in Catalogs, NEW ids \in SUBSET DOMAIN incidents',
             i \in RowIds, Reports(ids, i, cat), NEW rule \in cat.detection,
             Applies(rule, EventOf(inbox'[i])), rule.verdict[EventOf(inbox'[i]).body] = "match"
      PROVE  \E h \in Processed' :
               /\ Fingerprint(EventOf(inbox'[h])) = Fingerprint(EventOf(inbox'[i]))
               /\ [kind |-> "detection", rule |-> rule.id, events |-> Ids({h})'] \in DOMAIN incidents'
  <2>1. ReportsRule(ids, i, rule) /\ InboxInv
    BY <1>2 DEF Reports, PipelineInv
  <2>2. \E h \in Processed' \cup {i} :
          /\ Fingerprint(EventOf(inbox'[h])) = Fingerprint(EventOf(inbox'[i]))
          /\ [kind |-> "detection", rule |-> rule.id,
              events |-> {IdOf(inbox'[h].agent, inbox'[h].event)}] \in DOMAIN incidents'
    BY <1>2, <2>1, ReportsStays
  <2>3. \A h : Ids({h})' = {IdOf(inbox'[h].agent, inbox'[h].event)}
    BY DEF Ids
  <2> QED
    BY <2>2, <2>3
<1> SUFFICES ASSUME NEW i \in Processed'
             PROVE  \E cat \in Catalogs : \A rule \in cat.detection :
                      Applies(rule, EventOf(inbox'[i])) /\ rule.verdict[EventOf(inbox'[i]).body] = "match" =>
                        \E h \in Processed' :
                          /\ Fingerprint(EventOf(inbox'[h])) = Fingerprint(EventOf(inbox'[i]))
                          /\ [kind |-> "detection", rule |-> rule.id, events |-> Ids({h})']
                               \in DOMAIN incidents'
  BY DEF NoDetectionLost
<1> QED
  BY <1>1, <1>2

LEMMA RestsKept ==
  ASSUME PipelineInv, Next,
         \A id \in DOMAIN incidents' :
           id \in DOMAIN incidents \/ \E i \in Processed' \cap RowIds : Rests({id}, i)
  PROVE  IncidentsRestOnProcessed'
<1> SUFFICES ASSUME NEW id \in DOMAIN incidents', NEW x \in id.events
             PROVE  x \in Ids(Processed)'
  BY DEF IncidentsRestOnProcessed
<1>1. \E j \in RowIds : /\ j \in Processed \/ j \in Processed'
                        /\ x = IdOf(inbox[j].agent, inbox[j].event)
  <2>1. CASE id \in DOMAIN incidents
    <3>1. x \in Ids(Processed)
      BY <2>1 DEF PipelineInv, IncidentsRestOnProcessed
    <3> QED
      BY <3>1 DEF Ids, Processed
  <2>2. ASSUME NEW i \in Processed' \cap RowIds, Rests({id}, i)
        PROVE  \E j \in RowIds : /\ j \in Processed \/ j \in Processed'
                                 /\ x = IdOf(inbox[j].agent, inbox[j].event)
    <3>1. x \in Ids(Processed \cup {i})
      BY <2>2 DEF Rests
    <3> QED
      BY <3>1 DEF Ids, Processed
  <2> QED
    BY <2>1, <2>2
<1>2. PICK j \in RowIds : /\ j \in Processed \/ j \in Processed'
                          /\ x = IdOf(inbox[j].agent, inbox[j].event)
  BY <1>1
<1>3. /\ j \in Processed' /\ inbox'[j].agent = inbox[j].agent /\ inbox'[j].event = inbox[j].event
  BY <1>2, ProcessedStays DEF PipelineInv
<1> QED
  BY <1>2, <1>3 DEF Ids

\* A step of a worker that is no evaluation ends its claim, or goes to its failure.
LEMMA LeavesEvaluated ==
  ASSUME InboxInv, NEW w \in Workers,
         \/ ClaimNext(w) \/ EndBatch(w) \/ ProcessingRaises(w) \/ Finalize(w) \/ LoseClaim(w)
         \/ RecordFailure(w) \/ AbortBatch(w) \/ Restart(w) \/ StopWorker(w) \/ Crash(w)
  PROVE  worker'[w].pc # "evaluated" /\ \A v \in Workers \ {w} : worker'[v] = worker[v]
<1>1. worker \in [Workers -> WorkerState]
  BY DEF InboxInv, TypeOK
<1>2. AtStart.pc = "claiming" /\ Down.pc = "down"
  BY DEF AtStart, Down
<1>3. \A pc : [worker[w] EXCEPT !.pc = pc].pc = pc
  BY <1>1 DEF WorkerState
<1>4. CASE ClaimNext(w)
  BY <1>1, <1>4 DEF ClaimNext
<1>5. CASE EndBatch(w) \/ AbortBatch(w) \/ Restart(w) \/ StopWorker(w) \/ Crash(w)
  <2>1. worker' = [worker EXCEPT ![w] = AtStart] \/ worker' = [worker EXCEPT ![w] = Down]
    BY <1>5 DEF EndBatch, AbortBatch, Restart, StopWorker, Crash
  <2> QED
    BY <1>1, <1>2, <2>1
<1>6. CASE ProcessingRaises(w) \/ Finalize(w) \/ LoseClaim(w) \/ RecordFailure(w)
  <2>1. PICK pc \in {"failing", "claiming"} : worker' = [worker EXCEPT ![w].pc = pc]
    BY <1>6 DEF ProcessingRaises, Finalize, LoseClaim, RecordFailure, Goes
  <2>2. worker'[w] = [worker[w] EXCEPT !.pc = pc] /\ \A v \in Workers \ {w} : worker'[v] = worker[v]
    BY <1>1, <2>1
  <2> QED
    BY <1>3, <2>2
<1> QED
  BY <1>4, <1>5, <1>6

\* Steps that process no row and save nothing.
LEMMA QuietStep ==
  ASSUME PipelineInv, Next, CatalogsLoaded', DOMAIN incidents' = DOMAIN incidents,
         Processed' \subseteq Processed,
         \A w \in Workers : worker'[w].pc = "evaluated" =>
           /\ worker[w].pc = "evaluated" /\ worker'[w].row = worker[w].row
           /\ found'[w] = found[w] /\ loaded'[w] = loaded[w]
  PROVE  PipelineInv'
<1>1. InboxInv'
  BY InboxStep DEF PipelineInv
<1>2. FoundFits'
  BY FoundStays DEF FoundFits
<1>3. IncidentsRestOnProcessed'
  BY RestsKept
<1>4. NoDetectionLost'
  BY NoneLost
<1> QED
  BY <1>1, <1>2, <1>3, <1>4 DEF PipelineInv

LEMMA SameInbox ==
  ASSUME PipelineInv, UNCHANGED <<vars, found>>, CatalogsLoaded', UNCHANGED loaded,
         DOMAIN incidents' = DOMAIN incidents
  PROVE  PipelineInv'
<1>1. UNCHANGED <<agents, inbox, upload, worker>>
  BY DEF vars
<1>2. InboxInv'
  BY InboxStep DEF PipelineInv
<1>3. Processed' = Processed /\ RowIds' = RowIds
  BY <1>1 DEF Processed, RowIds
<1>4. \A i \in Processed : EventOf(inbox'[i]) = EventOf(inbox[i]) /\ Ids({i})' = Ids({i})
  BY <1>1 DEF Ids
<1>5. IncidentsRestOnProcessed'
  BY <1>1, <1>3 DEF PipelineInv, IncidentsRestOnProcessed, Ids
<1>6. NoDetectionLost'
  <2> SUFFICES ASSUME NEW i \in Processed
               PROVE  \E c \in Catalogs : \A rule \in c.detection :
                        Applies(rule, EventOf(inbox'[i])) /\ rule.verdict[EventOf(inbox'[i]).body] = "match" =>
                          \E h \in Processed :
                            /\ Fingerprint(EventOf(inbox'[h])) = Fingerprint(EventOf(inbox'[i]))
                            /\ [kind |-> "detection", rule |-> rule.id, events |-> Ids({h})']
                                 \in DOMAIN incidents'
    BY <1>3 DEF NoDetectionLost
  <2>1. PICK c \in Catalogs : \A rule \in c.detection :
          Applies(rule, EventOf(inbox[i])) /\ rule.verdict[EventOf(inbox[i]).body] = "match" =>
            \E h \in Processed :
              /\ Fingerprint(EventOf(inbox[h])) = Fingerprint(EventOf(inbox[i]))
              /\ [kind |-> "detection", rule |-> rule.id, events |-> Ids({h})] \in DOMAIN incidents
    BY DEF PipelineInv, NoDetectionLost
  <2> QED
    BY <1>4, <2>1
<1>7. FoundFits'
  <2> SUFFICES ASSUME NEW w \in Workers, worker[w].pc = "evaluated"
               PROVE  Rests(IdsFound(w), worker[w].row)' /\ Reports(IdsFound(w), worker[w].row, loaded[w])'
    BY <1>1 DEF FoundFits
  <2>1. Rests(IdsFound(w), worker[w].row) /\ Reports(IdsFound(w), worker[w].row, loaded[w])
    BY DEF PipelineInv, FoundFits
  <2>2. Rests(IdsFound(w), worker[w].row)'
    BY <1>1, <1>3, <2>1 DEF IdsFound, Rests, Ids
  <2>3. ASSUME NEW rule \in loaded[w].detection
        PROVE  ReportsRule(IdsFound(w), worker[w].row, rule)'
    <3>1. ReportsRule(IdsFound(w), worker[w].row, rule)
      BY <2>1 DEF Reports
    <3> QED
      BY <1>1, <1>3, <3>1 DEF IdsFound, ReportsRule, Ids
  <2> QED
    BY <2>2, <2>3 DEF Reports
<1> QED
  BY <1>2, <1>5, <1>6, <1>7 DEF PipelineInv

\* The step that processes a row saves what was found for it.
LEMMA FinalizeStep ==
  ASSUME PipelineInv, Next, NEW w \in Workers, FinalizeClaim(w)
  PROVE  PipelineInv'
<1>1. /\ InboxInv /\ Finalize(w) /\ Store!SaveMany(found[w]) /\ worker[w].pc = "evaluated"
      /\ UNCHANGED <<catalog, loaded, found>>
  BY DEF FinalizeClaim, Finalize, PipelineInv
<1> PICK i \in RowIds : i = worker[w].row
  BY <1>1, FinalizeIs
<1>2. /\ RowIds' = RowIds /\ inbox'[i].status = "processed"
      /\ \A j \in RowIds : j # i => inbox'[j] = inbox[j]
  BY <1>1, FinalizeIs
<1>3. Processed' \subseteq Processed \cup {i} /\ i \in Processed'
  BY <1>2 DEF Processed
<1>4. DOMAIN incidents' = DOMAIN incidents \cup IdsFound(w)
  BY <1>1 DEF Store!SaveMany, Store!Saved, IdsFound
<1>5. Rests(IdsFound(w), i) /\ Reports(IdsFound(w), i, loaded[w]) /\ loaded[w] \in Catalogs
  BY <1>1 DEF PipelineInv, FoundFits, CatalogsLoaded
<1>6. InboxInv' /\ CatalogsLoaded'
  BY <1>1, InboxStep DEF PipelineInv, CatalogsLoaded
<1>7. IncidentsRestOnProcessed'
  <2>1. \A id \in IdsFound(w) : Rests({id}, i)
    BY <1>5 DEF Rests
  <2> QED
    BY <1>3, <1>4, <2>1, RestsKept
<1>8. NoDetectionLost'
  BY <1>3, <1>4, <1>5, NoneLost
<1>9. FoundFits'
  <2>1. worker'[w].pc # "evaluated" /\ \A v \in Workers \ {w} : worker'[v] = worker[v]
    BY <1>1, LeavesEvaluated
  <2> SUFFICES ASSUME NEW v \in Workers, worker'[v].pc = "evaluated"
               PROVE  /\ Rests(IdsFound(v), worker[v].row)'
                      /\ Reports(IdsFound(v), worker[v].row, loaded[v])'
    BY DEF FoundFits
  <2> QED
    BY <1>1, <2>1, FoundStays
<1> QED
  BY <1>6, <1>7, <1>8, <1>9 DEF PipelineInv

LEMMA EvaluateStep ==
  ASSUME PipelineInv, Next, NEW w \in Workers, EvaluateClaim(w)
  PROVE  PipelineInv'
<1>1. /\ InboxInv /\ CatalogsLoaded /\ worker[w].pc = "holding"
      /\ worker' = [worker EXCEPT ![w].pc = "evaluated"]
      /\ UNCHANGED <<agents, inbox, upload, incidents, catalog, loaded>>
      /\ found' = [found EXCEPT ![w] = {ForStore(incident) :
           incident \in Incidents(Batch(worker[w].row, loaded[w]), loaded[w])}]
  BY DEF EvaluateClaim, Evaluate, Goes, PipelineInv
<1>2. worker[w].row \in RowIds
  BY <1>1 DEF InboxInv, ClaimsKnown, Busy
<1> PICK i \in RowIds, cat \in Catalogs : i = worker[w].row /\ cat = loaded[w]
  BY <1>1, <1>2 DEF CatalogsLoaded
<1>3. /\ worker'[w].pc = "evaluated" /\ worker'[w].row = i /\ loaded'[w] = cat
      /\ \A v \in Workers \ {w} : worker'[v] = worker[v] /\ found'[v] = found[v]
      /\ found'[w] = {ForStore(incident) : incident \in Incidents(Batch(i, cat), cat)}
      /\ CatalogsLoaded' /\ Processed' = Processed /\ RowIds' = RowIds
  <2>1. worker \in [Workers -> WorkerState]
    BY <1>1 DEF InboxInv, TypeOK
  <2>2. worker'[w].pc = "evaluated" /\ worker'[w].row = i
    BY <1>1, <2>1 DEF WorkerState
  <2>3. \A v \in Workers \ {w} : worker'[v] = worker[v]
    BY <1>1, <2>1
  <2> QED
    BY <1>1, <2>2, <2>3 DEF CatalogsLoaded, Processed, RowIds
<1> DEFINE ids == {incident.id : incident \in Incidents(Batch(i, cat), cat)}
<1>4. IdsFound(w)' = ids
  <2>1. \A incident : ForStore(incident).id = incident.id
    BY DEF ForStore
  <2>2. IdsFound(w)' = {incident.id : incident \in found'[w]}
    BY DEF IdsFound
  <2> QED
    BY <1>3, <2>1, <2>2
<1>5. Rests(ids, i)
  BY <1>1, BuiltRests
<1>6. ASSUME NEW rule \in cat.detection
      PROVE  ReportsRule(ids, i, rule)
  BY <1>1, BuiltReports
<1> HIDE DEF ids
<1>7. Rests(IdsFound(w), worker[w].row)'
  BY <1>1, <1>3, <1>4, <1>5 DEF Rests, Ids
<1>8. Reports(IdsFound(w), worker[w].row, loaded[w])'
  <2> SUFFICES ASSUME NEW rule \in cat.detection
               PROVE  ReportsRule(IdsFound(w), worker[w].row, rule)'
    BY <1>3 DEF Reports
  <2>1. ReportsRule(ids, i, rule)
    BY <1>6
  <2>2. /\ IdsFound(w)' = ids /\ worker'[w].row = i /\ inbox' = inbox /\ Processed' = Processed
        /\ \A h : Ids({h})' = Ids({h})
    BY <1>1, <1>3, <1>4 DEF Ids
  <2> QED
    BY <2>1, <2>2 DEF ReportsRule
<1>9. FoundFits'
  <2> SUFFICES ASSUME NEW v \in Workers, worker'[v].pc = "evaluated"
               PROVE  /\ Rests(IdsFound(v), worker[v].row)'
                      /\ Reports(IdsFound(v), worker[v].row, loaded[v])'
    BY DEF FoundFits
  <2>1. CASE v = w
    BY <1>7, <1>8, <2>1
  <2>2. CASE v # w
    <3>1. worker'[v] = worker[v] /\ found'[v] = found[v] /\ loaded'[v] = loaded[v]
      BY <1>1, <1>3, <2>2
    <3> QED
      BY <3>1, FoundStays
  <2> QED
    BY <2>1, <2>2
<1>10. IncidentsRestOnProcessed'
  BY <1>1, RestsKept
<1>11. NoDetectionLost'
  BY <1>1, <1>3, NoneLost
<1>12. InboxInv'
  BY <1>1, InboxStep
<1> QED
  BY <1>3, <1>9, <1>10, <1>11, <1>12 DEF PipelineInv

LEMMA PipelineStep == PipelineInv /\ [PNext]_pvars => PipelineInv'
<1> SUFFICES ASSUME PipelineInv, [PNext]_pvars PROVE PipelineInv'
  OBVIOUS
<1>1. InboxInv /\ CatalogsLoaded
  BY DEF PipelineInv
<1>2. CASE UNCHANGED <<vars, incidents, catalog, loaded, found>>
  BY <1>1, <1>2, SameInbox DEF CatalogsLoaded
<1>3. ASSUME NEW c \in Catalogs, InstallCatalog(c) PROVE PipelineInv'
  <2>1. UNCHANGED <<vars, incidents, loaded, found>> /\ catalog' = c
    BY <1>3 DEF InstallCatalog
  <2> QED
    BY <1>1, <2>1, SameInbox DEF CatalogsLoaded
<1>4. ASSUME NEW id \in DOMAIN incidents, NEW new \in Store!Statuses, Operate(id, new)
      PROVE  PipelineInv'
  <2>1. UNCHANGED <<vars, catalog, loaded, found>> /\ DOMAIN incidents' = DOMAIN incidents
    BY <1>4 DEF Operate, Store!Transition
  <2> QED
    BY <1>1, <2>1, SameInbox DEF CatalogsLoaded
<1>5. ASSUME PCollects \/ PStale PROVE PipelineInv'
  <2>0. Next
    BY <1>5 DEF PCollects, PStale, Next
  <2>1. UNCHANGED <<worker, incidents, catalog, loaded, found>>
        /\ (Collects \/ \E i \in RowIds : GoStale(i))
    BY <1>5 DEF PCollects, PStale, Unmoved, Collects, Register, Revoke, Identify, IngestBatch, GoStale
  <2>2. Processed' \subseteq Processed
    BY <1>1, <2>1, OthersProcessNone
  <2> QED
    BY <1>1, <2>0, <2>1, <2>2, QuietStep DEF CatalogsLoaded
<1>6. ASSUME NEW w \in Workers, PWorks(w) \/ PCrash(w) PROVE PipelineInv'
  <2>0. Next
    BY <1>6, WorkersUseInbox
  <2>1. CASE EvaluateClaim(w)
    BY <2>0, <2>1, EvaluateStep
  <2>2. CASE FinalizeClaim(w)
    BY <2>0, <2>2, FinalizeStep
  <2>3. CASE ~EvaluateClaim(w) /\ ~FinalizeClaim(w)
    <3>1. /\ \/ ClaimNext(w) \/ EndBatch(w) \/ ProcessingRaises(w) \/ LoseClaim(w)
             \/ RecordFailure(w) \/ AbortBatch(w) \/ Restart(w) \/ StopWorker(w) \/ Crash(w)
          /\ UNCHANGED <<incidents, catalog>>
      BY <1>6, <2>3 DEF PWorks, PCrash, EvaluationRaises, SaveRaises, Interrupted, StartWorker,
         StopWorker, Unmoved
    <3>2. worker'[w].pc # "evaluated" /\ \A v \in Workers \ {w} : worker'[v] = worker[v]
      BY <1>1, <3>1, LeavesEvaluated
    <3>3. Processed' \subseteq Processed
      <4>1. \/ ClaimNext(w) \/ EndBatch(w) \/ RecordFailure(w) \/ UNCHANGED inbox
        BY <3>1 DEF ProcessingRaises, LoseClaim, AbortBatch, Restart, StopWorker, Crash
      <4> QED
        BY <1>1, <4>1, OthersProcessNone
    <3>4. CatalogsLoaded' /\ \A v \in Workers \ {w} : found'[v] = found[v] /\ loaded'[v] = loaded[v]
      <4>1. CASE UNCHANGED <<loaded, found>>
        BY <1>1, <3>1, <4>1 DEF CatalogsLoaded
      <4>2. CASE StartWorker(w)
        BY <1>1, <3>1, <4>2 DEF CatalogsLoaded, StartWorker
      <4> QED
        BY <1>6, <2>3, <4>1, <4>2 DEF PWorks, PCrash, EvaluationRaises, SaveRaises, Interrupted,
           StopWorker, Unmoved
    <3> QED
      BY <2>0, <3>1, <3>2, <3>3, <3>4, QuietStep
  <2> QED
    BY <2>1, <2>2, <2>3
<1> QED
  BY <1>2, <1>3, <1>4, <1>5, <1>6 DEF PNext, pvars

LEMMA PipelineInit == PInit => PipelineInv
<1> SUFFICES ASSUME PInit PROVE PipelineInv
  OBVIOUS
<1>1. InboxInv
  BY InboxInit DEF PInit
<1>2. DOMAIN incidents = {}
  BY DEF PInit, Store!IncidentsInit
<1>3. CatalogsLoaded
  BY DEF PInit, CatalogsLoaded
<1>4. Processed = {} /\ \A w \in Workers : worker[w].pc # "evaluated"
  BY DEF PInit, Init, Processed, RowIds, Down, AtStart
<1> QED
  BY <1>1, <1>2, <1>3, <1>4
  DEF PipelineInv, FoundFits, IncidentsRestOnProcessed, NoDetectionLost

LEMMA AlwaysPipelineInv == PSpec => []PipelineInv
BY PipelineInit, PipelineStep, PTL DEF PSpec

\* Every incident rests on processed events, for any workers, rules and events: what a
\* worker found is saved with the row it found it for (worker.py, _process_claim).
THEOREM IncidentsAlwaysRest == PSpec => []IncidentsRestOnProcessed
<1>1. PipelineInv => IncidentsRestOnProcessed
  BY DEF PipelineInv
<1> QED
  BY <1>1, AlwaysPipelineInv, PTL

\* No match of a detection rule is lost, whatever is retried or evaluated side by side:
\* deduplication gives way only to a processed event with the same content, because an
\* id belongs to one row (worker.py, _process_claim; deduplication.py).
THEOREM DetectionsNeverLost == PSpec => []NoDetectionLost
<1>1. PipelineInv => NoDetectionLost
  BY DEF PipelineInv
<1> QED
  BY <1>1, AlwaysPipelineInv, PTL

-----------------------------------------------------------------------------
(* One worker: a batch that holds a burst reports it *)

NoIdTwice(events) ==
  \A k, l \in 1..Len(events) : events[k].id = events[l].id => k = l

\* The events f[x] of a group, each of them once, lie in the window of the rule that ends
\* with last.
Together(events, rule, group, last, B, f) ==
  /\ last \in 1..Len(events) /\ events[last].type = rule.type /\ events[last].group = group
  /\ f \in [B -> 1..Len(events)]
  /\ \A x, y \in B : f[x] = f[y] => x = y
  /\ \A x \in B : /\ events[f[x]].type = rule.type
                  /\ events[f[x]].group = group
                  /\ events[f[x]].time + rule.window >= events[last].time
                  /\ ~Earlier(events[last], events[f[x]])

\* A rule in use that no gap within its window cuts short.
Steady(rule) ==
  /\ rule.window \in Nat /\ rule.inactivity \in Int /\ rule.minimum_count \in Nat
  /\ rule.enabled /\ rule.inactivity >= rule.window

\* Events of a group without an id twice that lie together in a window are in
\* one window of the engine.
LEMMA TogetherIs ==
  ASSUME NEW E, Placed(E), NEW events \in Seq(E), NoIdTwice(events), NEW rule, Steady(rule),
         NEW group, NEW last, NEW B, NEW f, Together(events, rule, group, last, B, f),
         Cardinality(B) >= rule.minimum_count
  PROVE  \E w \in Windows(Grouped(events, rule, group), rule) :
           \A x \in B : \E k \in DOMAIN w : w[k] = events[f[x]]
<1> DEFINE M == Members(events, rule, group)
           n == Cardinality(M)
           G == Grouped(events, rule, group)
<1>0. /\ rule.window \in Nat /\ rule.inactivity \in Int /\ rule.minimum_count \in Nat
      /\ rule.window <= rule.inactivity
  BY DEF Steady
<1>1. Len(events) \in Nat /\ DOMAIN events = 1..Len(events)
      /\ \A k \in 1..Len(events) : events[k] \in E
  OBVIOUS
<1>2. /\ G \in Seq(E) /\ Len(G) \in Nat /\ DOMAIN G = 1..Len(G) /\ InTime(G, Len(G))
  BY GroupIs
<1>3. PICK o \in [1..n -> M] :
        /\ n \in Nat
        /\ \A i \in M : \E k \in 1..n : o[k] = i
        /\ \A k, l \in 1..n : k < l => o[k] # o[l] /\ ~Earlier(events[o[l]], events[o[k]])
        /\ G = [k \in 1..n |-> events[o[k]]]
  BY GroupedIs
<1>4. last \in M /\ \A x \in B : f[x] \in M /\ f[x] \in 1..Len(events)
  BY <1>1 DEF Members, Together
<1>5. M \subseteq 1..Len(events)
  BY <1>1 DEF Members
<1> HIDE DEF M, G
<1>6. DOMAIN G = 1..n /\ \A k \in 1..n : o[k] \in M /\ G[k] = events[o[k]]
  BY <1>3
<1> HIDE DEF n
<1>7. Len(G) = n /\ n \in Nat
  BY <1>2, <1>3, <1>6
<1>8. PICK r \in 1..n : o[r] = last
  BY <1>3, <1>4
<1>9. \A k \in 1..n : G[k].id \in Int /\ G[k].time \in Int
  <2> SUFFICES ASSUME NEW k \in 1..n PROVE G[k] \in E
    BY DEF Placed
  <2> QED
    BY <1>1, <1>5, <1>6
<1>10. \A x \in B : \E q \in 1..r : o[q] = f[x]
  <2> SUFFICES ASSUME NEW x \in B PROVE \E q \in 1..r : o[q] = f[x]
    OBVIOUS
  <2>1. PICK q \in 1..n : o[q] = f[x]
    BY <1>3, <1>4
  <2>2. ASSUME r < q PROVE FALSE
    <3>1. o[r] # o[q] /\ ~Earlier(events[o[q]], events[o[r]])
      BY <1>3, <2>2
    <3>2. ~Earlier(events[o[r]], events[o[q]])
      BY <1>8, <2>1 DEF Together
    <3>3. o[r] \in 1..Len(events) /\ o[q] \in 1..Len(events)
      BY <1>5, <1>6
    <3>4. events[o[r]].id # events[o[q]].id
      BY <3>1, <3>3 DEF NoIdTwice
    <3>5. /\ events[o[r]].id \in Int /\ events[o[q]].id \in Int
          /\ events[o[r]].time \in Int /\ events[o[q]].time \in Int
      BY <1>6, <1>9
    <3> QED
      BY <3>1, <3>2, <3>4, <3>5 DEF Earlier
  <2> QED
    BY <1>7, <2>1, <2>2
<1> DEFINE place == [x \in B |-> CHOOSE q \in 1..r : o[q] = f[x]]
<1>11. \A x \in B : place[x] \in 1..r /\ o[place[x]] = f[x]
  BY <1>10
<1> DEFINE left == LeftEdges(G, rule)[r]
<1>12. left \in 1..r /\ \A l \in 1..r : l >= left <=> Reaches(G, rule, l, r)
  BY <1>0, <1>2, <1>7, LeftEdgesAre
<1> HIDE DEF left, place
<1>13. \A x \in B : place[x] \in left..r
  <2> SUFFICES ASSUME NEW x \in B PROVE Reaches(G, rule, place[x], r)
    BY <1>11, <1>12
  <2> DEFINE q == place[x]
  <2>1. q \in 1..r /\ q \in 1..n /\ r \in 1..n /\ G[q] = events[f[x]] /\ G[r] = events[last]
    BY <1>6, <1>7, <1>8, <1>11
  <2> HIDE DEF q
  <2>2. G[r].time - G[q].time <= rule.window
    <3>1. /\ events[f[x]].time + rule.window >= events[last].time
          /\ G[q].time = events[f[x]].time /\ G[r].time = events[last].time
      BY <2>1 DEF Together
    <3>2. G[q].time \in Int /\ G[r].time \in Int
      BY <1>9, <2>1
    <3> QED
      BY <1>0, <3>1, <3>2
  <2>3. ASSUME NEW m \in (q + 1)..r
        PROVE  G[m].time - G[m - 1].time <= rule.inactivity
    <3>1. m \in 1..n /\ m - 1 \in 1..n /\ m <= r /\ q <= m - 1
      BY <1>7, <2>1
    <3>2. G[m].time <= G[r].time /\ G[q].time <= G[m - 1].time
      BY <1>2, <1>7, <2>1, <3>1 DEF InTime
    <3>3. /\ G[m].time \in Int /\ G[m - 1].time \in Int
          /\ G[r].time \in Int /\ G[q].time \in Int
      BY <1>9, <2>1, <3>1
    <3> QED
      BY <1>0, <2>2, <3>2, <3>3
  <2> QED
    BY <2>2, <2>3 DEF Reaches, q
<1>14. Cardinality(B) <= r - left + 1
  <2>1. place \in Injection(B, left..r)
    <3>1. place \in [B -> left..r]
      BY <1>13 DEF place
    <3>2. \A x, y \in B : place[x] = place[y] => x = y
      BY <1>11 DEF Together
    <3> QED
      BY <3>1, <3>2 DEF Injection, IsInjective
  <2>2. left \in Int /\ r \in Int /\ left <= r
    BY <1>7, <1>12
  <2>3. IsFiniteSet(left..r) /\ Cardinality(left..r) = r - left + 1
    <3>1. IsFiniteSet(left..r) /\ Cardinality(left..r) = IF left > r THEN 0 ELSE r - left + 1
      BY <2>2, FS_Interval
    <3> QED
      BY <2>2, <3>1
  <2> QED
    BY <2>1, <2>3, FS_Injection
<1> DEFINE w == SubSeq(G, left, r)
<1>15. w \in Windows(G, rule)
  <2>1. r - left + 1 >= rule.minimum_count
    <3>1. IsFiniteSet(B)
      <4>1. f \in Injection(B, 1..Len(events))
        <5>1. f \in [B -> 1..Len(events)] /\ \A x, y \in B : f[x] = f[y] => x = y
          BY DEF Together
        <5> QED
          BY <5>1 DEF Injection, IsInjective
      <4>2. IsFiniteSet(1..Len(events))
        BY <1>1, FS_Interval
      <4> QED
        BY <4>1, <4>2, FS_Injection
    <3>2. Cardinality(B) \in Nat
      BY <3>1, FS_CardinalityType
    <3> QED
      BY <1>0, <1>7, <1>12, <1>14, <3>2
  <2> QED
    BY <1>2, <1>6, <2>1 DEF Windows, left
<1>16. DOMAIN w = 1..(r - left + 1) /\ \A k \in 1..(r - left + 1) : w[k] = G[left + k - 1]
  <2>1. left \in Nat /\ r \in Nat /\ 1 <= left /\ left <= r /\ r <= Len(G)
    BY <1>7, <1>12
  <2> QED
    BY <1>2, <2>1
<1> HIDE DEF w
<1>17. ASSUME NEW x \in B
       PROVE  \E k \in DOMAIN w : w[k] = events[f[x]]
  <2>1. /\ place[x] - left + 1 \in 1..(r - left + 1)
        /\ left + (place[x] - left + 1) - 1 = place[x] /\ place[x] \in 1..n
    <3>1. PICK p \in left..r : p = place[x]
      BY <1>13
    <3>2. left \in Nat /\ r \in Nat /\ n \in Nat /\ 1 <= left /\ r <= n
      BY <1>7, <1>12
    <3> QED
      BY <3>1, <3>2
  <2>2. w[place[x] - left + 1] = events[f[x]]
    BY <1>6, <1>11, <1>16, <2>1
  <2> QED
    BY <1>16, <2>1, <2>2
<1> QED
  BY <1>15, <1>17 DEF G

LEMMA WindowBound ==
  ASSUME NEW cat \in Catalogs, NEW rule \in cat.correlation
  PROVE  MaxWindow(cat) \in Nat /\ rule.window \in Nat /\ rule.window <= MaxWindow(cat)
<1> DEFINE W == {r.window : r \in cat.correlation}
           n == Cardinality(W)
           f == [r \in cat.correlation |-> r.window]
<1>1. W \in SUBSET Nat /\ rule.window \in W
  BY CatalogsAssumption
<1>2. IsFiniteSet(W)
  <2>1. f \in Surjection(cat.correlation, W)
    BY DEF Surjection
  <2>2. IsFiniteSet(cat.correlation)
    BY CatalogsAssumption
  <2> HIDE DEF W, f
  <2> QED
    BY <2>1, <2>2, FS_Surjection
<1>3. \A r \in cat.correlation : r.window \in W
  OBVIOUS
<1>4. \A v \in W : \E r \in cat.correlation : v = r.window
  OBVIOUS
<1>5. MaxWindow(cat) = CHOOSE m \in W : \A r \in cat.correlation : r.window <= m
  BY DEF MaxWindow
<1> HIDE DEF W
<1>6. /\ n \in Nat /\ Ascending(W) \in [1..n -> W]
      /\ \A i \in W : \E k \in 1..n : Ascending(W)[k] = i
      /\ \A k, l \in 1..n : k < l => Ascending(W)[k] < Ascending(W)[l]
  BY <1>1, <1>2, NumbersListed
<1> HIDE DEF n
<1>7. n \in 1..n /\ Ascending(W)[n] \in W
  <2>1. PICK k \in 1..n : Ascending(W)[k] = rule.window
    BY <1>1, <1>6
  <2> QED
    BY <1>6, <2>1
<1>8. \A r \in cat.correlation : r.window <= Ascending(W)[n]
  <2> SUFFICES ASSUME NEW r \in cat.correlation PROVE r.window <= Ascending(W)[n]
    OBVIOUS
  <2>1. PICK k \in 1..n : Ascending(W)[k] = r.window
    BY <1>3, <1>6
  <2>2. k = n \/ k < n
    BY <1>6
  <2>3. r.window \in Nat /\ Ascending(W)[n] \in Nat
    BY <1>1, <1>3, <1>7
  <2> QED
    BY <1>6, <1>7, <2>1, <2>2, <2>3
<1>9. MaxWindow(cat) \in W /\ \A r \in cat.correlation : r.window <= MaxWindow(cat)
  BY <1>5, <1>7, <1>8
<1> QED
  BY <1>1, <1>9

\* If it fits the limit, the history of a row is all that lies in its window.
LEMMA WholeHistory ==
  ASSUME InboxInv, NEW i \in RowIds, NEW cat, Cardinality(InWindow(i, cat)) <= HistoryLimit
  PROVE  \E o \in [1..Cardinality(InWindow(i, cat)) -> InWindow(i, cat)] :
           /\ Cardinality(InWindow(i, cat)) \in Nat
           /\ \A h \in InWindow(i, cat) : \E k \in 1..Cardinality(InWindow(i, cat)) : o[k] = h
           /\ \A k, l \in 1..Cardinality(InWindow(i, cat)) : o[k] = o[l] => k = l
           /\ Historical(i, cat) =
                [k \in 1..Cardinality(InWindow(i, cat)) |-> EventOf(inbox[o[k]])]
<1> DEFINE S == InWindow(i, cat)
           n == Cardinality(S)
           o == Ascending(S)
<1>1. i \in Nat /\ S \in SUBSET (1..(i - 1)) /\ S \in SUBSET Nat
  BY DEF InboxInv, RowsFit, RowIds, InWindow
<1>2. IsFiniteSet(S)
  <2>1. IsFiniteSet(1..(i - 1))
    BY <1>1, FS_Interval
  <2> QED
    BY <1>1, <2>1, FS_Subset
<1> HIDE DEF S
<1>3. /\ n \in Nat /\ o \in [1..n -> S]
      /\ \A h \in S : \E k \in 1..n : o[k] = h
      /\ \A k, l \in 1..n : k < l => o[k] < o[l]
  BY <1>1, <1>2, NumbersListed
<1>4. \A k, l \in 1..n : o[k] = o[l] => k = l
  <2> SUFFICES ASSUME NEW k \in 1..n, NEW l \in 1..n, o[k] = o[l], k # l PROVE FALSE
    OBVIOUS
  <2>1. k < l \/ l < k
    BY <1>3
  <2>2. o[k] \in Nat /\ o[l] \in Nat
    BY <1>1, <1>3
  <2> QED
    BY <1>3, <2>1, <2>2
<1>5. Len(o) = n
  <2> HIDE DEF o, n
  <2> QED
    BY <1>3
<1>6. Historical(i, cat) = [k \in 1..n |-> EventOf(inbox[o[k]])]
  <2> DEFINE from == IF Len(o) > HistoryLimit THEN Len(o) - HistoryLimit ELSE 0
  <2>1. Historical(i, cat) = [k \in 1..(Len(o) - from) |-> EventOf(inbox[o[from + k]])]
    BY DEF Historical, S
  <2>2. n <= HistoryLimit
    BY DEF S
  <2>3. from = 0
    BY <1>3, <1>5, <2>2, HistoryLimitAssumption
  <2> HIDE DEF from, o, n
  <2>4. Len(o) - from = n /\ \A k \in 1..n : from + k = k
    BY <1>3, <1>5, <2>3
  <2> QED
    BY <2>1, <2>4
<1> HIDE DEF o
<1> QED
  BY <1>3, <1>4, <1>6 DEF S

\* Where no event says what another says, the batch for a row holds the events of its
\* window and its own, each of them once, and deduplication keeps them all.
LEMMA BatchWhole ==
  ASSUME InboxInv, NEW i \in RowIds, NEW cat, Cardinality(InWindow(i, cat)) <= HistoryLimit,
         NoTwins
  PROVE  \E o \in [1..Len(Batch(i, cat)) -> InWindow(i, cat) \cup {i}] :
           /\ Batch(i, cat) \in Seq(EngineEvents)
           /\ \A h \in InWindow(i, cat) \cup {i} : \E k \in 1..Len(Batch(i, cat)) : o[k] = h
           /\ \A k \in 1..Len(Batch(i, cat)) : Batch(i, cat)[k] = EventOf(inbox[o[k]])
           /\ NoIdTwice(Batch(i, cat))
           /\ Deduplicate(Batch(i, cat)).events = Batch(i, cat)
<1> DEFINE S == InWindow(i, cat)
           n == Cardinality(S)
           b == Batch(i, cat)
<1>1. PICK p \in [1..n -> S] :
        /\ n \in Nat
        /\ \A h \in S : \E k \in 1..n : p[k] = h
        /\ \A k, l \in 1..n : p[k] = p[l] => k = l
        /\ Historical(i, cat) = [k \in 1..n |-> EventOf(inbox[p[k]])]
  BY WholeHistory
<1>2. i \notin S /\ \A h \in S : h \in RowIds
  BY DEF InWindow, InboxInv, RowsFit, RowIds
<1>3. \A h \in RowIds : EventOf(inbox[h]) \in EngineEvents
  BY DEF InboxInv, RowsFit, RowFits, EngineEvents
<1> HIDE DEF S, n
<1>4. Historical(i, cat) \in Seq(EngineEvents) /\ Len(Historical(i, cat)) = n
  <2>1. Historical(i, cat) \in [1..n -> EngineEvents]
    BY <1>1, <1>2, <1>3
  <2> QED
    BY <1>1, <2>1
<1>5. /\ b \in Seq(EngineEvents) /\ Len(b) = n + 1
      /\ b[n + 1] = EventOf(inbox[i]) /\ \A k \in 1..n : b[k] = EventOf(inbox[p[k]])
  BY <1>1, <1>3, <1>4, AppendProperties DEF Batch
<1> HIDE DEF b
<1> DEFINE o == [k \in 1..(n + 1) |-> IF k = n + 1 THEN i ELSE p[k]]
<1>6. /\ o \in [1..(n + 1) -> S \cup {i}]
      /\ \A k \in 1..(n + 1) : o[k] \in RowIds /\ b[k] = EventOf(inbox[o[k]])
      /\ \A h \in S \cup {i} : \E k \in 1..(n + 1) : o[k] = h
      /\ \A k, l \in 1..(n + 1) : o[k] = o[l] => k = l
  <2>1. n + 1 \in 1..(n + 1) /\ (\A k \in 1..n : k \in 1..(n + 1) /\ k # n + 1)
        /\ \A k \in 1..(n + 1) : k = n + 1 \/ k \in 1..n
    BY <1>1
  <2>2. o[n + 1] = i /\ \A k \in 1..n : o[k] = p[k] /\ p[k] \in S
    BY <1>1, <2>1
  <2>3. o \in [1..(n + 1) -> S \cup {i}]
    BY <2>1, <2>2
  <2> HIDE DEF o
  <2>4. \A k \in 1..(n + 1) : o[k] \in RowIds /\ b[k] = EventOf(inbox[o[k]])
    BY <1>2, <1>5, <2>1, <2>2
  <2>5. \A h \in S \cup {i} : \E k \in 1..(n + 1) : o[k] = h
    BY <1>1, <2>1, <2>2
  <2>6. \A k, l \in 1..(n + 1) : o[k] = o[l] => k = l
    BY <1>1, <1>2, <2>1, <2>2
  <2> QED
    BY <2>3, <2>4, <2>5, <2>6
<1> HIDE DEF o
<1>7. NoIdTwice(b)
  <2> SUFFICES ASSUME NEW k \in 1..(n + 1), NEW l \in 1..(n + 1), b[k].id = b[l].id PROVE k = l
    BY <1>5 DEF NoIdTwice
  <2>1. o[k] = o[l]
    BY <1>6, IdsOnce
  <2> QED
    BY <1>6, <2>1
<1>8. Fresh(b)
  <2> SUFFICES ASSUME NEW k \in 1..(n + 1), NEW l \in 1..(n + 1), k # l
               PROVE  b[k].id # b[l].id /\ Fingerprint(b[k]) # Fingerprint(b[l])
    BY <1>5 DEF Fresh
  <2>1. o[k] # o[l] /\ o[k] \in RowIds /\ o[l] \in RowIds
    BY <1>6
  <2>2. Fingerprint(b[k]) # Fingerprint(b[l])
    BY <1>6, <2>1 DEF NoTwins
  <2>3. b[k].id # b[l].id
    BY <1>5, <1>7 DEF NoIdTwice
  <2> QED
    BY <2>2, <2>3
<1>9. Deduplicate(b).events = b
  BY <1>5, <1>8, FreshKept
<1>10. \E q \in [1..Len(b) -> S \cup {i}] :
         /\ \A h \in S \cup {i} : \E k \in 1..Len(b) : q[k] = h
         /\ \A k \in 1..Len(b) : b[k] = EventOf(inbox[q[k]])
  <2>1. Len(b) = n + 1
    BY <1>5
  <2>2. \E q \in [1..(n + 1) -> S \cup {i}] :
          /\ \A h \in S \cup {i} : \E k \in 1..(n + 1) : q[k] = h
          /\ \A k \in 1..(n + 1) : b[k] = EventOf(inbox[q[k]])
    BY <1>6
  <2> QED
    BY <2>1, <2>2, Zenon
<1>11. PICK q \in [1..Len(b) -> S \cup {i}] :
         /\ \A h \in S \cup {i} : \E k \in 1..Len(b) : q[k] = h
         /\ \A k \in 1..Len(b) : b[k] = EventOf(inbox[q[k]])
  BY <1>10
<1> QED
  BY <1>5, <1>7, <1>9, <1>11 DEF b, S

\* What is built from the batch of a row reports the bursts this row completes, if no
\* later row is processed.
LEMMA BuiltReportsBurst ==
  ASSUME InboxInv, NEW i \in RowIds, NEW cat \in Catalogs,
         Cardinality(InWindow(i, cat)) <= HistoryLimit, NoTwins, \A h \in Processed : h <= i,
         NEW rule \in cat.correlation, NEW j \in Processed \cup {i},
         i \in BurstIn(Processed \cup {i}, rule, j)
  PROVE  BurstReported({incident.id : incident \in Incidents(Batch(i, cat), cat)},
                       Processed \cup {i}, rule, j)
<1> DEFINE b == Batch(i, cat)
           S == InWindow(i, cat) \cup {i}
           B == BurstIn(Processed \cup {i}, rule, j)
           g == inbox[j].payload.group
<1> SUFFICES ASSUME rule.enabled, rule.inactivity >= rule.window,
                    inbox[j].payload.type = rule.type, g # NoGroup,
                    Cardinality(B) >= rule.minimum_count
             PROVE  \E incident \in Incidents(b, cat) :
                      /\ incident.id.kind = "correlation" /\ incident.id.rule = rule.id
                      /\ Ids(B) \subseteq incident.id.events
  BY DEF BurstReported
<1>1. Steady(rule)
  BY CatalogsAssumption DEF Steady
<1>2. \A h \in RowIds : /\ h \in Nat /\ h >= 1 /\ inbox[h].payload.time \in Int
                       /\ EventOf(inbox[h]).id \in Int
                       /\ EventOf(inbox[h]).id = IdOf(inbox[h].agent, inbox[h].event)
                       /\ EventOf(inbox[h]).time = inbox[h].payload.time
                       /\ EventOf(inbox[h]).type = inbox[h].payload.type
                       /\ EventOf(inbox[h]).group = inbox[h].payload.group
  <2> SUFFICES ASSUME NEW h \in RowIds
               PROVE  /\ h \in Nat /\ h >= 1 /\ inbox[h].payload.time \in Int
                      /\ IdOf(inbox[h].agent, inbox[h].event) \in Int
    BY DEF EventOf
  <2>1. /\ inbox[h].agent \in Agents /\ inbox[h].event \in EventIds
        /\ inbox[h].payload \in Payloads /\ h \in Nat /\ h >= 1
    BY DEF InboxInv, RowsFit, RowFits, InboxRow, RowIds
  <2> QED
    BY <2>1, IdsAssumption, PayloadsAssumption
<1>3. j \in RowIds /\ B \subseteq RowIds
      /\ \A h \in B : /\ h \in Processed \cup {i}
                      /\ inbox[h].payload.type = rule.type /\ inbox[h].payload.group = g
                      /\ InOrder(h, j)
                      /\ inbox[h].payload.time + rule.window >= inbox[j].payload.time
  BY DEF BurstIn, Processed
<1>4. inbox[i].payload.time <= inbox[j].payload.time
  BY <1>2, <1>3 DEF BurstIn, InOrder
<1>5. j \in S /\ B \subseteq S
  <2>1. MaxWindow(cat) \in Nat /\ rule.window \in Nat /\ rule.window <= MaxWindow(cat)
    BY WindowBound
  <2>2. ASSUME NEW h \in Processed \cup {i},
               inbox[h].payload.time + rule.window >= inbox[j].payload.time
        PROVE  h \in S
    <3>1. CASE h = i
      BY <3>1
    <3>2. CASE h # i
      <4>1. /\ h \in RowIds /\ inbox[h].status = "processed" /\ h \in 1..(i - 1)
        BY <1>2, <2>2, <3>2 DEF Processed
      <4>2. inbox[h].payload.time + MaxWindow(cat) >= inbox[i].payload.time
        BY <1>2, <1>3, <1>4, <2>1, <2>2, <4>1
      <4> QED
        BY <4>1, <4>2 DEF InWindow
    <3> QED
      BY <3>1, <3>2
  <2>3. j \in S
    BY <1>2, <1>3, <2>1, <2>2
  <2> HIDE DEF S, B
  <2> QED
    BY <1>3, <2>2, <2>3
<1>6. PICK o \in [1..Len(b) -> S] :
        /\ b \in Seq(EngineEvents)
        /\ \A h \in S : \E k \in 1..Len(b) : o[k] = h
        /\ \A k \in 1..Len(b) : b[k] = EventOf(inbox[o[k]])
        /\ NoIdTwice(b)
        /\ Deduplicate(b).events = b
  BY BatchWhole
<1> HIDE DEF S, B, b, g
<1>7. PICK last \in 1..Len(b) : o[last] = j
  BY <1>5, <1>6
<1> DEFINE f == [h \in B |-> CHOOSE k \in 1..Len(b) : o[k] = h]
<1>8. \A h \in B : f[h] \in 1..Len(b) /\ o[f[h]] = h
  BY <1>5, <1>6
<1> HIDE DEF f
<1>9. \A h \in B : b[f[h]] = EventOf(inbox[h])
  BY <1>6, <1>8
<1>10. Together(b, rule, g, last, B, f)
  <2>1. last \in 1..Len(b) /\ b[last] = EventOf(inbox[j])
    BY <1>6, <1>7
  <2>2. b[last].type = rule.type /\ b[last].group = g
    BY <1>2, <1>3, <2>1 DEF g
  <2>3. f \in [B -> 1..Len(b)]
    BY <1>8 DEF f
  <2>4. \A x, y \in B : f[x] = f[y] => x = y
    BY <1>8
  <2>5. ASSUME NEW h \in B
        PROVE  /\ b[f[h]].type = rule.type /\ b[f[h]].group = g
               /\ b[f[h]].time + rule.window >= b[last].time
               /\ ~Earlier(b[last], b[f[h]])
    <3>1. h \in RowIds /\ b[f[h]] = EventOf(inbox[h])
      BY <1>3, <1>9
    <3>2. ~Earlier(EventOf(inbox[j]), EventOf(inbox[h]))
      BY <1>2, <1>3, <3>1 DEF Earlier, InOrder
    <3> QED
      BY <1>2, <1>3, <2>1, <3>1, <3>2
  <2> QED
    BY <2>1, <2>2, <2>3, <2>4, <2>5 DEF Together
<1>11. PICK w \in Windows(Grouped(b, rule, g), rule) :
         \A h \in B : \E k \in DOMAIN w : w[k] = b[f[h]]
  BY <1>1, <1>6, <1>10, EngineEventsPlaced, TogetherIs
<1> DEFINE m == [rule |-> rule.id, wording |-> rule.wording, window |-> w]
<1>12. m \in Correlations(b, cat.correlation)
  <2>1. g \in Groups(b)
    <3>1. last \in DOMAIN b /\ b[last].group = g
      BY <1>6, <1>10 DEF Together
    <3> QED
      BY <3>1 DEF Groups
  <2>2. w \in UNION {Windows(Grouped(b, rule, gg), rule) : gg \in Groups(b)}
    BY <1>11, <2>1
  <2>3. rule \in {r \in cat.correlation : r.enabled}
    OBVIOUS
  <2> QED
    BY <2>2, <2>3 DEF Correlations
<1>13. CorrelationIncident(m) \in Incidents(b, cat)
  BY <1>6, <1>12 DEF Incidents
<1>14. /\ CorrelationIncident(m).id.kind = "correlation" /\ CorrelationIncident(m).id.rule = rule.id
       /\ CorrelationIncident(m).id.events = {w[k].id : k \in DOMAIN w}
  BY DEF CorrelationIncident
<1>15. Ids(B) \subseteq {w[k].id : k \in DOMAIN w}
  <2> SUFFICES ASSUME NEW h \in B
               PROVE  \E k \in DOMAIN w : IdOf(inbox[h].agent, inbox[h].event) = w[k].id
    BY DEF Ids
  <2>1. PICK k \in DOMAIN w : w[k] = b[f[h]]
    BY <1>11
  <2> QED
    BY <1>2, <1>3, <1>9, <2>1
<1> HIDE DEF m
<1> QED
  BY <1>13, <1>14, <1>15


-----------------------------------------------------------------------------
(* One worker: the order of its claims *)

\* A row that was never tried waits, and comes after all that were tried.
Waiting == \A i \in RowIds : inbox[i].attempts = 0 => inbox[i].status = "pending"

TriedInOrder(w) ==
  /\ \A h, i \in RowIds : inbox[i].attempts = 0 /\ inbox[h].attempts > 0 => h < i
  /\ worker[w].last \in 0..Len(inbox)
  /\ \A i \in RowIds : inbox[i].attempts = 0 => worker[w].last < i

\* When a worker is at the first attempt of a row, no later row was tried.
HoldsNewest(w) ==
  Busy(w) /\ worker[w].token = 1 =>
    \A h \in RowIds : inbox[h].attempts > 0 => h <= worker[w].row

\* What it has found reports the bursts its row completes.
BurstsFound(w) ==
  worker[w].pc = "evaluated" /\ Undisturbed =>
    LET rows == Processed \cup {worker[w].row} IN
      \A rule \in catalog.correlation : \A j \in rows :
        worker[w].row \in BurstIn(rows, rule, j) => BurstReported(IdsFound(w), rows, rule, j)

ClaimsInOrder(w) == Waiting /\ TriedInOrder(w) /\ HoldsNewest(w)

AloneInv(w) ==
  /\ loaded[w] = catalog
  /\ ClaimsInOrder(w)
  /\ BurstsFound(w)
  /\ Undisturbed => NoBurstLost

\* No step but a claim tries a row; rows that are added were never tried.
LEMMA AttemptsStay ==
  ASSUME InboxInv,
         \/ Collects
         \/ \E i \in RowIds : GoStale(i)
         \/ \E w \in Workers : EndBatch(w) \/ Finalize(w) \/ RecordFailure(w)
         \/ UNCHANGED inbox
  PROVE  /\ \A i \in RowIds : i \in RowIds' /\ inbox'[i].attempts = inbox[i].attempts
         /\ \A i \in RowIds' \ RowIds : inbox'[i].attempts = 0 /\ inbox'[i].status = "pending"
<1> DEFINE Goal == /\ \A i \in RowIds : i \in RowIds' /\ inbox'[i].attempts = inbox[i].attempts
                   /\ \A i \in RowIds' \ RowIds : inbox'[i].attempts = 0 /\ inbox'[i].status = "pending"
<1>1. \A i \in RowIds : RowFits(inbox[i]) /\ inbox[i] \in InboxRow
  BY DEF InboxInv, RowsFit, RowFits
<1>2. CASE UNCHANGED inbox
  BY <1>2 DEF RowIds
<1>3. ASSUME NEW c \in Certificates, IngestBatch(c) PROVE Goal
  BY <1>3, IngestRows
<1>4. CASE Collects
  BY <1>2, <1>3, <1>4 DEF Collects, Register, Revoke, Identify
<1>5. ASSUME NEW j \in RowIds, GoStale(j) PROVE Goal
  <2>1. /\ RowIds' = RowIds
        /\ \A i \in RowIds : inbox'[i] = IF i = j THEN [inbox[j] EXCEPT !.stale = TRUE] ELSE inbox[i]
    BY <1>5, GoStaleIs
  <2>2. [inbox[j] EXCEPT !.stale = TRUE].attempts = inbox[j].attempts
    BY <1>1 DEF InboxRow
  <2> QED
    BY <2>1, <2>2
<1>6. ASSUME NEW w \in Workers, EndBatch(w) PROVE Goal
  <2>1. inbox' = Visible(w) \/ UNCHANGED inbox
    BY <1>6 DEF EndBatch
  <2>2. CASE inbox' = Visible(w)
    <3>1. RowIds' = RowIds
      BY <2>2, VisibleStep
    <3>2. \A i \in RowIds : inbox'[i].attempts = inbox[i].attempts
      BY <2>2, VisibleFits DEF InboxInv
    <3> QED
      BY <3>1, <3>2
  <2> QED
    BY <1>2, <2>1, <2>2
<1>7. ASSUME NEW w \in Workers, Finalize(w) PROVE Goal
  <2>1. /\ RowIds' = RowIds /\ inbox'[worker[w].row].attempts = inbox[worker[w].row].attempts
        /\ \A j \in RowIds : j # worker[w].row => inbox'[j] = inbox[j]
    BY <1>7, FinalizeIs
  <2> QED
    BY <2>1
<1>8. ASSUME NEW w \in Workers, RecordFailure(w) PROVE Goal
  <2>1. /\ RowIds' = RowIds /\ worker[w].row \in RowIds
        /\ inbox[worker[w].row].status = "processing"
        /\ inbox'[worker[w].row] = Released(inbox[worker[w].row])
        /\ \A j \in RowIds : j # worker[w].row => inbox'[j] = inbox[j]
    BY <1>8, RecordFailureIs
  <2>2. inbox'[worker[w].row].attempts = inbox[worker[w].row].attempts
    BY <1>1, <2>1, ReleasedFits
  <2> QED
    BY <2>1, <2>2
<1> QED
  BY <1>2, <1>4, <1>5, <1>6, <1>7, <1>8

\* A row that was never tried keeps waiting.
LEMMA WaitingStays ==
  ASSUME InboxInv, InboxInv', Next, Waiting,
         \A i \in RowIds' \ RowIds : inbox'[i].attempts = 0 => inbox'[i].status = "pending"
  PROVE  Waiting'
<1> SUFFICES ASSUME NEW i \in RowIds, inbox'[i].attempts = 0 PROVE inbox'[i].status = "pending"
  BY DEF Waiting
<1>1. Moves(inbox[i], inbox'[i]) /\ i \in RowIds'
  BY RowMoves
<1>2. RowFits(inbox[i]) /\ RowFits(inbox'[i])
  BY <1>1 DEF InboxInv, RowsFit
<1>3. inbox[i].attempts \in Nat /\ MaxAttempts \in Nat /\ MaxAttempts # 0
  BY <1>2, LimitsAssumption DEF RowFits, InboxRow
<1>4. inbox[i].attempts = 0 /\ inbox[i].status = "pending"
  BY <1>1, <1>3 DEF Moves, Waiting
<1>5. inbox'[i].status # "processing"
  BY <1>2 DEF RowFits
<1> QED
  BY <1>1, <1>3, <1>4, <1>5 DEF Moves, Queued

\* What its own step leaves of a worker's claim.
LEMMA ClaimKept ==
  ASSUME InboxInv, NEW w \in Workers,
         \/ UNCHANGED worker
         \/ EndBatch(w) \/ Evaluate(w) \/ ProcessingRaises(w) \/ Finalize(w) \/ LoseClaim(w)
         \/ RecordFailure(w) \/ AbortBatch(w) \/ Restart(w) \/ StopWorker(w) \/ Crash(w)
  PROVE  /\ worker'[w].last \in {0, worker[w].last}
         /\ Busy(w)' => /\ Busy(w) /\ worker'[w].row = worker[w].row
                        /\ worker'[w].token = worker[w].token
<1>1. worker \in [Workers -> WorkerState]
  BY DEF InboxInv, TypeOK
<1>2. AtStart.last = 0 /\ Down.last = 0 /\ AtStart.pc = "claiming" /\ Down.pc = "down"
  BY DEF AtStart, Down
<1>3. CASE UNCHANGED worker
  BY <1>3 DEF Busy
<1>4. CASE EndBatch(w) \/ AbortBatch(w) \/ Restart(w) \/ StopWorker(w) \/ Crash(w)
  <2>1. worker' = [worker EXCEPT ![w] = AtStart] \/ worker' = [worker EXCEPT ![w] = Down]
    BY <1>4 DEF EndBatch, AbortBatch, Restart, StopWorker, Crash
  <2>2. worker'[w] = AtStart \/ worker'[w] = Down
    BY <1>1, <2>1
  <2> QED
    BY <1>2, <2>2 DEF Busy
<1>5. CASE Evaluate(w) \/ ProcessingRaises(w) \/ Finalize(w) \/ LoseClaim(w) \/ RecordFailure(w)
  <2>1. PICK pc \in {"evaluated", "failing", "claiming"} :
          /\ worker' = [worker EXCEPT ![w].pc = pc]
          /\ pc # "claiming" => worker[w].pc \in {"holding", "evaluated"}
    BY <1>5 DEF Evaluate, ProcessingRaises, Finalize, LoseClaim, RecordFailure, Goes
  <2>2. worker'[w] = [worker[w] EXCEPT !.pc = pc]
    BY <1>1, <2>1
  <2>3. /\ worker'[w].pc = pc /\ worker'[w].row = worker[w].row
        /\ worker'[w].token = worker[w].token /\ worker'[w].last = worker[w].last
    BY <1>1, <2>2 DEF WorkerState
  <2> QED
    BY <2>1, <2>3 DEF Busy
<1> QED
  BY <1>3, <1>4, <1>5

\* The oldest row that was never tried is claimed before any later one.
LEMMA ClaimOrder ==
  ASSUME InboxInv, InboxInv', Next, NEW w \in Workers, ClaimsInOrder(w), ClaimNext(w)
  PROVE  ClaimsInOrder(w)'
<1> DEFINE seen == Visible(w)
<1>1. PICK i \in Due(seen, worker[w].last) :
        /\ \A j \in Due(seen, worker[w].last) : i <= j
        /\ inbox' = [seen EXCEPT ![i] = Claimed(seen[i])]
        /\ worker' = [worker EXCEPT ![w] =
             [pc |-> "holding", row |-> i, token |-> seen[i].attempts + 1,
              taken |-> worker[w].taken + 1, last |-> i]]
  BY DEF ClaimNext
<1>2. /\ DOMAIN seen = RowIds
      /\ \A j \in RowIds : /\ RowFits(seen[j]) /\ seen[j].attempts = inbox[j].attempts
                           /\ seen[j] # inbox[j] => inbox[j].stale
  BY VisibleFits DEF InboxInv
<1>3. RowIds' = RowIds
  BY ClaimNextIs
<1>4. /\ Len(inbox) \in Nat /\ Len(inbox') = Len(inbox) /\ RowIds = 1..Len(inbox)
      /\ \A j \in RowIds : RowFits(inbox[j]) /\ inbox[j].attempts \in Nat
  <2>1. Len(inbox) \in Nat /\ Len(inbox') \in Nat /\ RowIds = 1..Len(inbox) /\ RowIds' = 1..Len(inbox')
    BY DEF InboxInv, RowsFit, RowIds
  <2>2. Len(inbox') = Len(inbox)
    BY <1>3, <2>1
  <2>3. \A j \in RowIds : RowFits(inbox[j]) /\ inbox[j].attempts \in Nat
    BY LimitsAssumption DEF InboxInv, RowsFit, RowFits, InboxRow
  <2> QED
    BY <2>1, <2>2, <2>3
<1> HIDE DEF seen
<1>5. i \in RowIds /\ seen[i].status = "pending"
  BY <1>1, <1>2 DEF Due
<1>6. /\ inbox'[i].attempts = inbox[i].attempts + 1
      /\ \A j \in RowIds : j # i => inbox'[j].attempts = inbox[j].attempts
  <2>1. inbox'[i] = Claimed(seen[i]) /\ \A j \in RowIds : j # i => inbox'[j] = seen[j]
    BY <1>1, <1>2, <1>5
  <2>2. Claimed(seen[i]).attempts = seen[i].attempts + 1
    BY <1>2, <1>5, ClaimedFits
  <2> QED
    BY <1>2, <1>5, <2>1, <2>2
<1>7. worker'[w].last = i /\ worker'[w].row = i /\ worker'[w].token = inbox[i].attempts + 1
  <2>1. worker \in [Workers -> WorkerState]
    BY DEF InboxInv, TypeOK
  <2> QED
    BY <1>1, <1>2, <1>5, <2>1
<1>8. ASSUME NEW j \in RowIds, inbox[j].attempts = 0 PROVE i <= j
  <2>1. inbox[j].status = "pending" /\ worker[w].last < j
    BY <1>8 DEF ClaimsInOrder, Waiting, TriedInOrder
  <2>2. ~inbox[j].stale
    BY <1>4, <2>1 DEF RowFits
  <2>3. seen[j] = inbox[j]
    BY <1>2, <2>2
  <2>4. 0 < MaxAttempts
    BY LimitsAssumption
  <2>5. j \in Due(seen, worker[w].last)
    BY <1>2, <1>8, <2>1, <2>3, <2>4 DEF Due
  <2> QED
    BY <1>1, <2>5
<1>9. ASSUME NEW j \in RowIds, inbox'[j].attempts = 0 PROVE inbox[j].attempts = 0 /\ j # i /\ i < j
  <2>1. j # i /\ inbox[j].attempts = 0
    BY <1>4, <1>5, <1>6, <1>9
  <2> QED
    BY <1>4, <1>5, <1>8, <2>1
<1>10. TriedInOrder(w)'
  <2>1. ASSUME NEW h \in RowIds, NEW j \in RowIds, inbox'[j].attempts = 0, inbox'[h].attempts > 0
        PROVE  h < j
    <3>1. CASE h = i
      BY <1>9, <2>1, <3>1
    <3>2. CASE h # i
      BY <1>6, <1>9, <2>1, <3>2 DEF ClaimsInOrder, TriedInOrder
    <3> QED
      BY <3>1, <3>2
  <2>2. i \in 0..Len(inbox')
    BY <1>4, <1>5
  <2> QED
    BY <1>3, <1>7, <1>9, <2>1, <2>2 DEF TriedInOrder
<1>11. HoldsNewest(w)'
  <2> SUFFICES ASSUME worker'[w].token = 1, NEW h \in RowIds, inbox'[h].attempts > 0
               PROVE  h <= i
    BY <1>3, <1>7 DEF HoldsNewest
  <2>1. inbox[i].attempts = 0
    BY <1>4, <1>5, <1>7
  <2>2. CASE h = i
    BY <1>4, <2>2
  <2>3. CASE h # i
    <3>1. h < i
      BY <1>5, <1>6, <2>1, <2>3 DEF ClaimsInOrder, TriedInOrder
    <3>2. h \in Nat /\ i \in Nat
      BY <1>4, <1>5
    <3> QED
      BY <3>1, <3>2
  <2> QED
    BY <2>2, <2>3
<1>12. Waiting'
  BY <1>3, WaitingStays DEF ClaimsInOrder
<1> QED
  BY <1>10, <1>11, <1>12 DEF ClaimsInOrder

\* Other steps leave the order of claims alone.
LEMMA OrderStays ==
  ASSUME InboxInv, InboxInv', Next \/ UNCHANGED inbox, NEW w \in Workers, ClaimsInOrder(w),
         \/ Collects
         \/ \E i \in RowIds : GoStale(i)
         \/ EndBatch(w) \/ Finalize(w) \/ RecordFailure(w)
         \/ UNCHANGED inbox,
         worker'[w].last \in {0, worker[w].last},
         Busy(w)' => /\ Busy(w) /\ worker'[w].row = worker[w].row
                     /\ worker'[w].token = worker[w].token
  PROVE  ClaimsInOrder(w)'
<1>1. /\ \A i \in RowIds : i \in RowIds' /\ inbox'[i].attempts = inbox[i].attempts
      /\ \A i \in RowIds' \ RowIds : inbox'[i].attempts = 0 /\ inbox'[i].status = "pending"
  BY AttemptsStay
<1>2. /\ Len(inbox) \in Nat /\ Len(inbox') \in Nat /\ Len(inbox) <= Len(inbox')
      /\ RowIds = 1..Len(inbox) /\ RowIds' = 1..Len(inbox')
      /\ \A i \in RowIds' \ RowIds : i > Len(inbox)
  <2>1. Len(inbox) \in Nat /\ Len(inbox') \in Nat /\ RowIds = 1..Len(inbox) /\ RowIds' = 1..Len(inbox')
    BY DEF InboxInv, RowsFit, RowIds
  <2>2. CASE Len(inbox) = 0
    BY <2>1, <2>2
  <2>3. CASE Len(inbox) # 0
    <3>1. Len(inbox) \in RowIds'
      BY <1>1, <2>1, <2>3
    <3> QED
      BY <2>1, <3>1
  <2> QED
    BY <2>2, <2>3
<1>3. Waiting'
  <2>1. CASE Next
    BY <1>1, <2>1, WaitingStays DEF ClaimsInOrder
  <2>2. CASE UNCHANGED inbox
    BY <2>2 DEF ClaimsInOrder, Waiting, RowIds
  <2> QED
    BY <2>1, <2>2
<1>4. TriedInOrder(w) /\ HoldsNewest(w)
  BY DEF ClaimsInOrder
<1>5. TriedInOrder(w)'
  <2>1. ASSUME NEW h \in RowIds', NEW i \in RowIds', inbox'[i].attempts = 0, inbox'[h].attempts > 0
        PROVE  h < i
    <3>1. h \in RowIds /\ inbox[h].attempts > 0
      BY <1>1, <2>1
    <3>2. CASE i \in RowIds
      BY <1>1, <1>4, <2>1, <3>1, <3>2 DEF TriedInOrder
    <3>3. CASE i \notin RowIds
      <4>1. i > Len(inbox) /\ h <= Len(inbox)
        BY <1>2, <3>1, <3>3
      <4> QED
        BY <1>2, <3>1, <4>1
    <3> QED
      BY <3>2, <3>3
  <2>2. worker'[w].last \in 0..Len(inbox')
    BY <1>2, <1>4 DEF TriedInOrder
  <2>3. ASSUME NEW i \in RowIds', inbox'[i].attempts = 0
        PROVE  worker'[w].last < i
    <3>1. CASE worker'[w].last = 0
      BY <1>2, <3>1
    <3>2. CASE worker'[w].last = worker[w].last /\ i \in RowIds
      BY <1>1, <1>4, <2>3, <3>2 DEF TriedInOrder
    <3>3. CASE worker'[w].last = worker[w].last /\ i \notin RowIds
      <4>1. i > Len(inbox) /\ worker'[w].last \in 0..Len(inbox)
        BY <1>2, <1>4, <3>3 DEF TriedInOrder
      <4> QED
        BY <1>2, <4>1
    <3> QED
      BY <3>1, <3>2, <3>3
  <2> QED
    BY <2>1, <2>2, <2>3 DEF TriedInOrder
<1>6. HoldsNewest(w)'
  <2> SUFFICES ASSUME Busy(w)', worker'[w].token = 1, NEW h \in RowIds', inbox'[h].attempts > 0
               PROVE  h <= worker'[w].row
    BY DEF HoldsNewest
  <2>1. h \in RowIds /\ inbox[h].attempts > 0
    BY <1>1
  <2> QED
    BY <1>4, <2>1 DEF HoldsNewest
<1> QED
  BY <1>3, <1>5, <1>6 DEF ClaimsInOrder


-----------------------------------------------------------------------------
(* One worker: no burst is lost *)

\* Rows keep what they say.
LEMMA EventsStay ==
  ASSUME InboxInv, [Next]_vars, NEW h \in RowIds
  PROVE  /\ h \in RowIds'
         /\ inbox'[h].agent = inbox[h].agent /\ inbox'[h].event = inbox[h].event
         /\ inbox'[h].payload = inbox[h].payload
         /\ inbox[h].attempts \in Nat /\ inbox'[h].attempts \in Nat
         /\ inbox[h].attempts <= inbox'[h].attempts
<1>1. inbox[h].attempts \in Nat /\ MaxAttempts \in Nat
  BY LimitsAssumption DEF InboxInv, RowsFit, RowFits, InboxRow
<1>2. CASE UNCHANGED vars
  BY <1>1, <1>2 DEF vars, RowIds
<1>3. CASE Next
  <2>1. /\ h \in RowIds' /\ Moves(inbox[h], inbox'[h])
        /\ inbox'[h].agent = inbox[h].agent /\ inbox'[h].event = inbox[h].event
        /\ inbox'[h].payload = inbox[h].payload
    BY <1>3, RowMoves
  <2>2. inbox'[h].attempts = inbox[h].attempts \/ inbox'[h].attempts = inbox[h].attempts + 1
    BY <2>1 DEF Moves
  <2> QED
    BY <1>1, <2>1, <2>2
<1> QED
  BY <1>2, <1>3

\* So a burst among rows that are there stays what it is, and its report a report.
LEMMA BurstKept ==
  ASSUME InboxInv, [Next]_vars, NEW rows \in SUBSET RowIds, NEW rule, NEW j \in rows
  PROVE  /\ BurstIn(rows, rule, j)' = BurstIn(rows, rule, j)
         /\ \A ids : BurstReported(ids, rows, rule, j)' <=> BurstReported(ids, rows, rule, j)
<1>1. \A h \in rows : /\ inbox'[h].agent = inbox[h].agent /\ inbox'[h].event = inbox[h].event
                      /\ inbox'[h].payload = inbox[h].payload
  BY EventsStay
<1>2. BurstIn(rows, rule, j)' = BurstIn(rows, rule, j)
  BY <1>1 DEF BurstIn, InOrder
<1>3. PICK burst \in SUBSET rows : burst = BurstIn(rows, rule, j)
  BY DEF BurstIn
<1>4. Ids(burst)' = Ids(burst)
  BY <1>1, <1>3 DEF Ids
<1>5. ASSUME NEW ids
      PROVE  BurstReported(ids, rows, rule, j)' <=> BurstReported(ids, rows, rule, j)
  BY <1>1, <1>2, <1>3, <1>4 DEF BurstReported
<1> QED
  BY <1>2, <1>5

LEMMA ReportedMore ==
  ASSUME NEW ids, NEW more, ids \subseteq more, NEW rows, NEW rule, NEW j,
         BurstReported(ids, rows, rule, j)
  PROVE  BurstReported(more, rows, rule, j)
  BY DEF BurstReported

\* What disturbs the history does so for good.
LEMMA UndisturbedBefore ==
  ASSUME InboxInv, [Next]_vars, UNCHANGED catalog, Undisturbed'
  PROVE  Undisturbed
<1>1. \A h \in RowIds : /\ h \in RowIds'
                        /\ EventOf(inbox'[h]) = EventOf(inbox[h])
                        /\ inbox'[h].payload = inbox[h].payload
                        /\ inbox[h].attempts \in Nat /\ inbox'[h].attempts \in Nat
                        /\ inbox[h].attempts <= inbox'[h].attempts
  BY EventsStay DEF EventOf
<1>2. NoTwins
  BY <1>1 DEF Undisturbed, NoTwins
<1>3. ASSUME NEW i \in RowIds
      PROVE  inbox[i].attempts <= 1 /\ Cardinality(EarlierInWindow(i)) <= HistoryLimit
  <2>1. inbox'[i].attempts <= 1 /\ Cardinality(EarlierInWindow(i)') <= HistoryLimit
    BY <1>1 DEF Undisturbed
  <2>2. \A j \in 1..(i - 1) : j \in RowIds
    BY DEF RowIds, InboxInv, RowsFit
  <2>3. MaxWindow(catalog)' = MaxWindow(catalog)
    BY DEF MaxWindow
  <2>4. EarlierInWindow(i)' = EarlierInWindow(i)
    BY <1>1, <2>2, <2>3 DEF EarlierInWindow
  <2> QED
    BY <1>1, <2>1, <2>4
<1> QED
  BY <1>2, <1>3 DEF Undisturbed

\* Steps that process no row and save nothing.
LEMMA AloneQuiet ==
  ASSUME PipelineInv, NEW w \in Workers, AloneInv(w), [Next]_vars,
         UNCHANGED catalog, DOMAIN incidents' = DOMAIN incidents, Processed' = Processed,
         worker'[w].pc = "evaluated" =>
           /\ worker[w].pc = "evaluated" /\ worker'[w].row = worker[w].row
           /\ found'[w] = found[w]
  PROVE  BurstsFound(w)' /\ (Undisturbed => NoBurstLost)'
<1>1. InboxInv
  BY DEF PipelineInv
<1>2. CASE ~Undisturbed'
  BY <1>2 DEF BurstsFound
<1>3. CASE Undisturbed'
  <2>1. Undisturbed
    BY <1>1, <1>3, UndisturbedBefore
  <2>2. NoBurstLost'
    <3> PICK rows \in SUBSET RowIds : rows = Processed
      BY DEF Processed
    <3> PICK ids : ids = DOMAIN incidents
      OBVIOUS
    <3> SUFFICES ASSUME NEW rule \in catalog.correlation, NEW j \in rows
                 PROVE  BurstReported(ids, rows, rule, j)'
      BY DEF NoBurstLost
    <3>1. BurstReported(ids, rows, rule, j)
      BY <2>1 DEF AloneInv, NoBurstLost
    <3> QED
      BY <1>1, <3>1, BurstKept
  <2>3. BurstsFound(w)'
    <3> SUFFICES ASSUME worker'[w].pc = "evaluated"
                 PROVE  \A rule \in catalog.correlation : \A j \in Processed \cup {worker[w].row} :
                          worker[w].row \in BurstIn(Processed \cup {worker[w].row}, rule, j)' =>
                            BurstReported(IdsFound(w), Processed \cup {worker[w].row}, rule, j)'
      BY DEF BurstsFound
    <3>1. worker[w].row \in RowIds
      BY <1>1 DEF InboxInv, ClaimsKnown, Busy
    <3> PICK i \in RowIds : i = worker[w].row
      BY <3>1
    <3> PICK rows \in SUBSET RowIds : rows = Processed \cup {i}
      BY DEF Processed
    <3> PICK ids : ids = IdsFound(w)
      OBVIOUS
    <3>2. IdsFound(w)' = ids /\ (Processed \cup {worker[w].row})' = rows
      BY DEF IdsFound
    <3>3. ASSUME NEW rule \in catalog.correlation, NEW j \in rows, i \in BurstIn(rows, rule, j)'
          PROVE  BurstReported(ids, rows, rule, j)'
      <4>1. i \in BurstIn(rows, rule, j)
        BY <1>1, <3>3, BurstKept
      <4>2. BurstReported(ids, rows, rule, j)
        BY <2>1, <4>1 DEF AloneInv, BurstsFound
      <4> QED
        BY <1>1, <4>2, BurstKept
    <3> QED
      BY <3>2, <3>3
  <2> QED
    BY <2>2, <2>3
<1> QED
  BY <1>2, <1>3

\* What a worker evaluates at the first attempt of a row sees every earlier event.
LEMMA AloneEvaluate ==
  ASSUME PipelineInv, NEW w \in Workers, AloneInv(w), Next, EvaluateClaim(w)
  PROVE  BurstsFound(w)' /\ (Undisturbed => NoBurstLost)'
<1>1. /\ InboxInv /\ CatalogsLoaded /\ Busy(w) /\ worker[w].pc = "holding"
      /\ worker' = [worker EXCEPT ![w].pc = "evaluated"]
      /\ UNCHANGED <<inbox, incidents, catalog>>
      /\ found' = [found EXCEPT ![w] = {ForStore(incident) :
           incident \in Incidents(Batch(worker[w].row, loaded[w]), loaded[w])}]
  BY DEF EvaluateClaim, Evaluate, Goes, PipelineInv, Busy
<1>2. Undisturbed' <=> Undisturbed
  BY <1>1 DEF Undisturbed, NoTwins, RowIds, EarlierInWindow, MaxWindow
<1>3. Processed' = Processed
  BY <1>1 DEF Processed, RowIds
<1>4. (Undisturbed => NoBurstLost)'
  <2> SUFFICES ASSUME Undisturbed PROVE NoBurstLost'
    BY <1>2
  <2> PICK rows \in SUBSET RowIds : rows = Processed
    BY DEF Processed
  <2> PICK ids : ids = DOMAIN incidents
    OBVIOUS
  <2> SUFFICES ASSUME NEW rule \in catalog.correlation, NEW j \in rows
               PROVE  BurstReported(ids, rows, rule, j)'
    BY <1>1, <1>3 DEF NoBurstLost
  <2>1. BurstReported(ids, rows, rule, j)
    BY DEF AloneInv, NoBurstLost
  <2> QED
    BY <1>1, <2>1, BurstKept
<1>5. worker[w].row \in RowIds /\ worker[w].token \in 1..inbox[worker[w].row].attempts
  BY <1>1 DEF InboxInv, ClaimsKnown
<1> PICK i \in RowIds, cat \in Catalogs : i = worker[w].row /\ cat = catalog /\ cat = loaded[w]
  BY <1>1, <1>5 DEF CatalogsLoaded, AloneInv
<1>6. /\ worker'[w].row = i
      /\ found'[w] = {ForStore(incident) : incident \in Incidents(Batch(i, cat), cat)}
  <2>1. worker \in [Workers -> WorkerState]
    BY <1>1 DEF InboxInv, TypeOK
  <2> QED
    BY <1>1, <2>1 DEF WorkerState, CatalogsLoaded
<1> PICK ids : ids = {incident.id : incident \in Incidents(Batch(i, cat), cat)}
  OBVIOUS
<1>7. IdsFound(w)' = ids
  <2>1. \A incident : ForStore(incident).id = incident.id
    BY DEF ForStore
  <2>2. IdsFound(w)' = {incident.id : incident \in found'[w]}
    BY DEF IdsFound
  <2> QED
    BY <1>6, <2>1, <2>2
<1>8. ASSUME Undisturbed PROVE BurstsFound(w)'
  <2> PICK rows \in SUBSET RowIds : rows = Processed \cup {i}
    BY DEF Processed
  <2>1. \A h \in RowIds : /\ inbox[h].attempts \in Nat /\ inbox[h].attempts <= 1
                          /\ RowIds \in SUBSET Nat
    BY <1>1, <1>8, LimitsAssumption DEF InboxInv, RowsFit, RowFits, InboxRow, Undisturbed, RowIds
  <2>2. worker[w].token = 1
    BY <1>5, <2>1
  <2>3. \A h \in Processed : h <= i
    <3> SUFFICES ASSUME NEW h \in Processed PROVE h <= i
      OBVIOUS
    <3>1. h \in RowIds /\ inbox[h].status = "processed"
      BY DEF Processed
    <3>2. inbox[h].attempts # 0
      BY <3>1 DEF AloneInv, ClaimsInOrder, Waiting
    <3>3. inbox[h].attempts > 0
      BY <2>1, <3>1, <3>2
    <3> QED
      BY <1>1, <2>2, <3>1, <3>3 DEF AloneInv, ClaimsInOrder, HoldsNewest
  <2>4. Cardinality(InWindow(i, cat)) <= HistoryLimit
    <3>1. InWindow(i, cat) \subseteq EarlierInWindow(i) /\ EarlierInWindow(i) \subseteq 1..(i - 1)
      BY DEF InWindow, EarlierInWindow
    <3>2. IsFiniteSet(1..(i - 1))
      BY <2>1, FS_Interval
    <3>3. IsFiniteSet(EarlierInWindow(i))
      BY <3>1, <3>2, FS_Subset
    <3>4. /\ IsFiniteSet(InWindow(i, cat))
          /\ Cardinality(InWindow(i, cat)) <= Cardinality(EarlierInWindow(i))
      BY <3>1, <3>3, FS_Subset
    <3>5. Cardinality(InWindow(i, cat)) \in Nat /\ Cardinality(EarlierInWindow(i)) \in Nat
      BY <3>3, <3>4, FS_CardinalityType
    <3>6. Cardinality(EarlierInWindow(i)) <= HistoryLimit
      BY <1>8 DEF Undisturbed
    <3> QED
      BY <3>4, <3>5, <3>6, HistoryLimitAssumption
  <2>5. ASSUME NEW rule \in cat.correlation, NEW j \in rows, i \in BurstIn(rows, rule, j)
        PROVE  BurstReported(ids, rows, rule, j)
    BY <1>1, <1>8, <2>3, <2>4, <2>5, BuiltReportsBurst DEF Undisturbed
  <2>6. ASSUME NEW rule \in cat.correlation, NEW j \in rows, i \in BurstIn(rows, rule, j)'
        PROVE  BurstReported(ids, rows, rule, j)'
    <3>1. i \in BurstIn(rows, rule, j)
      BY <1>1, <2>6, BurstKept
    <3>2. BurstReported(ids, rows, rule, j)
      BY <2>5, <3>1
    <3> QED
      BY <1>1, <3>2, BurstKept
  <2>7. catalog' = cat /\ worker'[w].row = i /\ (Processed \cup {worker[w].row})' = rows
    BY <1>1, <1>3, <1>6
  <2> QED
    BY <1>7, <2>6, <2>7 DEF BurstsFound
<1>9. BurstsFound(w)'
  <2>1. ASSUME ~Undisturbed PROVE BurstsFound(w)'
    BY <1>2, <2>1 DEF BurstsFound
  <2> QED
    BY <1>8, <2>1
<1> QED
  BY <1>4, <1>9

\* What it found is saved with the row: a burst of the processed events is one of the
\* earlier ones, or this row is one of its events.
LEMMA AloneFinalize ==
  ASSUME PipelineInv, NEW w \in Workers, AloneInv(w), Next, FinalizeClaim(w)
  PROVE  BurstsFound(w)' /\ (Undisturbed => NoBurstLost)'
<1>1. /\ InboxInv /\ Finalize(w) /\ Store!SaveMany(found[w]) /\ worker[w].pc = "evaluated"
      /\ UNCHANGED <<catalog, loaded, found>>
  BY DEF FinalizeClaim, Finalize, PipelineInv
<1> PICK i \in RowIds : i = worker[w].row
  BY <1>1, FinalizeIs
<1>2. Processed' = Processed \cup {i}
  <2>1. /\ RowIds' = RowIds /\ inbox'[i].status = "processed"
        /\ \A h \in RowIds : h # i => inbox'[h] = inbox[h]
    BY <1>1, FinalizeIs
  <2> QED
    BY <2>1 DEF Processed
<1>3. DOMAIN incidents' = DOMAIN incidents \cup IdsFound(w)
  BY <1>1 DEF Store!SaveMany, Store!Saved, IdsFound
<1>4. BurstsFound(w)'
  BY <1>1, LeavesEvaluated DEF BurstsFound
<1>5. ASSUME Undisturbed' PROVE NoBurstLost'
  <2>1. Undisturbed
    BY <1>1, <1>5, UndisturbedBefore
  <2> PICK rows \in SUBSET RowIds : rows = Processed \cup {i}
    BY DEF Processed
  <2> PICK old, new, ids : old = DOMAIN incidents /\ new = IdsFound(w) /\ ids = old \cup new
    OBVIOUS
  <2>2. ASSUME NEW rule \in catalog.correlation, NEW j \in rows
        PROVE  BurstReported(ids, rows, rule, j)
    <3>1. CASE i \in BurstIn(rows, rule, j)
      <4>1. BurstReported(new, rows, rule, j)
        BY <1>1, <2>1, <2>2, <3>1 DEF AloneInv, BurstsFound
      <4> QED
        BY <4>1 DEF BurstReported
    <3>2. CASE i \notin BurstIn(rows, rule, j) /\ j \in Processed
      <4>1. BurstReported(old, Processed, rule, j)
        BY <2>1, <2>2, <3>2 DEF AloneInv, NoBurstLost
      <4>2. BurstIn(rows, rule, j) = BurstIn(Processed, rule, j)
        BY <3>2 DEF BurstIn
      <4> QED
        BY <4>1, <4>2 DEF BurstReported
    <3>3. CASE i \notin BurstIn(rows, rule, j) /\ j = i
      <4>1. /\ inbox[i].payload.time \in Int
            /\ IdOf(inbox[i].agent, inbox[i].event) \in Int
        BY <1>1, PayloadsAssumption, IdsAssumption DEF InboxInv, RowsFit, RowFits, InboxRow
      <4>2. rule.window \in Nat /\ catalog \in Catalogs
        BY <2>2, CatalogsAssumption DEF PipelineInv, CatalogsLoaded
      <4>3. inbox[i].payload.type # rule.type
        BY <3>3, <4>1, <4>2 DEF BurstIn, InOrder
      <4> QED
        BY <3>3, <4>3 DEF BurstReported
    <3> QED
      BY <2>2, <3>1, <3>2, <3>3
  <2>3. ASSUME NEW rule \in catalog.correlation, NEW j \in rows
        PROVE  BurstReported(ids, rows, rule, j)'
    BY <1>1, <2>2, <2>3, BurstKept
  <2> QED
    BY <1>1, <1>2, <1>3, <2>3 DEF NoBurstLost
<1> QED
  BY <1>4, <1>5

\* A step that is no claim and finalises no row keeps the processed rows as they are.
LEMMA ProcessedSame ==
  ASSUME InboxInv, [Next]_vars,
         \/ Collects
         \/ \E i \in RowIds : GoStale(i)
         \/ \E w \in Workers : ClaimNext(w) \/ EndBatch(w) \/ RecordFailure(w)
         \/ UNCHANGED inbox
  PROVE  Processed' = Processed
<1>1. Processed' \subseteq Processed
  BY OthersProcessNone
<1>2. CASE UNCHANGED vars
  BY <1>2 DEF vars, Processed, RowIds
<1>3. CASE Next
  <2>1. Processed \subseteq Processed'
    BY <1>3, ProcessedStays DEF Processed
  <2> QED
    BY <1>1, <2>1
<1> QED
  BY <1>2, <1>3

LEMMA AloneInvStep ==
  ASSUME PipelineInv, NEW w \in Workers, AloneInv(w), [AloneStep(w)]_pvars
  PROVE  AloneInv(w)'
<1>1. [PNext]_pvars /\ [Next]_vars
  <2>1. [PNext]_pvars
    BY DEF AloneStep, PNext
  <2> QED
    BY <2>1, StepUsesInbox
<1>2. InboxInv /\ CatalogsLoaded /\ InboxInv' /\ ClaimsInOrder(w) /\ loaded[w] = catalog
  BY <1>1, InboxStep DEF PipelineInv, AloneInv
<1>3. CASE UNCHANGED <<vars, catalog, loaded, found>> /\ DOMAIN incidents' = DOMAIN incidents
  <2>1. UNCHANGED <<inbox, worker>>
    BY <1>3 DEF vars
  <2>2. ClaimsInOrder(w)'
    BY <1>2, <2>1, ClaimKept, OrderStays
  <2>3. Processed' = Processed
    BY <2>1 DEF Processed, RowIds
  <2>4. BurstsFound(w)' /\ (Undisturbed => NoBurstLost)'
    BY <1>1, <1>3, <2>1, <2>3, AloneQuiet
  <2> QED
    BY <1>2, <1>3, <2>2, <2>4 DEF AloneInv
<1>4. CASE PCollects \/ PStale
  <2>1. Next /\ UNCHANGED <<worker, incidents, catalog, loaded, found>>
        /\ (Collects \/ \E i \in RowIds : GoStale(i))
    BY <1>4 DEF PCollects, PStale, Unmoved, Collects, Register, Revoke, Identify, IngestBatch, GoStale,
       Next
  <2>2. ClaimsInOrder(w)'
    BY <1>2, <2>1, ClaimKept, OrderStays
  <2>3. Processed' = Processed
    BY <1>1, <1>2, <2>1, ProcessedSame
  <2>4. BurstsFound(w)' /\ (Undisturbed => NoBurstLost)'
    BY <1>1, <2>1, <2>3, AloneQuiet
  <2> QED
    BY <1>2, <2>1, <2>2, <2>4 DEF AloneInv
<1>5. CASE PWorks(w) \/ PCrash(w)
  <2>0. Next
    BY <1>5, WorkersUseInbox
  <2>1. UNCHANGED catalog /\ loaded'[w] = catalog'
    BY <1>2, <1>5 DEF PWorks, PCrash, EvaluateClaim, EvaluationRaises, FinalizeClaim, SaveRaises,
       Interrupted, StartWorker, StopWorker, Unmoved, CatalogsLoaded
  <2>2. CASE EvaluateClaim(w)
    <3>1. Evaluate(w) /\ UNCHANGED inbox
      BY <2>2 DEF EvaluateClaim, Evaluate
    <3>2. ClaimsInOrder(w)'
      BY <1>2, <3>1, ClaimKept, OrderStays
    <3> QED
      BY <2>0, <2>1, <2>2, <3>2, AloneEvaluate DEF AloneInv
  <2>3. CASE FinalizeClaim(w)
    <3>1. Finalize(w)
      BY <2>3 DEF FinalizeClaim
    <3>2. ClaimsInOrder(w)'
      BY <1>2, <2>0, <3>1, ClaimKept, OrderStays
    <3> QED
      BY <2>0, <2>1, <2>3, <3>2, AloneFinalize DEF AloneInv
  <2>4. CASE ~EvaluateClaim(w) /\ ~FinalizeClaim(w)
    <3>1. /\ \/ ClaimNext(w) \/ EndBatch(w) \/ ProcessingRaises(w) \/ LoseClaim(w)
             \/ RecordFailure(w) \/ AbortBatch(w) \/ Restart(w) \/ StopWorker(w) \/ Crash(w)
          /\ UNCHANGED <<incidents, catalog>>
      BY <1>5, <2>4 DEF PWorks, PCrash, EvaluationRaises, SaveRaises, Interrupted, StartWorker,
         StopWorker, Unmoved
    <3>2. worker'[w].pc # "evaluated"
      BY <1>2, <3>1, LeavesEvaluated
    <3>3. ClaimNext(w) \/ EndBatch(w) \/ RecordFailure(w) \/ UNCHANGED inbox
      BY <3>1 DEF ProcessingRaises, LoseClaim, AbortBatch, Restart, StopWorker, Crash
    <3>4. Processed' = Processed
      BY <1>1, <1>2, <3>3, ProcessedSame
    <3>5. BurstsFound(w)' /\ (Undisturbed => NoBurstLost)'
      BY <1>1, <3>1, <3>2, <3>4, AloneQuiet
    <3>6. ClaimsInOrder(w)'
      <4>1. CASE ClaimNext(w)
        BY <1>2, <2>0, <4>1, ClaimOrder
      <4>2. CASE ~ClaimNext(w)
        BY <1>2, <2>0, <3>1, <3>3, <4>2, ClaimKept, OrderStays
      <4> QED
        BY <4>1, <4>2
    <3> QED
      BY <2>1, <3>5, <3>6 DEF AloneInv
  <2> QED
    BY <2>2, <2>3, <2>4
<1>6. ASSUME NEW id \in DOMAIN incidents, NEW new \in Store!Statuses, Operate(id, new)
      PROVE  AloneInv(w)'
  <2>1. UNCHANGED <<vars, catalog, loaded, found>> /\ DOMAIN incidents' = DOMAIN incidents
    BY <1>6 DEF Operate, Store!Transition
  <2> QED
    BY <1>3, <2>1
<1> QED
  BY <1>3, <1>4, <1>5, <1>6 DEF AloneStep, pvars

LEMMA AloneInvInit ==
  ASSUME PInit, NEW w \in Workers
  PROVE  AloneInv(w)
<1>1. /\ RowIds = {} /\ Len(inbox) = 0 /\ worker[w] = Down
      /\ Down.pc = "down" /\ Down.last = 0 /\ loaded[w] = catalog
  BY DEF PInit, Init, RowIds, Down, AtStart
<1>2. ClaimsInOrder(w)
  BY <1>1 DEF ClaimsInOrder, Waiting, TriedInOrder, HoldsNewest, Busy
<1>3. NoBurstLost
  BY <1>1 DEF NoBurstLost, Processed
<1>4. BurstsFound(w)
  BY <1>1 DEF BurstsFound
<1> QED
  BY <1>1, <1>2, <1>3, <1>4 DEF AloneInv

\* One worker, which may stop and crash whenever it likes, whose claims may expire, and a
\* catalog that stays: as long as no event was tried twice, none says what another says and
\* the window of every event fits a worker's history, every burst is reported, however late
\* its events arrive.  Rows are claimed in the order they came in, so what a worker reads
\* for the first attempt of a row is all that came before, and the last row of a burst to
\* come in sees all others (worker.py, _historical_payloads, _process_claim).
THEOREM OneWorkerLosesNoBurst ==
  ASSUME NEW w \in Workers
  PROVE  AloneSpec(w) => [](Undisturbed => NoBurstLost)
<1>1. PInit => AloneInv(w)
  BY AloneInvInit
<1>2. PipelineInv /\ AloneInv(w) /\ [AloneStep(w)]_pvars => AloneInv(w)'
  BY AloneInvStep
<1>3. [AloneStep(w)]_pvars => [PNext]_pvars
  BY DEF AloneStep, PNext
<1>4. AloneSpec(w) => PSpec
  BY <1>3, PTL DEF AloneSpec, PSpec
<1>5. AloneInv(w) => (Undisturbed => NoBurstLost)
  BY DEF AloneInv
<1> QED
  BY <1>1, <1>2, <1>4, <1>5, AlwaysPipelineInv, PTL DEF AloneSpec

\* The same of the scenario in which nothing interrupts the worker.
THEOREM AloneWorkerLosesNoBurst == MCSpec => [](Undisturbed => AloneLosesNoBurst)
<1> DEFINE Inv == scenario = "alone" => PipelineInv /\ AloneInv(FirstWorker)
<1>1. MCInit => Inv
  BY FirstWorkerAssumption, AloneInvInit, PipelineInit DEF MCInit
<1>2. Inv /\ [MCNext]_<<pvars, scenario>> => Inv'
  <2> SUFFICES ASSUME Inv, [MCNext]_<<pvars, scenario>>, scenario' = "alone"
               PROVE  PipelineInv' /\ AloneInv(FirstWorker)'
    OBVIOUS
  <2>1. scenario = "alone" /\ PipelineInv /\ AloneInv(FirstWorker)
    BY DEF MCNext
  <2>2. [AloneStep(FirstWorker)]_pvars
    BY <2>1 DEF MCNext, Working, AloneStep
  <2>3. [PNext]_pvars
    BY <2>2, FirstWorkerAssumption DEF AloneStep, PNext
  <2> QED
    BY <2>1, <2>2, <2>3, FirstWorkerAssumption, AloneInvStep, PipelineStep
<1>3. Inv => (Undisturbed => AloneLosesNoBurst)
  BY DEF AloneInv, AloneLosesNoBurst
<1> HIDE DEF Inv
<1> QED
  BY <1>1, <1>2, <1>3, PTL DEF MCSpec

=============================================================================
