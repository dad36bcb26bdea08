--------------------------- MODULE SocInboxProofs -----------------------------
(***************************************************************************)
(* The inbox of the SOC and its claims, for any collectors, events, workers*)
(* and attempts.                                                           *)
(***************************************************************************)
EXTENDS SocInboxProps, FiniteSetTheorems, SequenceTheorems, TLAPS

-----------------------------------------------------------------------------
(* The inbox: rows and claims *)

\* A row is in progress under the token of its last attempt, and under none
\* otherwise; a row that waits has an attempt left.
RowFits(row) ==
  /\ row \in InboxRow
  /\ row.status = "processing" <=> row.token # 0
  /\ row.status = "processing" => row.token = row.attempts
  /\ row.stale => row.status = "processing"
  /\ row.status = "pending" => row.attempts < MaxAttempts

\* What an event is, and how often it was tried, is never taken back.
Continues(old, new) ==
  /\ new.agent = old.agent /\ new.event = old.event /\ new.payload = old.payload
  /\ new.attempts >= old.attempts

LEMMA NewRowFits ==
  ASSUME NEW agent \in Agents, NEW item \in [event : EventIds, payload : Payloads]
  PROVE  RowFits(NewRow(agent, item))
  BY LimitsAssumption DEF RowFits, NewRow, InboxRow, RowStatuses

LEMMA ReleasedFits ==
  ASSUME NEW row, RowFits(row), row.status = "processing"
  PROVE  /\ RowFits(Released(row)) /\ Continues(row, Released(row))
         /\ Released(row).status \in {"failed", "pending"}
         /\ Released(row).status = "failed" => row.attempts = MaxAttempts
         /\ Released(row).attempts = row.attempts
<1> DEFINE status == IF row.attempts >= MaxAttempts THEN "failed" ELSE "pending"
<1>1. row \in InboxRow /\ row.attempts \in 0..MaxAttempts /\ MaxAttempts \in Nat
  BY LimitsAssumption DEF RowFits, InboxRow
<1>2. /\ status \in {"failed", "pending"}
      /\ status = "failed" => row.attempts = MaxAttempts
      /\ status = "pending" => row.attempts < MaxAttempts
  BY <1>1
<1>3. Released(row) = [row EXCEPT !.status = status, !.token = 0, !.stale = FALSE]
  BY DEF Released
<1> HIDE DEF status
<1>4. /\ Released(row).status = status /\ Released(row).token = 0 /\ Released(row).stale = FALSE
      /\ Released(row).attempts = row.attempts /\ Released(row).agent = row.agent
      /\ Released(row).event = row.event /\ Released(row).payload = row.payload
  BY <1>1, <1>3 DEF InboxRow
<1>5. Released(row) \in InboxRow
  <2>1. 0 \in 0..MaxAttempts /\ status \in RowStatuses
    BY <1>1, <1>2 DEF RowStatuses
  <2> QED
    BY <1>1, <1>3, <2>1 DEF InboxRow
<1>6. RowFits(Released(row))
  <2>1. status # "processing"
    BY <1>2
  <2>2. ~Released(row).stale
    BY <1>4, Zenon
  <2> QED
    BY <1>2, <1>4, <1>5, <2>1, <2>2, Zenon DEF RowFits
<1> QED
  BY <1>1, <1>2, <1>4, <1>6 DEF Continues

LEMMA ClaimedFits ==
  ASSUME NEW row, RowFits(row), row.status = "pending"
  PROVE  RowFits(Claimed(row)) /\ Continues(row, Claimed(row))
         /\ Claimed(row).attempts = row.attempts + 1 /\ Claimed(row).token = row.attempts + 1
         /\ Claimed(row).status = "processing"
<1>1. row.attempts \in Nat /\ row.attempts < MaxAttempts /\ MaxAttempts \in Nat
  BY LimitsAssumption DEF RowFits, InboxRow
<1>2. Claimed(row) = [row EXCEPT !.status = "processing", !.attempts = row.attempts + 1,
                                 !.token = row.attempts + 1]
  BY DEF Claimed
<1>3. row.attempts + 1 \in 0..MaxAttempts /\ row.attempts + 1 # 0
      /\ row.attempts + 1 >= row.attempts
  BY <1>1
<1>4. /\ Claimed(row).status = "processing" /\ Claimed(row).attempts = row.attempts + 1
      /\ Claimed(row).token = row.attempts + 1
      /\ Claimed(row).agent = row.agent /\ Claimed(row).event = row.event
      /\ Claimed(row).payload = row.payload
  BY <1>2 DEF RowFits, InboxRow
<1>5. Claimed(row) \in InboxRow
  BY <1>2, <1>3 DEF RowFits, InboxRow, RowStatuses
<1> QED
  BY <1>3, <1>4, <1>5, Zenon DEF RowFits, Continues

RowsFit == inbox \in Seq(InboxRow) /\ \A i \in RowIds : RowFits(inbox[i])

\* Recovery touches stale claims only.
LEMMA RecoveredFits ==
  ASSUME RowsFit
  PROVE  /\ Recovered(inbox) \in Seq(InboxRow) /\ DOMAIN Recovered(inbox) = RowIds
         /\ \A i \in RowIds :
              /\ RowFits(Recovered(inbox)[i]) /\ Continues(inbox[i], Recovered(inbox)[i])
              /\ Recovered(inbox)[i].attempts = inbox[i].attempts
              /\ ~inbox[i].stale => Recovered(inbox)[i] = inbox[i]
              /\ inbox[i].stale => Recovered(inbox)[i] = Released(inbox[i])
<1>1. DOMAIN inbox = RowIds /\ Len(inbox) \in Nat
  BY DEF RowsFit, RowIds
<1>2. Recovered(inbox) = [i \in RowIds |->
        IF inbox[i].status = "processing" /\ inbox[i].stale THEN Released(inbox[i]) ELSE inbox[i]]
  BY <1>1 DEF Recovered
<1>3. ASSUME NEW i \in RowIds
      PROVE  /\ RowFits(Recovered(inbox)[i]) /\ Continues(inbox[i], Recovered(inbox)[i])
             /\ Recovered(inbox)[i].attempts = inbox[i].attempts
             /\ ~inbox[i].stale => Recovered(inbox)[i] = inbox[i]
             /\ inbox[i].stale => Recovered(inbox)[i] = Released(inbox[i])
  <2>1. RowFits(inbox[i])
    BY DEF RowsFit
  <2>2. CASE inbox[i].stale
    <3>1. inbox[i].status = "processing" /\ Recovered(inbox)[i] = Released(inbox[i])
      BY <2>1, <2>2, <1>2 DEF RowFits
    <3> QED
      BY <2>1, <2>2, <3>1, ReleasedFits
  <2>3. CASE ~inbox[i].stale
    <3>1. Recovered(inbox)[i] = inbox[i]
      <4>1. Recovered(inbox)[i] =
              IF inbox[i].status = "processing" /\ inbox[i].stale THEN Released(inbox[i]) ELSE inbox[i]
        BY <1>2
      <4> QED
        BY <2>3, <4>1, Zenon
    <3> QED
      BY <2>1, <2>3, <3>1 DEF Continues, RowFits, InboxRow
  <2> QED
    BY <2>2, <2>3
<1>4. Recovered(inbox) \in Seq(InboxRow)
  <2>1. \A i \in 1..Len(inbox) : Recovered(inbox)[i] \in InboxRow
    BY <1>3 DEF RowIds, RowFits
  <2> QED
    BY <1>1, <1>2, <2>1 DEF RowIds
<1> QED
  BY <1>2, <1>3, <1>4

\* A claim finds the rows as they are or recovered.
LEMMA VisibleFits ==
  ASSUME RowsFit, NEW w \in Workers
  PROVE  /\ Visible(w) \in Seq(InboxRow) /\ DOMAIN Visible(w) = RowIds
         /\ \A i \in RowIds :
              /\ RowFits(Visible(w)[i]) /\ Continues(inbox[i], Visible(w)[i])
              /\ Visible(w)[i].attempts = inbox[i].attempts
              /\ Visible(w)[i] # inbox[i] => inbox[i].stale /\ Visible(w)[i] = Released(inbox[i])
<1>1. CASE worker[w].taken = 0
  BY <1>1, RecoveredFits DEF Visible
<1>2. CASE worker[w].taken # 0
  <2>1. Visible(w) = inbox
    BY <1>2 DEF Visible
  <2> QED
    BY <2>1 DEF RowsFit, RowIds, Continues, RowFits, InboxRow
<1> QED
  BY <1>1, <1>2

-----------------------------------------------------------------------------
(* Ingestion *)

\* A request in progress names the agent it was identified as.
UploadsNamed ==
  \A c \in Certificates : upload[c] # NoUpload => upload[c].agent \in Agents /\ upload[c].batch \in Batches

\* The primary key of the inbox.
RowsOnce ==
  \A i, j \in RowIds : inbox[i].agent = inbox[j].agent /\ inbox[i].event = inbox[j].event => i = j

\* The rows a batch adds are its new events, each of them once.
LEMMA NewItemsAre ==
  ASSUME RowsFit, NEW agent \in Agents, NEW batch \in Batches, ~RepeatsAnId(batch),
         NEW rows \in NewItems(agent, batch)
  PROVE  /\ rows \in Seq(InboxRow)
         /\ \A n \in DOMAIN rows :
              /\ RowFits(rows[n])
              /\ \E k \in DOMAIN batch :
                   rows[n] = NewRow(agent, batch[k]) /\ Stored(agent, batch[k].event) = {}
         /\ \A m, n \in DOMAIN rows : rows[m].event = rows[n].event => m = n
         /\ \A k \in DOMAIN batch : Stored(agent, batch[k].event) = {} =>
              \E n \in DOMAIN rows : rows[n] = NewRow(agent, batch[k])
<1> DEFINE fresh == {k \in DOMAIN batch : Stored(agent, batch[k].event) = {}}
           items == [event : EventIds, payload : Payloads]
<1>1. /\ batch \in Seq(items)
      /\ DOMAIN batch = 1..Len(batch) /\ Len(batch) \in Nat
      /\ \A k \in DOMAIN batch : batch[k] \in items
  <2>1. batch \in Seq(items)
    BY BatchesAssumption
  <2> HIDE DEF items
  <2> QED
    BY <2>1
<1>2. IsFiniteSet(fresh) /\ Cardinality(fresh) \in Nat
  <2>1. IsFiniteSet(DOMAIN batch)
    <3>1. Len(batch) \in Int /\ 1 \in Int /\ DOMAIN batch = 1..Len(batch)
      BY <1>1
    <3>2. IsFiniteSet(1..Len(batch))
      BY <3>1, FS_Interval
    <3> QED
      BY <3>1, <3>2, Zenon
  <2>2. fresh \subseteq DOMAIN batch
    OBVIOUS
  <2> QED
    BY <2>1, <2>2, FS_Subset, FS_CardinalityType
<1>3. PICK s \in [1..Cardinality(fresh) -> fresh] :
        /\ \A m, n \in DOMAIN s : m < n => s[m] < s[n]
        /\ rows = [n \in DOMAIN s |-> NewRow(agent, batch[s[n]])]
  BY DEF NewItems
<1>4. \A k \in fresh : k \in DOMAIN batch /\ Stored(agent, batch[k].event) = {}
  OBVIOUS
<1>5. \A k \in DOMAIN batch : Stored(agent, batch[k].event) = {} => k \in fresh
  OBVIOUS
<1> HIDE DEF fresh
<1>6. DOMAIN rows = DOMAIN s /\ DOMAIN s = 1..Cardinality(fresh)
  BY <1>3
<1>7. \A n \in DOMAIN rows : s[n] \in fresh /\ s[n] \in DOMAIN batch /\ s[n] \in Nat
  BY <1>1, <1>3, <1>4
<1>8. \A n \in DOMAIN rows : rows[n] = NewRow(agent, batch[s[n]]) /\ RowFits(rows[n])
  BY <1>1, <1>3, <1>7, NewRowFits
<1>9. rows \in Seq(InboxRow)
  <2>1. rows \in [1..Cardinality(fresh) -> InboxRow]
    BY <1>3, <1>6, <1>8 DEF RowFits
  <2> QED
    BY <1>2, <2>1
<1>10. \A m, n \in DOMAIN s : s[m] = s[n] => m = n
  <2> SUFFICES ASSUME NEW m \in DOMAIN s, NEW n \in DOMAIN s, m # n PROVE s[m] # s[n]
    OBVIOUS
  <2>1. m \in Nat /\ n \in Nat /\ (m < n \/ n < m)
    BY <1>2, <1>6
  <2>2. s[m] \in Nat /\ s[n] \in Nat
    BY <1>6, <1>7
  <2> QED
    BY <1>3, <2>1, <2>2
<1>11. \A m, n \in DOMAIN rows : rows[m].event = rows[n].event => m = n
  <2> SUFFICES ASSUME NEW m \in DOMAIN rows, NEW n \in DOMAIN rows, rows[m].event = rows[n].event
               PROVE  m = n
    OBVIOUS
  <2>1. batch[s[m]].event = batch[s[n]].event
    BY <1>8 DEF NewRow
  <2>2. s[m] = s[n]
    BY <1>7, <2>1 DEF RepeatsAnId
  <2> QED
    BY <1>6, <1>10, <2>2
<1>12. ASSUME NEW k \in fresh PROVE \E n \in DOMAIN rows : rows[n] = NewRow(agent, batch[k])
  <2>1. s \in Injection(1..Cardinality(fresh), fresh)
    BY <1>3, <1>10 DEF Injection, IsInjective
  <2>2. Cardinality(1..Cardinality(fresh)) = Cardinality(fresh)
    BY <1>2, FS_Interval
  <2>3. s \in Surjection(1..Cardinality(fresh), fresh)
    BY <1>2, <2>1, <2>2, FS_Injection
  <2>4. PICK n \in 1..Cardinality(fresh) : s[n] = k
    BY <2>3, <1>12 DEF Surjection
  <2> QED
    BY <1>6, <1>8, <2>4
<1> QED
  BY <1>7, <1>8, <1>9, <1>11, <1>12, <1>4, <1>5

-----------------------------------------------------------------------------
(* Steps of the inbox *)

\* A claim names a row and one of its attempts ...
ClaimsKnown ==
  \A w \in Workers : Busy(w) =>
    worker[w].row \in RowIds /\ worker[w].token \in 1..inbox[worker[w].row].attempts

\* ... and no two workers have one of the same attempt.
ClaimsApart ==
  \A v, w \in Workers :
    v # w /\ Busy(v) /\ Busy(w) /\ worker[v].row = worker[w].row => worker[v].token # worker[w].token

InboxInv ==
  TypeOK /\ RowsFit /\ UploadsNamed /\ RowsOnce /\ ClaimsKnown /\ ClaimsApart

\* Rows are added at the end, and the ones there are continue.
RowsContinue == \A i \in RowIds : i \in RowIds' /\ Continues(inbox[i], inbox'[i])

\* What a collector's request adds (collector_store.py, ingest_batch).
LEMMA IngestRows ==
  ASSUME InboxInv, NEW c \in Certificates, IngestBatch(c)
  PROVE  /\ RowsFit' /\ RowsOnce'
         /\ \A i \in RowIds : i \in RowIds' /\ inbox'[i] = inbox[i]
         /\ ~Accepted(upload[c].agent, upload[c].batch) => inbox' = inbox
         /\ \A i \in RowIds' \ RowIds :
              /\ Accepted(upload[c].agent, upload[c].batch)
              /\ inbox'[i].status = "pending" /\ inbox'[i].attempts = 0
              /\ inbox'[i].agent = upload[c].agent
              /\ \E k \in DOMAIN upload[c].batch :
                   /\ inbox'[i].event = upload[c].batch[k].event
                   /\ inbox'[i].payload = upload[c].batch[k].payload
                   /\ Stored(upload[c].agent, upload[c].batch[k].event) = {}
         /\ Accepted(upload[c].agent, upload[c].batch) =>
              \A k \in DOMAIN upload[c].batch :
                Stored(upload[c].agent, upload[c].batch[k].event) = {} =>
                  \E i \in RowIds' : inbox'[i] = NewRow(upload[c].agent, upload[c].batch[k])
<1> DEFINE agent == upload[c].agent
           batch == upload[c].batch
<1>1. agent \in Agents /\ batch \in Batches
  BY DEF InboxInv, UploadsNamed, IngestBatch
<1>2. RowsFit /\ RowsOnce /\ inbox \in Seq(InboxRow) /\ RowIds = DOMAIN inbox /\ Len(inbox) \in Nat
  BY DEF InboxInv, RowsFit, RowIds
<1>3. CASE ~Accepted(agent, batch)
  <2>1. inbox' = inbox
    BY <1>3 DEF IngestBatch
  <2> QED
    BY <1>2, <1>3, <2>1 DEF RowsFit, RowsOnce, RowIds
<1>4. CASE Accepted(agent, batch)
  <2>1. PICK rows \in NewItems(agent, batch) : inbox' = inbox \o rows
    BY <1>4 DEF IngestBatch
  <2>2. ~RepeatsAnId(batch)
    BY <1>4 DEF Accepted
  <2> HIDE DEF agent, batch
  <2>3. /\ rows \in Seq(InboxRow)
        /\ \A n \in DOMAIN rows :
             /\ RowFits(rows[n])
             /\ \E k \in DOMAIN batch :
                  rows[n] = NewRow(agent, batch[k]) /\ Stored(agent, batch[k].event) = {}
        /\ \A m, n \in DOMAIN rows : rows[m].event = rows[n].event => m = n
        /\ \A k \in DOMAIN batch : Stored(agent, batch[k].event) = {} =>
             \E n \in DOMAIN rows : rows[n] = NewRow(agent, batch[k])
    BY <1>1, <1>2, <2>2, NewItemsAre
  <2>4. /\ inbox' \in Seq(InboxRow) /\ Len(inbox') = Len(inbox) + Len(rows)
        /\ Len(rows) \in Nat /\ DOMAIN rows = 1..Len(rows)
        /\ \A i \in 1..Len(inbox) : inbox'[i] = inbox[i]
        /\ \A i \in 1..Len(rows) : inbox'[Len(inbox) + i] = rows[i]
    BY <1>2, <2>1, <2>3, ConcatProperties
  <2>5. \A i \in RowIds : i \in RowIds' /\ inbox'[i] = inbox[i]
    BY <1>2, <2>4 DEF RowIds
  <2>6. \A i \in RowIds' \ RowIds : i - Len(inbox) \in DOMAIN rows /\ inbox'[i] = rows[i - Len(inbox)]
    BY <1>2, <2>4 DEF RowIds
  <2>7. \A n \in DOMAIN rows : Len(inbox) + n \in RowIds' /\ inbox'[Len(inbox) + n] = rows[n]
    BY <1>2, <2>4 DEF RowIds
  <2>8. RowsFit'
    BY <1>2, <2>3, <2>4, <2>5, <2>6 DEF RowsFit
  <2>9. ASSUME NEW i \in RowIds' \ RowIds
        PROVE  /\ inbox'[i].status = "pending" /\ inbox'[i].attempts = 0 /\ inbox'[i].agent = agent
               /\ \E k \in DOMAIN batch :
                    /\ inbox'[i].event = batch[k].event /\ inbox'[i].payload = batch[k].payload
                    /\ Stored(agent, batch[k].event) = {}
    BY <2>3, <2>6 DEF NewRow
  <2>10. \A k \in DOMAIN batch : Stored(agent, batch[k].event) = {} =>
           \E i \in RowIds' : inbox'[i] = NewRow(agent, batch[k])
    BY <2>3, <2>7
  <2>11. RowsOnce'
    <3> SUFFICES ASSUME NEW i \in RowIds', NEW j \in RowIds',
                        inbox'[i].agent = inbox'[j].agent, inbox'[i].event = inbox'[j].event
                 PROVE  i = j
      BY DEF RowsOnce
    <3>1. CASE i \in RowIds /\ j \in RowIds
      BY <1>2, <2>5, <3>1 DEF RowsOnce
    <3>2. CASE i \notin RowIds /\ j \notin RowIds
      <4>1. i - Len(inbox) = j - Len(inbox)
        BY <2>3, <2>6, <3>2
      <4> QED
        BY <1>2, <2>4, <4>1 DEF RowIds
    <3>3. ASSUME NEW k \in RowIds, NEW l \in RowIds' \ RowIds,
                 inbox'[k].agent = inbox'[l].agent, inbox'[k].event = inbox'[l].event
          PROVE  FALSE
      <4>1. inbox[k].agent = agent
        BY <2>5, <2>9, <3>3
      <4>2. Stored(agent, inbox[k].event) = {}
        BY <2>5, <2>9, <3>3
      <4> QED
        BY <4>1, <4>2 DEF Stored
    <3> QED
      BY <3>1, <3>2, <3>3
  <2> QED
    BY <1>4, <2>5, <2>8, <2>9, <2>10, <2>11 DEF agent, batch
<1> QED
  BY <1>3, <1>4

\* While rows continue, claims stay apart if only one worker moves, and has no
\* claim afterwards, the one it had, or a new attempt.
LEMMA ClaimsStep ==
  ASSUME InboxInv, NEW w \in Workers, RowsFit', RowsContinue,
         \A v \in Workers \ {w} : worker'[v] = worker[v],
         \/ ~Busy(w)'
         \/ /\ Busy(w)
            /\ worker'[w].row = worker[w].row /\ worker'[w].token = worker[w].token
         \/ /\ worker'[w].row \in RowIds
            /\ worker'[w].token = inbox[worker'[w].row].attempts + 1
            /\ inbox'[worker'[w].row].attempts = worker'[w].token
  PROVE  ClaimsKnown' /\ ClaimsApart'
<1>1. \A i \in RowIds : /\ inbox[i].attempts \in Nat /\ i \in RowIds' /\ inbox'[i].attempts \in Nat
                       /\ inbox'[i].attempts >= inbox[i].attempts
  BY LimitsAssumption DEF InboxInv, RowsFit, RowFits, InboxRow, RowsContinue, Continues
<1>2. \A v \in Workers : Busy(v) =>
        worker[v].row \in RowIds /\ worker[v].token \in 1..inbox[worker[v].row].attempts
  BY DEF InboxInv, ClaimsKnown
<1>3. ASSUME NEW v \in Workers, Busy(v)'
      PROVE  worker'[v].row \in RowIds' /\ worker'[v].token \in 1..inbox'[worker'[v].row].attempts
  <2>1. CASE Busy(v) /\ worker'[v].row = worker[v].row /\ worker'[v].token = worker[v].token
    BY <1>1, <1>2, <2>1
  <2>2. CASE v = w /\ worker'[w].row \in RowIds /\ worker'[w].token = inbox[worker'[w].row].attempts + 1
             /\ inbox'[worker'[w].row].attempts = worker'[w].token
    BY <1>1, <2>2
  <2>3. v # w => Busy(v) /\ worker'[v].row = worker[v].row /\ worker'[v].token = worker[v].token
    BY <1>3 DEF Busy
  <2> QED
    BY <1>3, <2>1, <2>2, <2>3
<1>4. ASSUME NEW v \in Workers, v # w, Busy(v)', Busy(w)', worker'[v].row = worker'[w].row
      PROVE  worker'[v].token # worker'[w].token
  <2>1. worker'[v] = worker[v] /\ Busy(v)
    BY <1>4 DEF Busy
  <2>2. CASE Busy(w) /\ worker'[w].row = worker[w].row /\ worker'[w].token = worker[w].token
    BY <1>4, <2>1, <2>2 DEF InboxInv, ClaimsApart
  <2>3. CASE worker'[w].row \in RowIds /\ worker'[w].token = inbox[worker'[w].row].attempts + 1
    BY <1>1, <1>2, <1>4, <2>1, <2>3
  <2> QED
    BY <1>4, <2>2, <2>3
<1>5. ClaimsKnown'
  BY <1>3 DEF ClaimsKnown
<1>6. ASSUME NEW u \in Workers, NEW v \in Workers, u # v, Busy(u)', Busy(v)',
             worker'[u].row = worker'[v].row
      PROVE  worker'[u].token # worker'[v].token
  <2>1. CASE u = w \/ v = w
    BY <1>4, <1>6, <2>1
  <2>2. CASE u # w /\ v # w
    <3>1. worker'[u] = worker[u] /\ worker'[v] = worker[v] /\ Busy(u) /\ Busy(v)
      BY <1>6, <2>2 DEF Busy
    <3> QED
      BY <1>6, <3>1 DEF InboxInv, ClaimsApart
  <2> QED
    BY <2>1, <2>2
<1>7. ClaimsApart'
  BY <1>6 DEF ClaimsApart
<1> QED
  BY <1>5, <1>7

\* One row is replaced by another that continues it.
LEMMA RowStep ==
  ASSUME InboxInv, NEW i \in RowIds, NEW row, RowFits(row), Continues(inbox[i], row),
         inbox' = [inbox EXCEPT ![i] = row]
  PROVE  RowsFit' /\ RowsOnce' /\ RowsContinue /\ RowIds' = RowIds
<1>1. inbox \in Seq(InboxRow) /\ RowIds = DOMAIN inbox /\ RowIds = 1..Len(inbox) /\ Len(inbox) \in Nat
  BY DEF InboxInv, RowsFit, RowIds
<1>2. row \in InboxRow
  BY DEF RowFits
<1>3. inbox' \in Seq(InboxRow) /\ Len(inbox') = Len(inbox)
  BY <1>1, <1>2, ExceptSeq
<1>4. RowIds' = RowIds
  BY <1>3 DEF RowIds
<1>5. \A j \in RowIds : inbox'[j] = IF j = i THEN row ELSE inbox[j]
  BY <1>1
<1>6. \A j \in RowIds : Continues(inbox[j], inbox[j]) /\ RowFits(inbox[j])
  BY LimitsAssumption DEF InboxInv, RowsFit, RowFits, InboxRow, Continues
<1>7. RowsContinue
  BY <1>4, <1>5, <1>6 DEF RowsContinue
<1>8. RowsFit'
  BY <1>3, <1>4, <1>5, <1>6 DEF RowsFit
<1>9. RowsOnce'
  BY <1>4, <1>7 DEF RowsOnce, InboxInv, RowsContinue, Continues
<1> QED
  BY <1>4, <1>7, <1>8, <1>9

\* The rows a claim sees, taken as the table.
LEMMA VisibleStep ==
  ASSUME InboxInv, NEW w \in Workers, inbox' = Visible(w)
  PROVE  RowsFit' /\ RowsOnce' /\ RowsContinue /\ RowIds' = RowIds
<1>1. inbox \in Seq(InboxRow) /\ RowIds = DOMAIN inbox /\ RowsFit
  BY DEF InboxInv, RowsFit, RowIds
<1>2. inbox' \in Seq(InboxRow) /\ DOMAIN inbox' = RowIds
  BY <1>1, VisibleFits
<1>3. RowIds' = RowIds
  BY <1>2 DEF RowIds
<1>4. \A i \in RowIds : RowFits(inbox'[i]) /\ Continues(inbox[i], inbox'[i])
  BY <1>1, VisibleFits
<1>5. RowsOnce'
  BY <1>3, <1>4 DEF RowsOnce, InboxInv, Continues
<1> QED
  BY <1>2, <1>3, <1>4, <1>5 DEF RowsFit, RowsContinue

\* What claim_next_pending does to the table: stale claims are released, and one
\* row that waits is claimed for its next attempt.
LEMMA ClaimNextIs ==
  ASSUME InboxInv, NEW w \in Workers, ClaimNext(w)
  PROVE  /\ RowsFit' /\ RowsOnce' /\ RowsContinue /\ RowIds' = RowIds
         /\ \E i \in RowIds :
              /\ worker' = [worker EXCEPT ![w] =
                   [pc |-> "holding", row |-> i, token |-> inbox[i].attempts + 1,
                    taken |-> worker[w].taken + 1, last |-> i]]
              /\ inbox'[i].status = "processing" /\ inbox'[i].attempts = inbox[i].attempts + 1
              /\ inbox[i].attempts < MaxAttempts
              /\ \/ inbox[i].status = "pending"
                 \/ inbox[i].status = "processing" /\ inbox[i].stale
              /\ \A j \in RowIds \ {i} :
                   inbox'[j] # inbox[j] => inbox[j].stale /\ inbox'[j] = Released(inbox[j])
<1> DEFINE seen == Visible(w)
<1>1. PICK i \in Due(seen, worker[w].last) :
        /\ inbox' = [seen EXCEPT ![i] = Claimed(seen[i])]
        /\ worker' = [worker EXCEPT ![w] =
             [pc |-> "holding", row |-> i, token |-> seen[i].attempts + 1,
              taken |-> worker[w].taken + 1, last |-> i]]
  BY DEF ClaimNext
<1>2. RowsFit
  BY DEF InboxInv
<1>3. /\ seen \in Seq(InboxRow) /\ DOMAIN seen = RowIds
      /\ \A j \in RowIds :
           /\ RowFits(seen[j]) /\ Continues(inbox[j], seen[j]) /\ seen[j].attempts = inbox[j].attempts
           /\ seen[j] # inbox[j] => inbox[j].stale /\ seen[j] = Released(inbox[j])
  BY <1>2, VisibleFits
<1> HIDE DEF seen
<1>4. i \in RowIds /\ seen[i].status = "pending" /\ seen[i].attempts < MaxAttempts
  BY <1>1, <1>3 DEF Due
<1>5. /\ RowFits(Claimed(seen[i])) /\ Continues(seen[i], Claimed(seen[i]))
      /\ Claimed(seen[i]).attempts = seen[i].attempts + 1
      /\ Claimed(seen[i]).status = "processing"
  BY <1>3, <1>4, ClaimedFits
<1>6. RowIds = 1..Len(inbox) /\ Len(inbox) \in Nat /\ Len(seen) = Len(inbox)
  <2>1. DOMAIN seen = 1..Len(seen) /\ Len(seen) \in Nat /\ Len(inbox) \in Nat
    BY <1>2, <1>3 DEF RowsFit
  <2> QED
    BY <1>3, <2>1 DEF RowIds
<1>7. inbox' \in Seq(InboxRow) /\ Len(inbox') = Len(seen)
  <2>1. Claimed(seen[i]) \in InboxRow /\ i \in 1..Len(seen)
    BY <1>4, <1>5, <1>6 DEF RowFits
  <2> QED
    BY <1>1, <1>3, <2>1, ExceptSeq
<1>8. RowIds' = RowIds
  BY <1>6, <1>7 DEF RowIds
<1>9. \A j \in RowIds : inbox'[j] = IF j = i THEN Claimed(seen[i]) ELSE seen[j]
  BY <1>1, <1>3
<1>10. \A j \in RowIds : inbox[j].attempts \in Nat /\ seen[j].attempts \in Nat
  BY <1>2, <1>3, LimitsAssumption DEF RowsFit, RowFits, InboxRow
<1>11. \A j \in RowIds : RowFits(inbox'[j]) /\ Continues(inbox[j], inbox'[j])
  <2> SUFFICES ASSUME NEW j \in RowIds PROVE RowFits(inbox'[j]) /\ Continues(inbox[j], inbox'[j])
    OBVIOUS
  <2>1. CASE j = i
    <3>1. inbox'[j] = Claimed(seen[i])
      BY <1>9, <2>1
    <3>2. Continues(inbox[i], Claimed(seen[i]))
      BY <1>3, <1>4, <1>5, <1>10 DEF Continues
    <3> QED
      BY <1>5, <2>1, <3>1, <3>2
  <2>2. CASE j # i
    BY <1>3, <1>9, <2>2
  <2> QED
    BY <2>1, <2>2
<1>12. RowsFit' /\ RowsContinue /\ RowsOnce'
  <2>1. RowsFit' /\ RowsContinue
    BY <1>7, <1>8, <1>11 DEF RowsFit, RowsContinue
  <2> QED
    BY <1>8, <1>11, <2>1 DEF RowsOnce, InboxInv, Continues
<1>13. inbox[i].status = "pending" \/ (inbox[i].status = "processing" /\ inbox[i].stale)
  <2>1. CASE seen[i] = inbox[i]
    BY <1>4, <2>1
  <2>2. CASE seen[i] # inbox[i]
    BY <1>2, <1>3, <1>4, <2>2 DEF RowsFit, RowFits
  <2> QED
    BY <2>1, <2>2
<1>14. \A j \in RowIds \ {i} : inbox'[j] # inbox[j] => inbox[j].stale /\ inbox'[j] = Released(inbox[j])
  BY <1>3, <1>9
<1>15. inbox'[i] = Claimed(seen[i])
  BY <1>4, <1>9
<1>16. seen[i].attempts = inbox[i].attempts
  BY <1>3, <1>4
<1> QED
  BY <1>1, <1>4, <1>5, <1>8, <1>12, <1>13, <1>14, <1>15, <1>16

\* The transactions that end a claim (finalize, fail_claim) write the row they own.
LEMMA FinalizeIs ==
  ASSUME InboxInv, NEW w \in Workers, Finalize(w)
  PROVE  /\ RowsFit' /\ RowsOnce' /\ RowsContinue /\ RowIds' = RowIds
         /\ \A j \in RowIds : j # worker[w].row => inbox'[j] = inbox[j]
         /\ worker[w].row \in RowIds /\ inbox[worker[w].row].status = "processing"
         /\ inbox'[worker[w].row].status = "processed"
         /\ inbox'[worker[w].row].attempts = inbox[worker[w].row].attempts
<1> DEFINE i == worker[w].row
           row == [inbox[i] EXCEPT !.status = "processed", !.token = 0, !.stale = FALSE]
<1>1. i \in RowIds /\ inbox[i].status = "processing" /\ inbox' = [inbox EXCEPT ![i] = row]
  BY DEF Finalize, Owns, InboxInv, ClaimsKnown, Busy
<1>2. RowFits(inbox[i]) /\ DOMAIN inbox = RowIds
  BY <1>1 DEF InboxInv, RowsFit, RowIds
<1>3. /\ row.status = "processed" /\ row.token = 0 /\ row.stale = FALSE
      /\ row.attempts = inbox[i].attempts /\ row.agent = inbox[i].agent
      /\ row.event = inbox[i].event /\ row.payload = inbox[i].payload
  BY <1>2 DEF RowFits, InboxRow
<1>4. row \in InboxRow
  <2>1. 0 \in 0..MaxAttempts /\ "processed" \in RowStatuses
    BY LimitsAssumption DEF RowStatuses
  <2> QED
    BY <1>2, <2>1 DEF RowFits, InboxRow
<1> HIDE DEF row, i
<1>5. RowFits(row)
  <2>1. row.status # "processing" /\ row.status # "pending"
    BY <1>3
  <2>2. ~row.stale
    BY <1>3, Zenon
  <2> QED
    BY <1>3, <1>4, <2>1, <2>2, Zenon DEF RowFits
<1>6. Continues(inbox[i], row)
  BY <1>2, <1>3, LimitsAssumption DEF Continues, RowFits, InboxRow
<1>7. RowsFit' /\ RowsOnce' /\ RowsContinue /\ RowIds' = RowIds
  BY <1>1, <1>5, <1>6, RowStep
<1>8. \A j \in RowIds : inbox'[j] = IF j = i THEN row ELSE inbox[j]
  BY <1>1, <1>2
<1> QED
  BY <1>1, <1>3, <1>7, <1>8 DEF i

LEMMA RecordFailureIs ==
  ASSUME InboxInv, NEW w \in Workers, RecordFailure(w)
  PROVE  /\ RowsFit' /\ RowsOnce' /\ RowsContinue /\ RowIds' = RowIds
         /\ \A j \in RowIds : j # worker[w].row => inbox'[j] = inbox[j]
         /\ worker[w].row \in RowIds /\ inbox[worker[w].row].status = "processing"
         /\ inbox'[worker[w].row] = Released(inbox[worker[w].row])
<1> DEFINE i == worker[w].row
           row == Released(inbox[i])
<1>1. i \in RowIds /\ inbox[i].status = "processing" /\ inbox' = [inbox EXCEPT ![i] = row]
  BY DEF RecordFailure, Owns, InboxInv, ClaimsKnown, Busy
<1>2. RowFits(inbox[i]) /\ DOMAIN inbox = RowIds
  BY <1>1 DEF InboxInv, RowsFit, RowIds
<1>3. RowFits(row) /\ Continues(inbox[i], row)
  BY <1>1, <1>2, ReleasedFits
<1> HIDE DEF row, i
<1>4. RowsFit' /\ RowsOnce' /\ RowsContinue /\ RowIds' = RowIds
  BY <1>1, <1>3, RowStep
<1>5. \A j \in RowIds : inbox'[j] = IF j = i THEN row ELSE inbox[j]
  BY <1>1, <1>2
<1> QED
  BY <1>1, <1>4, <1>5 DEF i, row

LEMMA GoStaleIs ==
  ASSUME InboxInv, NEW i \in RowIds, GoStale(i)
  PROVE  /\ RowsFit' /\ RowsOnce' /\ RowsContinue /\ RowIds' = RowIds
         /\ \A j \in RowIds : inbox'[j] = IF j = i THEN [inbox[i] EXCEPT !.stale = TRUE] ELSE inbox[j]
<1> DEFINE row == [inbox[i] EXCEPT !.stale = TRUE]
<1>1. inbox[i].status = "processing" /\ inbox' = [inbox EXCEPT ![i] = row]
  BY DEF GoStale
<1>2. RowFits(inbox[i]) /\ DOMAIN inbox = RowIds
  BY DEF InboxInv, RowsFit, RowIds
<1>3. /\ row.status = inbox[i].status /\ row.token = inbox[i].token
      /\ row.attempts = inbox[i].attempts /\ row.agent = inbox[i].agent
      /\ row.event = inbox[i].event /\ row.payload = inbox[i].payload /\ row \in InboxRow
  BY <1>2 DEF RowFits, InboxRow
<1> HIDE DEF row
<1>4. RowFits(row) /\ Continues(inbox[i], row)
  BY <1>1, <1>2, <1>3, LimitsAssumption DEF RowFits, Continues, InboxRow
<1>5. RowsFit' /\ RowsOnce' /\ RowsContinue /\ RowIds' = RowIds
  BY <1>1, <1>4, RowStep
<1> QED
  BY <1>1, <1>2, <1>5 DEF row

-----------------------------------------------------------------------------
(* The invariant of the inbox *)

LEMMA SameRows ==
  ASSUME InboxInv, UNCHANGED inbox
  PROVE  RowsFit' /\ RowsOnce' /\ RowsContinue /\ RowIds' = RowIds
<1>1. \A i \in RowIds : Continues(inbox[i], inbox[i])
  BY LimitsAssumption DEF InboxInv, RowsFit, RowFits, InboxRow, Continues
<1> QED
  BY <1>1 DEF InboxInv, RowsFit, RowsOnce, RowsContinue, RowIds

\* What collectors do leaves every claim as it is.
LEMMA ClaimsStay ==
  ASSUME InboxInv, RowsFit', RowsContinue, UNCHANGED worker
  PROVE  ClaimsKnown' /\ ClaimsApart'
<1>1. \A i \in RowIds : /\ inbox[i].attempts \in Nat /\ i \in RowIds' /\ inbox'[i].attempts \in Nat
                       /\ inbox'[i].attempts >= inbox[i].attempts
  BY LimitsAssumption DEF InboxInv, RowsFit, RowFits, InboxRow, RowsContinue, Continues
<1>2. ClaimsKnown'
  BY <1>1 DEF InboxInv, ClaimsKnown, Busy
<1> QED
  BY <1>2 DEF InboxInv, ClaimsApart, Busy

\* The steps of one worker, from what they do to the rows and to its claim.
LEMMA WorkerStep ==
  ASSUME InboxInv, NEW w \in Workers, RowsFit', RowsOnce', RowsContinue,
         UNCHANGED <<agents, upload>>,
         NEW state \in WorkerState, worker' = [worker EXCEPT ![w] = state],
         \/ state.pc \in {"down", "claiming"}
         \/ Busy(w) /\ state.row = worker[w].row /\ state.token = worker[w].token
         \/ /\ state.row \in RowIds /\ state.token = inbox[state.row].attempts + 1
            /\ inbox'[state.row].attempts = state.token
  PROVE  InboxInv'
<1>1. worker \in [Workers -> WorkerState]
  BY DEF InboxInv, TypeOK
<1>2. worker'[w] = state /\ \A v \in Workers \ {w} : worker'[v] = worker[v]
  BY <1>1
<1>3. \/ ~Busy(w)'
      \/ Busy(w) /\ worker'[w].row = worker[w].row /\ worker'[w].token = worker[w].token
      \/ /\ worker'[w].row \in RowIds
         /\ worker'[w].token = inbox[worker'[w].row].attempts + 1
         /\ inbox'[worker'[w].row].attempts = worker'[w].token
  BY <1>2 DEF Busy
<1>4. ClaimsKnown' /\ ClaimsApart'
  BY <1>2, <1>3, ClaimsStep
<1>5. TypeOK'
  BY <1>1 DEF InboxInv, TypeOK, RowsFit
<1> QED
  BY <1>4, <1>5 DEF InboxInv, UploadsNamed

\* What a worker's state can be.
LEMMA WorkerStates ==
  ASSUME InboxInv, NEW w \in Workers
  PROVE  /\ worker[w] \in WorkerState
         /\ AtStart \in WorkerState /\ Down \in WorkerState
         /\ AtStart.pc = "claiming" /\ Down.pc = "down"
         /\ \A pc \in {"claiming", "evaluated", "failing"} :
              LET state == [worker[w] EXCEPT !.pc = pc]
              IN /\ state \in WorkerState /\ state.pc = pc
                 /\ state.row = worker[w].row /\ state.token = worker[w].token
<1>1. worker[w] \in WorkerState
  BY DEF InboxInv, TypeOK
<1>2. 0 \in 0..MaxAttempts /\ 0 \in 0..BatchSize
  BY LimitsAssumption
<1> QED
  BY <1>1, <1>2 DEF WorkerState, AtStart, Down

LEMMA CollectStep ==
  ASSUME InboxInv, Collects
  PROVE  InboxInv'
<1>1. ASSUME NEW a \in Agents, NEW c \in Certificates, Register(a, c) PROVE InboxInv'
  <2>1. UNCHANGED <<inbox, upload, worker>>
    BY <1>1 DEF Register
  <2>2. RowsFit' /\ RowsOnce' /\ ClaimsKnown' /\ ClaimsApart'
    BY <2>1, SameRows, ClaimsStay
  <2>3. TypeOK'
    BY <1>1, <2>1 DEF InboxInv, TypeOK, Register
  <2> QED
    BY <2>1, <2>2, <2>3 DEF InboxInv, UploadsNamed
<1>2. ASSUME NEW a \in Agents, Revoke(a) PROVE InboxInv'
  <2>1. UNCHANGED <<inbox, upload, worker>>
    BY <1>2 DEF Revoke
  <2>2. RowsFit' /\ RowsOnce' /\ ClaimsKnown' /\ ClaimsApart'
    BY <2>1, SameRows, ClaimsStay
  <2>3. TypeOK'
    BY <1>2, <2>1 DEF InboxInv, TypeOK, Revoke
  <2> QED
    BY <2>1, <2>2, <2>3 DEF InboxInv, UploadsNamed
<1>3. ASSUME NEW c \in Certificates, NEW a \in Agents, NEW b \in Batches, Identify(c, a, b)
      PROVE  InboxInv'
  <2>1. UNCHANGED <<agents, inbox, worker>>
    BY <1>3 DEF Identify
  <2>2. RowsFit' /\ RowsOnce' /\ ClaimsKnown' /\ ClaimsApart'
    BY <2>1, SameRows, ClaimsStay
  <2>3. TypeOK' /\ UploadsNamed'
    BY <1>3, <2>1 DEF InboxInv, TypeOK, Identify, UploadsNamed
  <2> QED
    BY <2>2, <2>3 DEF InboxInv
<1>4. ASSUME NEW c \in Certificates, IngestBatch(c) PROVE InboxInv'
  <2>1. UNCHANGED <<agents, worker>> /\ upload' = [upload EXCEPT ![c] = NoUpload]
    BY <1>4 DEF IngestBatch
  <2>2. RowsFit' /\ RowsOnce' /\ \A i \in RowIds : i \in RowIds' /\ inbox'[i] = inbox[i]
    BY <1>4, IngestRows
  <2>3. RowsContinue
    BY <2>2, LimitsAssumption DEF RowsContinue, Continues, InboxInv, RowsFit, RowFits, InboxRow
  <2>4. ClaimsKnown' /\ ClaimsApart'
    BY <2>1, <2>2, <2>3, ClaimsStay
  <2>5. TypeOK' /\ UploadsNamed'
    BY <2>1, <2>2 DEF InboxInv, TypeOK, RowsFit, UploadsNamed, NoUpload
  <2> QED
    BY <2>2, <2>4, <2>5 DEF InboxInv
<1> QED
  BY <1>1, <1>2, <1>3, <1>4 DEF Collects

LEMMA WorksStep ==
  ASSUME InboxInv, NEW w \in Workers, Works(w) \/ Crash(w)
  PROVE  InboxInv'
<1>1. CASE ClaimNext(w)
  <2>1. RowsFit' /\ RowsOnce' /\ RowsContinue
    BY <1>1, ClaimNextIs
  <2>2. PICK i \in RowIds :
          /\ worker' = [worker EXCEPT ![w] =
               [pc |-> "holding", row |-> i, token |-> inbox[i].attempts + 1,
                taken |-> worker[w].taken + 1, last |-> i]]
          /\ inbox'[i].attempts = inbox[i].attempts + 1 /\ inbox[i].attempts < MaxAttempts
    BY <1>1, ClaimNextIs
  <2> DEFINE state == [pc |-> "holding", row |-> i, token |-> inbox[i].attempts + 1,
                       taken |-> worker[w].taken + 1, last |-> i]
  <2>3. worker[w].taken < BatchSize /\ UNCHANGED <<agents, upload>>
    BY <1>1 DEF ClaimNext
  <2>4. inbox[i].attempts \in 0..MaxAttempts /\ worker[w].taken \in 0..BatchSize /\ i \in Nat
    <3>1. worker[w] \in WorkerState
      BY WorkerStates
    <3>2. RowFits(inbox[i]) /\ i \in Nat
      BY DEF InboxInv, RowsFit, RowIds
    <3> QED
      BY <3>1, <3>2 DEF RowFits, InboxRow, WorkerState
  <2>5. state \in WorkerState
    BY <2>2, <2>3, <2>4, LimitsAssumption DEF WorkerState
  <2>6. state.row = i /\ state.token = inbox[i].attempts + 1
    OBVIOUS
  <2>7. worker' = [worker EXCEPT ![w] = state]
    BY <2>2
  <2> HIDE DEF state
  <2> QED
    BY <2>1, <2>2, <2>3, <2>5, <2>6, <2>7, WorkerStep
<1>2. CASE EndBatch(w)
  <2>1. inbox' = Visible(w) \/ UNCHANGED inbox
    BY <1>2 DEF EndBatch
  <2>2. RowsFit' /\ RowsOnce' /\ RowsContinue
    BY <2>1, VisibleStep, SameRows
  <2> QED
    BY <1>2, <2>2, WorkerStates, WorkerStep DEF EndBatch
<1>3. CASE Evaluate(w) \/ ProcessingRaises(w) \/ LoseClaim(w)
  <2>1. PICK pc \in {"claiming", "evaluated", "failing"} :
          /\ worker' = [worker EXCEPT ![w] = [worker[w] EXCEPT !.pc = pc]]
          /\ pc = "claiming" \/ Busy(w)
    BY <1>3 DEF Evaluate, ProcessingRaises, LoseClaim, Goes, Busy
  <2>2. RowsFit' /\ RowsOnce' /\ RowsContinue /\ UNCHANGED <<agents, upload>>
    BY <1>3, SameRows DEF Evaluate, ProcessingRaises, LoseClaim
  <2> QED
    BY <2>1, <2>2, WorkerStates, WorkerStep
<1>4. CASE Finalize(w) \/ RecordFailure(w)
  <2>1. /\ worker' = [worker EXCEPT ![w] = [worker[w] EXCEPT !.pc = "claiming"]]
        /\ UNCHANGED <<agents, upload>>
    BY <1>4 DEF Finalize, RecordFailure, Goes
  <2>2. RowsFit' /\ RowsOnce' /\ RowsContinue
    BY <1>4, FinalizeIs, RecordFailureIs
  <2> QED
    BY <2>1, <2>2, WorkerStates, WorkerStep
<1>5. CASE AbortBatch(w) \/ Crash(w) \/ Restart(w)
  <2>1. PICK state \in {AtStart, Down} :
          worker' = [worker EXCEPT ![w] = state] /\ UNCHANGED <<agents, inbox, upload>>
    BY <1>5 DEF AbortBatch, Crash, Restart
  <2>2. RowsFit' /\ RowsOnce' /\ RowsContinue
    BY <2>1, SameRows
  <2> QED
    BY <2>1, <2>2, WorkerStates, WorkerStep
<1> QED
  BY <1>1, <1>2, <1>3, <1>4, <1>5 DEF Works

LEMMA InboxStep == InboxInv /\ [Next]_vars => InboxInv'
<1> SUFFICES ASSUME InboxInv, [Next]_vars PROVE InboxInv'
  OBVIOUS
<1>1. ASSUME NEW i \in RowIds, GoStale(i) PROVE InboxInv'
  <2>1. RowsFit' /\ RowsOnce' /\ RowsContinue /\ UNCHANGED <<agents, upload, worker>>
    BY <1>1, GoStaleIs DEF GoStale
  <2>2. ClaimsKnown' /\ ClaimsApart'
    BY <2>1, ClaimsStay
  <2> QED
    BY <2>1, <2>2 DEF InboxInv, TypeOK, RowsFit, UploadsNamed
<1>2. CASE UNCHANGED vars
  <2>1. UNCHANGED <<agents, inbox, upload, worker>>
    BY <1>2 DEF vars
  <2>2. RowsFit' /\ RowsOnce' /\ ClaimsKnown' /\ ClaimsApart'
    BY <2>1, SameRows, ClaimsStay
  <2> QED
    BY <2>1, <2>2 DEF InboxInv, TypeOK, UploadsNamed
<1> QED
  BY <1>1, <1>2, CollectStep, WorksStep DEF Next

LEMMA InboxInit == Init => InboxInv
<1> SUFFICES ASSUME Init PROVE InboxInv
  OBVIOUS
<1>1. TypeOK
  BY LimitsAssumption DEF Init, TypeOK, NoAgent, NoUpload, Down, AtStart, WorkerState
<1>2. RowIds = {}
  BY DEF Init, RowIds
<1> QED
  BY <1>1, <1>2 DEF Init, InboxInv, TypeOK, RowsFit, UploadsNamed, RowsOnce, ClaimsKnown,
     ClaimsApart, Busy, Down, AtStart

LEMMA AlwaysInboxInv == Spec => []InboxInv
BY InboxInit, InboxStep, PTL DEF Spec

\* The tables and the memories of the workers have their types for any
\* collectors, batches, workers and attempts (collector_store.py, worker.py).
THEOREM TypeCorrect == Spec => []TypeOK
<1>1. InboxInv => TypeOK
  BY DEF InboxInv
<1> QED
  BY <1>1, AlwaysInboxInv, PTL

-----------------------------------------------------------------------------
(* A claim that is not stale *)

\* No other worker's step touches a row under a claim that is not stale: recovery
\* takes stale ones, and two claims of a row have different tokens.
LEMMA OthersKeepOff ==
  ASSUME InboxInv, NEW w \in Workers, Current(w), ~inbox[worker[w].row].stale,
         NEW v \in Workers, v # w, Works(v) \/ Crash(v)
  PROVE  inbox'[worker[w].row] = inbox[worker[w].row]
<1> DEFINE r == worker[w].row
<1>1. r \in RowIds /\ inbox[r].status = "processing" /\ inbox[r].token = worker[w].token /\ Busy(w)
  BY DEF Current, Owns, InboxInv, ClaimsKnown
<1>2. ~inbox[r].stale
  OBVIOUS
<1>3. CASE ClaimNext(v)
  <2>1. PICK i \in RowIds :
          /\ inbox[i].status = "pending" \/ (inbox[i].status = "processing" /\ inbox[i].stale)
          /\ \A j \in RowIds \ {i} :
               inbox'[j] # inbox[j] => inbox[j].stale /\ inbox'[j] = Released(inbox[j])
    BY <1>3, ClaimNextIs
  <2> HIDE DEF r
  <2>2. r # i
    BY <1>1, <1>2, <2>1
  <2>3. inbox'[r] = inbox[r]
    BY <1>1, <1>2, <2>1, <2>2
  <2> QED
    BY <2>3 DEF r
<1>4. CASE EndBatch(v)
  <2>1. inbox' = Visible(v) \/ inbox' = inbox
    BY <1>4 DEF EndBatch
  <2>2. Visible(v)[r] # inbox[r] => inbox[r].stale
    BY <1>1, VisibleFits DEF InboxInv
  <2> QED
    BY <1>2, <2>1, <2>2
<1>5. CASE Finalize(v) \/ RecordFailure(v)
  <2>1. Owns(v) /\ Busy(v)
    BY <1>5 DEF Finalize, RecordFailure, Busy
  <2>2. worker[v].row # r
    BY <1>1, <2>1 DEF Owns, InboxInv, ClaimsApart
  <2> HIDE DEF r
  <2>3. inbox'[r] = inbox[r]
    BY <1>1, <1>5, <2>2, FinalizeIs, RecordFailureIs
  <2> QED
    BY <2>3 DEF r
<1> QED
  BY <1>3, <1>4, <1>5 DEF Works, Crash, Evaluate, ProcessingRaises, LoseClaim, AbortBatch, Restart

\* Its own steps end the claim or leave it.
LEMMA OwnStepsMove ==
  ASSUME InboxInv, NEW w \in Workers, Busy(w), Works(w) \/ Crash(w)
  PROVE  worker'[w] # worker[w]
<1>1. worker \in [Workers -> WorkerState] /\ worker[w] \in WorkerState
  BY DEF InboxInv, TypeOK
<1>2. worker[w].pc \in {"holding", "evaluated", "failing"}
  BY DEF Busy
<1>3. CASE Evaluate(w) \/ ProcessingRaises(w) \/ Finalize(w) \/ LoseClaim(w) \/ RecordFailure(w)
  <2>1. PICK pc \in {"claiming", "evaluated", "failing"} :
          worker[w].pc # pc /\ worker'[w] = [worker[w] EXCEPT !.pc = pc]
    BY <1>1, <1>3 DEF Evaluate, ProcessingRaises, Finalize, LoseClaim, RecordFailure, Goes
  <2>2. worker'[w].pc = pc
    BY <1>1, <2>1, WorkerStates
  <2> QED
    BY <2>1, <2>2
<1>4. CASE AbortBatch(w) \/ Crash(w)
  <2>1. worker'[w].pc = "down"
    BY <1>1, <1>4 DEF AbortBatch, Crash, Down, AtStart
  <2> QED
    BY <1>2, <2>1
<1> QED
  BY <1>2, <1>3, <1>4 DEF Works, ClaimNext, EndBatch, Restart

LEMMA CollectorsKeepOff ==
  ASSUME InboxInv, Collects, NEW i \in RowIds
  PROVE  i \in RowIds' /\ inbox'[i] = inbox[i]
<1>1. CASE UNCHANGED inbox
  BY <1>1 DEF RowIds
<1>2. ASSUME NEW c \in Certificates, IngestBatch(c) PROVE i \in RowIds' /\ inbox'[i] = inbox[i]
  BY <1>2, IngestRows
<1> QED
  BY <1>1, <1>2 DEF Collects, Register, Revoke, Identify

\* A claim that is not stale is safe from every other worker and collector, for
\* any number of them (worker.py, collector_store.py).
THEOREM FreshClaimAlwaysSafe == Spec => FreshClaimIsSafe
<1> DEFINE Safe ==
      \A w \in Workers :
        Current(w) /\ ~inbox[worker[w].row].stale /\ worker'[w] = worker[w] =>
          [inbox'[worker[w].row] EXCEPT !.stale = FALSE] = inbox[worker[w].row]
<1>1. InboxInv /\ [Next]_vars => [Safe]_vars
  <2> SUFFICES ASSUME InboxInv, Next, NEW w \in Workers, Current(w),
                      ~inbox[worker[w].row].stale, worker'[w] = worker[w]
               PROVE  [inbox'[worker[w].row] EXCEPT !.stale = FALSE] = inbox[worker[w].row]
    OBVIOUS
  <2> DEFINE r == worker[w].row
  <2>1. r \in RowIds /\ inbox[r] \in InboxRow /\ Busy(w)
    BY DEF Current, Busy, InboxInv, ClaimsKnown, RowsFit, RowFits
  <2>2. inbox[r].stale = FALSE
    BY <2>1 DEF InboxRow
  <2>3. inbox'[r] = inbox[r] \/ inbox'[r] = [inbox[r] EXCEPT !.stale = TRUE]
    <3>1. CASE Collects
      BY <2>1, <3>1, CollectorsKeepOff
    <3>2. ASSUME NEW i \in RowIds, GoStale(i)
          PROVE  inbox'[r] = inbox[r] \/ inbox'[r] = [inbox[r] EXCEPT !.stale = TRUE]
      BY <2>1, <3>2, GoStaleIs
    <3>3. ASSUME NEW v \in Workers, Works(v) \/ Crash(v) PROVE inbox'[r] = inbox[r]
      <4>1. v # w
        BY <2>1, <3>3, OwnStepsMove
      <4> QED
        BY <3>3, <4>1, OthersKeepOff
    <3> QED
      BY <3>1, <3>2, <3>3 DEF Next
  <2> HIDE DEF r
  <2>4. [inbox'[r] EXCEPT !.stale = FALSE] = inbox[r]
    BY <2>1, <2>2, <2>3 DEF InboxRow
  <2> QED
    BY <2>4 DEF r
<1> QED
  BY <1>1, AlwaysInboxInv, PTL DEF Spec, FreshClaimIsSafe

-----------------------------------------------------------------------------
(* What an answer promises *)

\* A request is over when its batch is ingested, and only then.
LEMMA EndsByIngesting ==
  ASSUME InboxInv, Next, NEW c \in Certificates, upload[c] # NoUpload, upload'[c] = NoUpload
  PROVE  IngestBatch(c)
<1>1. upload \in [Certificates -> [agent : Agents \cup {None}, batch : Batches \cup {<<>>}]]
  BY DEF InboxInv, TypeOK
<1>2. ASSUME NEW d \in Certificates, NEW a \in Agents, NEW b \in Batches, Identify(d, a, b)
      PROVE  FALSE
  BY <1>1, <1>2 DEF Identify
<1>3. ASSUME NEW d \in Certificates, IngestBatch(d) PROVE d = c
  BY <1>1, <1>3 DEF IngestBatch
<1>4. \/ \E d \in Certificates : IngestBatch(d)
      \/ \E d \in Certificates, a \in Agents, b \in Batches : Identify(d, a, b)
      \/ UNCHANGED upload
  BY DEF Next, Collects, Register, Revoke, GoStale, Works, ClaimNext, EndBatch, Evaluate,
     ProcessingRaises, Finalize, LoseClaim, RecordFailure, AbortBatch, Restart, Crash
<1> QED
  BY <1>2, <1>3, <1>4

\* Rows come from ingestion only.
LEMMA AddsByIngesting ==
  ASSUME InboxInv, Next, NEW i \in RowIds' \ RowIds
  PROVE  \E c \in Certificates : IngestBatch(c)
<1>1. ASSUME NEW w \in Workers, Works(w) \/ Crash(w) PROVE RowIds' = RowIds
  <2>1. CASE ClaimNext(w)
    BY <2>1, ClaimNextIs
  <2>2. CASE EndBatch(w)
    <3>1. inbox' = Visible(w) \/ UNCHANGED inbox
      BY <2>2 DEF EndBatch
    <3> QED
      BY <3>1, VisibleStep, SameRows
  <2>3. CASE Finalize(w) \/ RecordFailure(w)
    BY <2>3, FinalizeIs, RecordFailureIs
  <2> QED
    BY <1>1, <2>1, <2>2, <2>3
    DEF Works, Crash, Evaluate, ProcessingRaises, LoseClaim, AbortBatch, Restart, RowIds
<1>2. ASSUME NEW j \in RowIds, GoStale(j) PROVE RowIds' = RowIds
  BY <1>2, GoStaleIs
<1>3. CASE Collects
  BY <1>3 DEF Collects, Register, Revoke, Identify, RowIds
<1> QED
  BY <1>1, <1>2, <1>3 DEF Next

\* The event of an accepted batch is stored once, with the content that was sent.
LEMMA StoredAsSent ==
  ASSUME InboxInv, InboxInv', NEW c \in Certificates, IngestBatch(c),
         Accepted(upload[c].agent, upload[c].batch), NEW k \in DOMAIN upload[c].batch
  PROVE  {inbox'[i].payload : i \in {j \in DOMAIN inbox' :
            inbox'[j].agent = upload[c].agent /\ inbox'[j].event = upload[c].batch[k].event}}
           = {upload[c].batch[k].payload}
<1> DEFINE agent == upload[c].agent
           item == upload[c].batch[k]
<1>1. DOMAIN inbox' = RowIds'
  BY DEF InboxInv, RowsFit, RowIds
<1>2. \E i \in RowIds' :
        inbox'[i].agent = agent /\ inbox'[i].event = item.event /\ inbox'[i].payload = item.payload
  <2>1. CASE Stored(agent, item.event) = {}
    <3>1. \E i \in RowIds' : inbox'[i] = NewRow(agent, item)
      BY <2>1, IngestRows
    <3> QED
      BY <3>1 DEF NewRow
  <2>2. CASE Stored(agent, item.event) # {}
    <3>1. PICK i \in RowIds : inbox[i].agent = agent /\ inbox[i].event = item.event
      BY <2>2 DEF Stored
    <3>2. inbox[i].payload = item.payload
      BY <3>1 DEF Accepted, Conflicts, Stored
    <3>3. i \in RowIds' /\ inbox'[i] = inbox[i]
      BY IngestRows
    <3> QED
      BY <3>1, <3>2, <3>3
  <2> QED
    BY <2>1, <2>2
<1> HIDE DEF agent, item
<1>3. PICK i \in RowIds' :
        inbox'[i].agent = agent /\ inbox'[i].event = item.event /\ inbox'[i].payload = item.payload
  BY <1>2
<1>4. \A j \in RowIds' : inbox'[j].agent = agent /\ inbox'[j].event = item.event => j = i
  BY <1>3 DEF InboxInv, RowsOnce
<1>5. {j \in DOMAIN inbox' : inbox'[j].agent = agent /\ inbox'[j].event = item.event} = {i}
  BY <1>1, <1>3, <1>4
<1>6. {inbox'[j].payload : j \in {j \in DOMAIN inbox' :
         inbox'[j].agent = agent /\ inbox'[j].event = item.event}} = {item.payload}
  BY <1>3, <1>5
<1> QED
  BY <1>6 DEF agent, item

\* Every event of an answered batch is in the inbox once as it was sent, and
\* nothing is taken in of a revoked collector, for any batches sent side by side
\* and again (collector_store.py, ingest_batch).
THEOREM AcceptedAlwaysStored == Spec => AcceptedIsStored
<1> DEFINE AsSent ==
      \A c \in Certificates :
        LET request == upload[c] IN
          request # NoUpload /\ upload'[c] = NoUpload /\ Accepted(request.agent, request.batch) =>
            \A k \in DOMAIN request.batch :
              {inbox'[i].payload : i \in {j \in DOMAIN inbox' :
                  inbox'[j].agent = request.agent /\ inbox'[j].event = request.batch[k].event}}
                = {request.batch[k].payload}
    Once == \A i, j \in DOMAIN inbox' :
              inbox'[i].agent = inbox'[j].agent /\ inbox'[i].event = inbox'[j].event => i = j
    FromActive == \A i \in DOMAIN inbox' : i \notin RowIds => agents[inbox'[i].agent].status = "active"
<1>1. ASSUME InboxInv, Next PROVE AsSent /\ Once /\ FromActive
  <2>1. InboxInv' /\ DOMAIN inbox' = RowIds'
    <3>1. InboxInv'
      BY <1>1, InboxStep
    <3> QED
      BY <3>1 DEF InboxInv, RowsFit, RowIds
  <2>2. AsSent
    BY <1>1, <2>1, EndsByIngesting, StoredAsSent
  <2>3. Once
    BY <2>1 DEF InboxInv, RowsOnce
  <2>4. ASSUME NEW i \in RowIds' \ RowIds PROVE agents[inbox'[i].agent].status = "active"
    <3>1. PICK c \in Certificates : IngestBatch(c)
      BY <1>1, AddsByIngesting
    <3>2. Accepted(upload[c].agent, upload[c].batch) /\ inbox'[i].agent = upload[c].agent
      BY <1>1, <3>1, IngestRows
    <3> QED
      BY <3>2 DEF Accepted
  <2>5. FromActive
    BY <2>1, <2>4
  <2> QED
    BY <2>2, <2>3, <2>5
<1>2. InboxInv /\ [Next]_vars => [AsSent /\ Once /\ FromActive]_vars
  BY <1>1
<1> QED
  BY <1>2, AlwaysInboxInv, PTL DEF Spec, AcceptedIsStored

-----------------------------------------------------------------------------
(* The life of an event *)

Queued(row) == row.status \in {"pending", "processing"}

\* What a step may make of a row.
Moves(old, new) ==
  \/ new.status = old.status /\ new.attempts = old.attempts
  \/ Queued(old) /\ Queued(new) /\ new.attempts = old.attempts
  \/ /\ Queued(old) /\ Queued(new)
     /\ old.attempts < MaxAttempts /\ new.attempts = old.attempts + 1
  \/ /\ Queued(old) /\ new.status = "processed"
     /\ old.attempts > 0 /\ new.attempts = old.attempts
  \/ /\ Queued(old) /\ new.status = "failed"
     /\ old.attempts = MaxAttempts /\ new.attempts = old.attempts

\* A claim that is given up leaves the row queued, or failed after the last try.
LEMMA ReleaseMoves ==
  ASSUME NEW row, RowFits(row), row.status = "processing"
  PROVE  Moves(row, Released(row))
  BY ReleasedFits DEF Moves, Queued

LEMMA RowMoves ==
  ASSUME InboxInv, Next, NEW i \in RowIds
  PROVE  /\ i \in RowIds' /\ Moves(inbox[i], inbox'[i])
         /\ inbox'[i].agent = inbox[i].agent /\ inbox'[i].event = inbox[i].event
         /\ inbox'[i].payload = inbox[i].payload
<1> DEFINE Goal == /\ i \in RowIds' /\ Moves(inbox[i], inbox'[i])
                   /\ inbox'[i].agent = inbox[i].agent /\ inbox'[i].event = inbox[i].event
                   /\ inbox'[i].payload = inbox[i].payload
<1>1. RowFits(inbox[i])
  BY DEF InboxInv, RowsFit
<1>2. CASE i \in RowIds' /\ inbox'[i] = inbox[i]
  BY <1>2 DEF Moves
<1>3. ASSUME NEW j \in RowIds, GoStale(j) PROVE Goal
  <2>1. i \in RowIds' /\ inbox'[i] = IF i = j THEN [inbox[j] EXCEPT !.stale = TRUE] ELSE inbox[i]
    BY <1>3, GoStaleIs
  <2>2. /\ inbox'[i].status = inbox[i].status /\ inbox'[i].attempts = inbox[i].attempts
        /\ inbox'[i].agent = inbox[i].agent /\ inbox'[i].event = inbox[i].event
        /\ inbox'[i].payload = inbox[i].payload
    BY <1>1, <2>1 DEF RowFits, InboxRow
  <2> QED
    BY <2>1, <2>2 DEF Moves
<1>4. ASSUME NEW w \in Workers, ClaimNext(w) PROVE Goal
  <2>1. PICK j \in RowIds :
          /\ inbox'[j].status = "processing" /\ inbox'[j].attempts = inbox[j].attempts + 1
          /\ inbox[j].attempts < MaxAttempts
          /\ inbox[j].status = "pending" \/ (inbox[j].status = "processing" /\ inbox[j].stale)
          /\ \A l \in RowIds \ {j} :
               inbox'[l] # inbox[l] => inbox[l].stale /\ inbox'[l] = Released(inbox[l])
    BY <1>4, ClaimNextIs
  <2>2. i \in RowIds' /\ Continues(inbox[i], inbox'[i])
    BY <1>4, ClaimNextIs DEF RowsContinue
  <2>3. CASE i = j
    BY <2>1, <2>2, <2>3 DEF Moves, Queued, Continues
  <2>4. CASE i # j /\ inbox'[i] # inbox[i]
    <3>1. inbox[i].stale /\ inbox'[i] = Released(inbox[i])
      BY <2>1, <2>4
    <3>2. inbox[i].status = "processing"
      BY <1>1, <3>1 DEF RowFits
    <3> QED
      BY <1>1, <2>2, <3>1, <3>2, ReleaseMoves DEF Continues
  <2> QED
    BY <1>2, <2>2, <2>3, <2>4
<1>5. ASSUME NEW w \in Workers, EndBatch(w) PROVE Goal
  <2>1. inbox' = Visible(w) \/ UNCHANGED inbox
    BY <1>5 DEF EndBatch
  <2>2. i \in RowIds' /\ Continues(inbox[i], inbox'[i])
    BY <2>1, VisibleStep, SameRows DEF RowsContinue
  <2>3. CASE inbox'[i] # inbox[i]
    <3>1. inbox[i].stale /\ inbox'[i] = Released(inbox[i])
      BY <2>1, <2>3, VisibleFits DEF InboxInv
    <3>2. inbox[i].status = "processing"
      BY <1>1, <3>1 DEF RowFits
    <3> QED
      BY <1>1, <2>2, <3>1, <3>2, ReleaseMoves DEF Continues
  <2> QED
    BY <1>2, <2>2, <2>3
<1>6. ASSUME NEW w \in Workers, Finalize(w) PROVE Goal
  <2>1. i \in RowIds' /\ Continues(inbox[i], inbox'[i])
    BY <1>6, FinalizeIs DEF RowsContinue
  <2>2. CASE i = worker[w].row
    <3>1. inbox[i].status = "processing" /\ inbox'[i].status = "processed"
          /\ inbox'[i].attempts = inbox[i].attempts
      BY <1>6, <2>2, FinalizeIs
    <3>2. inbox[i].attempts > 0
      BY <1>1, <3>1, LimitsAssumption DEF RowFits, InboxRow
    <3> QED
      BY <2>1, <3>1, <3>2 DEF Moves, Queued, Continues
  <2> QED
    BY <1>2, <1>6, <2>1, <2>2, FinalizeIs
<1>7. ASSUME NEW w \in Workers, RecordFailure(w) PROVE Goal
  <2>1. i \in RowIds' /\ Continues(inbox[i], inbox'[i])
    BY <1>7, RecordFailureIs DEF RowsContinue
  <2>2. CASE i = worker[w].row
    <3>1. inbox[i].status = "processing" /\ inbox'[i] = Released(inbox[i])
      BY <1>7, <2>2, RecordFailureIs
    <3> QED
      BY <1>1, <2>1, <3>1, ReleaseMoves DEF Continues
  <2> QED
    BY <1>2, <1>7, <2>1, <2>2, RecordFailureIs
<1>8. ASSUME NEW w \in Workers, Works(w) \/ Crash(w) PROVE Goal
  <2>1. CASE UNCHANGED inbox
    BY <1>2, <2>1 DEF RowIds
  <2> HIDE DEF Goal
  <2> QED
    BY <1>4, <1>5, <1>6, <1>7, <1>8, <2>1
    DEF Works, Crash, Evaluate, ProcessingRaises, LoseClaim, AbortBatch, Restart
<1>9. CASE Collects
  BY <1>2, <1>9, CollectorsKeepOff
<1> QED
  BY <1>3, <1>8, <1>9 DEF Next

AsPhase(status) ==
  CASE status = "processed" -> "processed"
    [] status = "failed"    -> "given up"
    [] OTHER                -> "queued"

\* What the abstract life sees of an event, before a step and after it.
LEMMA RowTells ==
  ASSUME RowsOnce, NEW k \in Keys, NEW i \in RowsOf(k)
  PROVE  RowsOf(k) # {} /\ RowOf(k) = inbox[i] /\ Phase(k) = AsPhase(inbox[i].status)
<1>1. \A j \in RowIds : j \in RowsOf(k) => j = i
  BY DEF RowsOf, RowsOnce
<1>2. i \in RowIds /\ i \in RowsOf(k)
  BY DEF RowsOf
<1>3. (CHOOSE j \in RowIds : j \in RowsOf(k)) = i
  BY <1>1, <1>2
<1> QED
  BY <1>2, <1>3 DEF RowOf, Phase, AsPhase

LEMMA RowTellsNext ==
  ASSUME RowsOnce', NEW k \in Keys, NEW i \in RowsOf(k)'
  PROVE  RowsOf(k)' # {} /\ RowOf(k)' = inbox'[i] /\ Phase(k)' = AsPhase(inbox'[i].status)
<1>1. \A j \in RowIds' : j \in RowsOf(k)' => j = i
  BY DEF RowsOf, RowsOnce
<1>2. i \in RowIds' /\ i \in RowsOf(k)'
  BY DEF RowsOf
<1>3. (CHOOSE j \in RowIds' : j \in RowsOf(k)') = i
  BY <1>1, <1>2
<1> QED
  BY <1>2, <1>3 DEF RowOf, Phase, AsPhase

Tries(k) == IF RowsOf(k) = {} THEN 0 ELSE RowOf(k).attempts

\* What a step makes of one event.
LEMMA EventStep ==
  ASSUME InboxInv, InboxInv', Next, NEW k \in Keys
  PROVE  /\ Phase(k)' \in {"unknown", "queued", "processed", "given up"}
         /\ Tries(k)' \in 0..MaxAttempts
         /\ \/ Phase(k) = "unknown" /\ Phase(k)' = "queued" /\ Tries(k)' = Tries(k)
            \/ /\ Phase(k) = "queued" /\ Tries(k) < MaxAttempts
               /\ Phase(k)' = "queued" /\ Tries(k)' = Tries(k) + 1
            \/ /\ Phase(k) = "queued" /\ Tries(k) > 0
               /\ Phase(k)' = "processed" /\ Tries(k)' = Tries(k)
            \/ /\ Phase(k) = "queued" /\ Tries(k) = MaxAttempts
               /\ Phase(k)' = "given up" /\ Tries(k)' = Tries(k)
            \/ Phase(k)' = Phase(k) /\ Tries(k)' = Tries(k)
<1>1. RowsOnce /\ RowsOnce'
  BY DEF InboxInv
<1>2. \A i \in RowIds' : inbox'[i].attempts \in 0..MaxAttempts
  BY DEF InboxInv, RowsFit, RowFits, InboxRow
<1>3. CASE RowsOf(k) # {}
  <2>1. PICK i \in RowsOf(k) : TRUE
    BY <1>3
  <2>2. Phase(k) = AsPhase(inbox[i].status) /\ Tries(k) = inbox[i].attempts
    BY <1>1, <1>3, RowTells DEF Tries
  <2>3. i \in RowIds /\ inbox[i].agent = k[1] /\ inbox[i].event = k[2]
    BY DEF RowsOf
  <2>4. /\ i \in RowIds' /\ Moves(inbox[i], inbox'[i])
        /\ inbox'[i].agent = inbox[i].agent /\ inbox'[i].event = inbox[i].event
    BY <2>3, RowMoves
  <2>5. i \in RowsOf(k)'
    BY <2>3, <2>4 DEF RowsOf
  <2>6. Phase(k)' = AsPhase(inbox'[i].status) /\ Tries(k)' = inbox'[i].attempts
    BY <1>1, <2>5, RowTellsNext DEF Tries
  <2> QED
    BY <1>2, <2>2, <2>4, <2>6 DEF Moves, Queued, AsPhase
<1>4. CASE RowsOf(k) = {} /\ RowsOf(k)' = {}
  BY <1>4, LimitsAssumption DEF Phase, Tries
<1>5. CASE RowsOf(k) = {} /\ RowsOf(k)' # {}
  <2>1. PICK i \in RowsOf(k)' : TRUE
    BY <1>5
  <2>2. Phase(k)' = AsPhase(inbox'[i].status) /\ Tries(k)' = inbox'[i].attempts
    BY <1>1, <1>5, RowTellsNext DEF Tries
  <2>3. i \in RowIds' /\ inbox'[i].agent = k[1] /\ inbox'[i].event = k[2]
    BY DEF RowsOf
  <2>4. i \notin RowIds
    BY <1>5, <2>3, RowMoves DEF RowsOf
  <2>5. inbox'[i].status = "pending" /\ inbox'[i].attempts = 0
    BY <2>3, <2>4, AddsByIngesting, IngestRows
  <2> QED
    BY <1>5, <2>2, <2>5, LimitsAssumption DEF Phase, Tries, AsPhase
<1> QED
  BY <1>3, <1>4, <1>5

\* To its collector the inbox is SocEventLifecycle, for any collectors, events,
\* workers and attempts: a step of the inbox is one of each event's life, or rests.
THEOREM InboxImplementsLifecycle == Spec => ImplementsEventLifecycle
<1>1. Init => Lifecycle!Init
  <2> SUFFICES ASSUME Init PROVE Lifecycle!Init
    OBVIOUS
  <2>1. \A k \in Keys : RowsOf(k) = {}
    BY DEF Init, RowsOf, RowIds
  <2> QED
    BY <2>1 DEF Lifecycle!Init, Phase
<1>2. InboxInv /\ [Next]_vars =>
        [Lifecycle!Next]_<<[k \in Keys |-> Phase(k)],
                           [k \in Keys |-> IF RowsOf(k) = {} THEN 0 ELSE RowOf(k).attempts]>>
  <2>1. ASSUME InboxInv, Next PROVE Lifecycle!Next
    <3>1. InboxInv'
      BY <2>1, InboxStep
    <3>2. \A k \in Keys :
            /\ Phase(k)' \in {"unknown", "queued", "processed", "given up"}
            /\ Tries(k)' \in 0..MaxAttempts
            /\ \/ Phase(k) = "unknown" /\ Phase(k)' = "queued" /\ Tries(k)' = Tries(k)
               \/ /\ Phase(k) = "queued" /\ Tries(k) < MaxAttempts
                  /\ Phase(k)' = "queued" /\ Tries(k)' = Tries(k) + 1
               \/ /\ Phase(k) = "queued" /\ Tries(k) > 0
                  /\ Phase(k)' = "processed" /\ Tries(k)' = Tries(k)
               \/ /\ Phase(k) = "queued" /\ Tries(k) = MaxAttempts
                  /\ Phase(k)' = "given up" /\ Tries(k)' = Tries(k)
               \/ Phase(k)' = Phase(k) /\ Tries(k)' = Tries(k)
      BY <2>1, <3>1, EventStep
    <3> QED
      BY <3>2 DEF Tries, Lifecycle!Next, Lifecycle!Accept, Lifecycle!Try, Lifecycle!Process,
         Lifecycle!GiveUp, Lifecycle!Rests
  <2>2. CASE UNCHANGED vars
    BY <2>2 DEF vars, Phase, RowsOf, RowOf, RowIds
  <2> QED
    BY <2>1, <2>2
<1> QED
  BY <1>1, <1>2, AlwaysInboxInv, PTL DEF Spec, ImplementsEventLifecycle, Lifecycle!Spec

===============================================================================
