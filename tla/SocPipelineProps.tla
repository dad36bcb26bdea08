-------------------------- MODULE SocPipelineProps --------------------------
(***************************************************************************)
(* What is claimed of the SOC worker: of the way from events to incidents. *)
(***************************************************************************)
EXTENDS SocPipeline

Processed == {i \in RowIds : inbox[i].status = "processed"}

Ids(rows) == {IdOf(inbox[i].agent, inbox[i].event) : i \in rows}

\* Every incident rests on events that are processed: the row and its incidents
\* are committed together, and history contains processed events only.
IncidentsRestOnProcessed ==
  \A id \in DOMAIN incidents : id.events \subseteq Ids(Processed)

\* No match of a detection rule is lost: whatever was retried, recovered or
\* evaluated late, an event that is processed has its incidents, or an event
\* with the same content has (EventDeduplicator keeps one of them).
NoDetectionLost ==
  \A i \in Processed : \E c \in Catalogs : \A rule \in c.detection :
    LET event == EventOf(inbox[i]) IN
      Applies(rule, event) /\ rule.verdict[event.body] = "match" =>
        \E h \in Processed :
          /\ Fingerprint(EventOf(inbox[h])) = Fingerprint(event)
          /\ [kind |-> "detection", rule |-> rule.id, events |-> Ids({h})] \in DOMAIN incidents

InOrder(i, j) ==
  \/ inbox[i].payload.time < inbox[j].payload.time
  \/ (inbox[i].payload.time = inbox[j].payload.time
      /\ IdOf(inbox[i].agent, inbox[i].event) <= IdOf(inbox[j].agent, inbox[j].event))

\* The events that make up the window of a rule that ends at row j, among some rows.
BurstIn(rows, rule, j) ==
  {i \in rows :
     /\ inbox[i].payload.type = rule.type
     /\ inbox[i].payload.group = inbox[j].payload.group
     /\ InOrder(i, j)
     /\ inbox[i].payload.time + rule.window >= inbox[j].payload.time}

BurstReported(ids, rows, rule, j) ==
  LET burst == BurstIn(rows, rule, j) IN
    /\ rule.enabled /\ rule.inactivity >= rule.window
    /\ inbox[j].payload.type = rule.type /\ inbox[j].payload.group # NoGroup
    /\ Cardinality(burst) >= rule.minimum_count
    => \E id \in ids : id.kind = "correlation" /\ id.rule = rule.id /\ Ids(burst) \subseteq id.events

\* Every burst of events is reported: if at some time the processed events hold
\* minimum_count events of a rule's type and of one group within window_seconds, an
\* incident of the rule rests on all of them.  (Stated for rules that are in use and
\* without an inactivity limit shorter than the window.)
NoBurstLost ==
  \A rule \in catalog.correlation : \A j \in Processed :
    BurstReported(DOMAIN incidents, Processed, rule, j)

\* No event says what another says.
NoTwins ==
  \A i, j \in RowIds : Fingerprint(EventOf(inbox[i])) = Fingerprint(EventOf(inbox[j])) => i = j

EarlierInWindow(i) ==
  {j \in 1..(i - 1) : inbox[j].payload.time + MaxWindow(catalog) >= inbox[i].payload.time}

\* Nothing stands in the way of the history: no event is tried twice, none says
\* what another says, and as many lie in the window of an event as a worker reads.
Undisturbed ==
  /\ \A i \in RowIds : inbox[i].attempts <= 1 /\ Cardinality(EarlierInWindow(i)) <= HistoryLimit
  /\ NoTwins

\* One worker, which may stop and crash at any time, a catalog that stays, collectors,
\* claims that expire and operators.
AloneStep(w) ==
  \/ PCollects \/ PStale \/ PWorks(w) \/ PCrash(w)
  \/ \E id \in DOMAIN incidents, new \in Store!Statuses : Operate(id, new)

AloneSpec(w) == PInit /\ [][AloneStep(w)]_pvars

\* Events are evaluated again as the history of later ones, and what comes of it is
\* what came of it before: an incident that is built again can be saved again, whoever
\* built it first and by whatever catalog (worker.py:374, _process_claim:
\* "Deterministic incident IDs and evidence inserts make re-evaluation idempotent").
ReevaluationIsIdempotent ==
  \A w \in Workers :
    worker[w].pc = "evaluated" /\ Owns(w) =>
      \A incident \in found[w] : incident.id \in DOMAIN incidents => Store!Fits(incident)

=============================================================================
