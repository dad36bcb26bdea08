---------------------------- MODULE SocPipeline ----------------------------
(***************************************************************************)
(* The SOC worker as a whole (server/soc/worker.py): the claims of         *)
(* SocInbox, the analysis of SocAnalysis and the store of SocIncidents.    *)
(*                                                                         *)
(* For every claimed event a worker reads the events processed so far that *)
(* lie in the correlation window, analyses them together with it, and      *)
(* saves the incidents in the transaction that marks the event processed.  *)
(* Reading and saving are two steps: other workers act in between.         *)
(*                                                                         *)
(* Here a payload is the event itself: [time, type, group, body, origin].  *)
(* Its internal id is a number given by IdOf.  No event lies in the future. *)
(***************************************************************************)
EXTENDS SocInbox, SocAnalysis, Integers

CONSTANTS
  IdOf(_, _),    \* _internal_event_id of an agent's event, as a number
  NoOrigin,      \* the payload does not say which collector's event it is
  Catalogs,      \* rule catalogs an administrator installs, one after another
  HistoryLimit,  \* history_limit of every worker
  MaxErrors,     \* BOUND on exceptions that have nothing to do with the event
  MaxMoves       \* BOUND on the transitions operators make

ASSUME HistoryLimitAssumption == HistoryLimit \in Nat \ {0}
ASSUME PayloadsAssumption == \A payload \in Payloads : payload.time \in Int
\* The digest that is the id has no collisions.
ASSUME IdsAssumption ==
  \A a, b \in Agents, e, f \in EventIds :
    IdOf(a, e) \in Int /\ (IdOf(a, e) = IdOf(b, f) => a = b /\ e = f)
ASSUME CatalogsAssumption ==
  \A c \in Catalogs :
    /\ IsFiniteSet(c.correlation)
    /\ \A rule \in c.correlation :
         /\ rule.window \in Nat \ {0} /\ rule.inactivity \in Nat \ {0}
         /\ rule.minimum_count \in Nat \ {0}

VARIABLES
  incidents,  \* the tables of SocIncidents
  catalog,    \* the rule catalog on the server's disk
  loaded,     \* the catalog each worker has loaded
  found,      \* the incidents each worker has built for its claim
  errors,     \* exceptions so far
  moves       \* operators' transitions so far

pvars == <<vars, incidents, catalog, loaded, found, errors, moves>>

Unmoved == <<incidents, catalog, loaded, found, errors, moves>>

Store == INSTANCE SocIncidents
  WITH IncidentIds <- {}, Contents <- {}, EvidenceIds <- {}, Findings <- {},
       Times <- {0}, MaxHistory <- 0

-----------------------------------------------------------------------------

\* _payload_for_engine: the fields say which collector's event this is, unless
\* the payload says so itself.
EventOf(row) ==
  LET id == IdOf(row.agent, row.event)
  IN [id |-> id, time |-> row.payload.time, type |-> row.payload.type, group |-> row.payload.group,
      body |-> [said   |-> row.payload.body,
                origin |-> IF row.payload.origin = NoOrigin THEN id ELSE row.payload.origin]]

MaxWindow(rules) ==
  IF rules.correlation = {} THEN 1
  ELSE CHOOSE n \in {r.window : r \in rules.correlation} :
         \A r \in rules.correlation : r.window <= n

\* MUTANT: every earlier row is taken for processed.
HistoricalAll(i, rules) == [j \in 1..(i - 1) |-> EventOf(inbox[j])]

\* MUTANT: the history is what was received in the last seconds before the event.
HistoricalEarlier(i, rules) ==
  LET rows == Ascending({j \in 1..(i - 1) :
                            /\ inbox[j].status = "processed"
                            /\ inbox[j].payload.time <= inbox[i].payload.time
                            /\ inbox[j].payload.time + MaxWindow(rules) >= inbox[i].payload.time})
  IN [k \in DOMAIN rows |-> EventOf(inbox[rows[k]])]

\* The processed rows before row i that lie in the window before its event, or after it.
InWindow(i, rules) ==
  {j \in 1..(i - 1) : /\ inbox[j].status = "processed"
                      /\ inbox[j].payload.time + MaxWindow(rules) >= inbox[i].payload.time}

\* _historical_payloads: the newest HistoryLimit of them, oldest first.
Historical(i, rules) ==
  LET rows == Ascending(InWindow(i, rules))
      from == IF Len(rows) > HistoryLimit THEN Len(rows) - HistoryLimit ELSE 0
  IN [k \in 1..(Len(rows) - from) |-> EventOf(inbox[rows[from + k]])]

\* The batch that is analysed for row i: the history, then the event itself.
Batch(i, rules) == Append(Historical(i, rules), EventOf(inbox[i]))

ForStore(incident) ==
  [id |-> incident.id, content |-> incident.wording, created |-> incident.created,
   evidence |-> [e \in incident.evidence |-> incident.wording]]

\* The history is read and the batch analysed, outside any transaction.
EvaluateClaim(w) ==
  /\ Evaluate(w)
  /\ ~AnalysisRaises(Batch(worker[w].row, loaded[w]), loaded[w])
  /\ found' = [found EXCEPT ![w] =
       {ForStore(incident) : incident \in Incidents(Batch(worker[w].row, loaded[w]), loaded[w])}]
  /\ UNCHANGED <<incidents, catalog, loaded, errors, moves>>

\* A rule cannot be evaluated on one event of the batch.
EvaluationRaises(w) ==
  /\ worker[w].pc = "holding" /\ ProcessingRaises(w)
  /\ AnalysisRaises(Batch(worker[w].row, loaded[w]), loaded[w])
  /\ UNCHANGED Unmoved

\* MUTANT: the inbox row is finalised without the incidents.
FinalizeOnly(w) ==
  /\ Finalize(w)
  /\ UNCHANGED Unmoved

\* The inbox row and all incidents are committed together.
FinalizeClaim(w) ==
  /\ Finalize(w)
  /\ Store!SaveMany(found[w])
  /\ UNCHANGED <<catalog, loaded, found, errors, moves>>

\* An incident exists already and says something else: IncidentStoreError.
SaveRaises(w) ==
  /\ worker[w].pc = "evaluated" /\ Owns(w) /\ ProcessingRaises(w)
  /\ \E incident \in found[w] : ~Store!Fits(incident)
  /\ UNCHANGED Unmoved

\* Any other exception: a locked database, for one.
Interrupted(w) ==
  /\ errors < MaxErrors
  /\ ProcessingRaises(w)
  /\ errors' = errors + 1
  /\ UNCHANGED <<incidents, catalog, loaded, found, moves>>

\* main() loads the catalog that is installed when the worker starts.
StartWorker(w) ==
  /\ Restart(w)
  /\ loaded' = [loaded EXCEPT ![w] = catalog]
  /\ found' = [found EXCEPT ![w] = {}]
  /\ UNCHANGED <<incidents, catalog, errors, moves>>

\* SIGTERM between two batches: run_continuous returns.
StopWorker(w) ==
  /\ worker[w] = AtStart
  /\ worker' = [worker EXCEPT ![w] = Down]
  /\ UNCHANGED <<agents, inbox, upload, incidents, catalog, loaded, found, errors, moves>>

\* An administrator installs the next catalog; workers load it when they start.
InstallCatalog(c) ==
  /\ c.version = catalog.version + 1
  /\ catalog' = c
  /\ UNCHANGED <<vars, incidents, loaded, found, errors, moves>>

\* An operator moves an incident.
Operate(id, new) ==
  /\ moves < MaxMoves
  /\ Store!Transition(id, new, 0)
  /\ moves' = moves + 1
  /\ UNCHANGED <<vars, catalog, loaded, found, errors>>

-----------------------------------------------------------------------------

\* The first catalog is installed.
PInit ==
  /\ Init
  /\ Store!IncidentsInit
  /\ catalog \in {c \in Catalogs : c.version = 1}
  /\ loaded = [w \in Workers |-> catalog]
  /\ found = [w \in Workers |-> {}]
  /\ errors = 0 /\ moves = 0

PWorks(w) ==
  \/ EvaluateClaim(w) \/ EvaluationRaises(w) \/ FinalizeClaim(w) \/ SaveRaises(w)
  \/ Interrupted(w) \/ StartWorker(w) \/ StopWorker(w)
  \/ (ClaimNext(w) \/ EndBatch(w) \/ LoseClaim(w) \/ RecordFailure(w) \/ AbortBatch(w))
     /\ UNCHANGED Unmoved

PCollects == Collects /\ UNCHANGED Unmoved

\* The claim of a worker that is slow, or gone, expires.
PStale == (\E i \in RowIds : GoStale(i)) /\ UNCHANGED Unmoved

PCrash(w) == Crash(w) /\ UNCHANGED Unmoved

PNext ==
  \/ PCollects \/ PStale
  \/ \E w \in Workers : PWorks(w) \/ PCrash(w)
  \/ \E c \in Catalogs : InstallCatalog(c)
  \/ \E id \in DOMAIN incidents, new \in Store!Statuses : Operate(id, new)

PSpec == PInit /\ [][PNext]_pvars

=============================================================================
