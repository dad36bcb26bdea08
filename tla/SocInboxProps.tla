--------------------------- MODULE SocInboxProps ---------------------------
(***************************************************************************)
(* What is claimed of the inbox and its claims.                            *)
(***************************************************************************)
EXTENDS SocInbox

RowStatuses == {"pending", "processing", "processed", "failed"}

InboxRow ==
  [agent : Agents, event : EventIds, payload : Payloads, status : RowStatuses,
   attempts : 0..MaxAttempts, token : 0..MaxAttempts, stale : BOOLEAN]

WorkerState ==
  [pc : {"down", "claiming", "holding", "evaluated", "failing"},
   row : Nat, token : 0..MaxAttempts, taken : 0..BatchSize, last : Nat]

\* The tables and the workers' memories have the types the code assumes.
TypeOK ==
  /\ agents \in [Agents -> [certificate : Certificates \cup {None},
                            status : {"unregistered", "active", "revoked"}]]
  /\ inbox \in Seq(InboxRow)
  /\ upload \in [Certificates -> [agent : Agents \cup {None}, batch : Batches \cup {<<>>}]]
  /\ worker \in [Workers -> WorkerState]

Busy(w) == worker[w].pc \in {"holding", "evaluated", "failing"}

Current(w) == Busy(w) /\ Owns(w)

\* A worker that holds a claim which is not stale is the only one to touch its
\* row: whatever the other workers, late ones included, do to the inbox.
FreshClaimIsSafe ==
  [][\A w \in Workers :
       Current(w) /\ ~inbox[worker[w].row].stale /\ worker'[w] = worker[w] =>
         [inbox'[worker[w].row] EXCEPT !.stale = FALSE] = inbox[worker[w].row]]_vars

\* When a batch is answered with 202 (collector_api.py) every event of it is in
\* the inbox once, with the very content that was sent, however often and in
\* whatever batches it was sent.  And no event is taken in of an agent that is
\* revoked by then, though its request was let in before.
AcceptedIsStored ==
  [][/\ \A c \in Certificates :
          LET request == upload[c] IN
            request # NoUpload /\ upload'[c] = NoUpload /\ Accepted(request.agent, request.batch) =>
              \A k \in DOMAIN request.batch :
                {inbox'[i].payload : i \in {j \in DOMAIN inbox' :
                    inbox'[j].agent = request.agent /\ inbox'[j].event = request.batch[k].event}}
                  = {request.batch[k].payload}
     /\ \A i, j \in DOMAIN inbox' :
          inbox'[i].agent = inbox'[j].agent /\ inbox'[i].event = inbox'[j].event => i = j
     /\ \A i \in DOMAIN inbox' : i \notin RowIds => agents[inbox'[i].agent].status = "active"]_vars

Keys == Agents \X EventIds

RowsOf(k) == {i \in RowIds : inbox[i].agent = k[1] /\ inbox[i].event = k[2]}

RowOf(k) == inbox[CHOOSE i \in RowIds : i \in RowsOf(k)]

Phase(k) ==
  IF RowsOf(k) = {} THEN "unknown"
  ELSE CASE RowOf(k).status = "processed" -> "processed"
         [] RowOf(k).status = "failed"    -> "given up"
         [] OTHER                         -> "queued"

Lifecycle == INSTANCE SocEventLifecycle
  WITH MaxTries <- MaxAttempts,
       phase    <- [k \in Keys |-> Phase(k)],
       tries    <- [k \in Keys |-> IF RowsOf(k) = {} THEN 0 ELSE RowOf(k).attempts]

\* To its collector the inbox is SocEventLifecycle: an event is queued once,
\* tried at most MaxAttempts times, processed once or given up after the last.
ImplementsEventLifecycle == Lifecycle!Spec

\* Every event that was taken in is processed or given up in the end, even if
\* workers crash without end.
EventsSettle ==
  \A k \in Keys :
    (RowsOf(k) # {}) ~> (RowsOf(k) # {} /\ RowOf(k).status \in {"processed", "failed"})

=============================================================================
