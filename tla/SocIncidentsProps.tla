------------------------- MODULE SocIncidentsProps -------------------------
(***************************************************************************)
(* What is claimed of the incident store.                                  *)
(***************************************************************************)
EXTENDS SocIncidents

HistoryEntry == [old : Statuses \cup {"none"}, new : Statuses]

IncidentRow ==
  [content : Contents, created : Times, updated : Times, status : Statuses,
   evidence : EvidenceRows, history : Seq(HistoryEntry)]

\* The rows have the types that are read back from them.
IncidentsTypeOK ==
  /\ Saved \subseteq IncidentIds
  /\ \A id \in Saved : incidents[id] \in IncidentRow

\* The history of an incident tells the whole story of its status: it begins
\* with its opening, every entry takes up where the one before left off, by a
\* permitted transition, and the last one is the status the operators see.
HistoryTellsStatus ==
  \A id \in Saved :
    LET history == incidents[id].history IN
      /\ history # <<>>
      /\ history[1] = [old |-> "none", new |-> "open"]
      /\ history[Len(history)].new = incidents[id].status
      /\ \A k \in 2..Len(history) :
           /\ history[k].old = history[k - 1].new
           /\ history[k].old = "resolved" => history[k].new = "open"
           /\ history[k].old # history[k].new

\* Whatever is saved again: what an incident says and what was found about it
\* is never changed or lost, and nothing of its history is taken back.
NothingIsRewritten ==
  [][\A id \in Saved :
       /\ id \in DOMAIN incidents'
       /\ incidents'[id].content = incidents[id].content
       /\ incidents'[id].created = incidents[id].created
       /\ \A e \in DOMAIN incidents[id].evidence :
            /\ e \in DOMAIN incidents'[id].evidence
            /\ incidents'[id].evidence[e] = incidents[id].evidence[e]
       /\ Len(incidents'[id].history) >= Len(incidents[id].history)
       /\ \A k \in 1..Len(incidents[id].history) :
            incidents'[id].history[k] = incidents[id].history[k]]_incidents

=============================================================================
