---------------------------- MODULE SocIncidents ----------------------------
(***************************************************************************)
(* The incident store (server/soc/incident_store.py) and the transitions   *)
(* of the domain model (server/soc/incidents.py).  Every operation is one  *)
(* transaction: BEGIN IMMEDIATE ... COMMIT, or rolled back whole.          *)
(*                                                                         *)
(* The status of an incident is moved by an operator; saving, which the    *)
(* SOC worker does again and again with the same incidents, must leave it  *)
(* alone.  The history keeps what an incident went through.                *)
(***************************************************************************)
EXTENDS Naturals, Sequences

CONSTANTS
  IncidentIds,   \* ids of incidents
  Contents,      \* title, summary and severity, taken together
  EvidenceIds,   \* ids of pieces of evidence
  Findings,      \* kind, reference, description and time of a piece of evidence
  Times,         \* timestamps
  MaxHistory     \* BOUND on the entries of one incident's history

ASSUME TimesAssumption == Times \subseteq Nat
ASSUME MaxHistoryAssumption == MaxHistory \in Nat

VARIABLE incidents  \* tables soc_incidents, soc_incident_evidence, soc_incident_history

-----------------------------------------------------------------------------

Statuses == {"open", "investigating", "resolved"}

EvidenceRows == UNION {[S -> Findings] : S \in SUBSET EvidenceIds}

\* An incident to be saved; Incident.create makes it open.
NewIncidents ==
  [id : IncidentIds, content : Contents, created : Times, evidence : EvidenceRows]

Saved == DOMAIN incidents

StoredRow(incident) ==
  [content |-> incident.content, created |-> incident.created, updated |-> incident.created,
   status |-> "open", evidence |-> incident.evidence,
   history |-> <<[old |-> "none", new |-> "open"]>>]

Agrees(known, evidence) ==
  \A e \in (DOMAIN known) \cap (DOMAIN evidence) : known[e] = evidence[e]

\* What known has, and what is new in evidence.
Joined(known, evidence) ==
  [e \in (DOMAIN known) \cup (DOMAIN evidence) |->
     IF e \in DOMAIN known THEN known[e] ELSE evidence[e]]

\* _validate_incident_identity and _insert_evidence raise nothing.
Fits(incident) ==
  incident.id \in Saved =>
    LET row == incidents[incident.id]
    IN /\ row.content = incident.content /\ row.created = incident.created
       /\ Agrees(row.evidence, incident.evidence)

\* MUTANT: a replay writes the incident anew.
MergedAnew(incident) == StoredRow(incident)

\* The row of a saved incident: an existing one keeps everything it has.
Merged(incident) ==
  IF incident.id \in Saved
  THEN [incidents[incident.id] EXCEPT !.evidence = Joined(@, incident.evidence)]
  ELSE StoredRow(incident)

\* save, and save_many of incidents with different ids: all of them, or none.
SaveMany(batch) ==
  /\ \A incident \in batch : Fits(incident)
  /\ incidents' = [id \in Saved \cup {incident.id : incident \in batch} |->
       IF \E incident \in batch : incident.id = id
       THEN Merged(CHOOSE incident \in batch : incident.id = id)
       ELSE incidents[id]]

\* append_evidence_in_transaction: updated_at moves only with new evidence,
\* and never back.
AppendEvidence(id, evidence, at) ==
  /\ id \in Saved
  /\ Agrees(incidents[id].evidence, evidence)
  /\ LET row == incidents[id]
         nothingNew == DOMAIN evidence \subseteq DOMAIN row.evidence
     IN incidents' = [incidents EXCEPT ![id] =
          [row EXCEPT !.evidence = Joined(row.evidence, evidence),
                      !.updated = IF nothingNew \/ at < row.updated THEN row.updated ELSE at]]

\* MUTANT: a resolved incident can be taken up again directly.
AllowedAnywhere(old) == Statuses \ {old}

\* Incident.transition
Allowed(old) ==
  CASE old = "open"          -> {"investigating", "resolved"}
    [] old = "investigating" -> {"open", "resolved"}
    [] OTHER                 -> {"open"}

\* IncidentStore.transition; to the same status it changes nothing.
Transition(id, new, at) ==
  /\ id \in Saved
  /\ new \in Allowed(incidents[id].status)
  /\ LET row == incidents[id]
     IN incidents' = [incidents EXCEPT ![id] =
          [row EXCEPT !.status = new, !.updated = at,
                      !.history = Append(row.history, [old |-> row.status, new |-> new])]]

-----------------------------------------------------------------------------

IncidentsInit == incidents = <<>>

IncidentsNext ==
  \/ \E incident \in NewIncidents : SaveMany({incident})
  \/ \E i, j \in NewIncidents : i.id # j.id /\ SaveMany({i, j})
  \/ \E id \in IncidentIds, evidence \in EvidenceRows, at \in Times :
       AppendEvidence(id, evidence, at)
  \/ \E id \in IncidentIds, new \in Statuses, at \in Times :
       /\ id \in Saved /\ Len(incidents[id].history) < MaxHistory
       /\ Transition(id, new, at)

IncidentsSpec == IncidentsInit /\ [][IncidentsNext]_incidents

=============================================================================
