------------------------------- MODULE MCSoc -------------------------------
(***************************************************************************)
(* The parts of the SOC, each on its own, in one run.  A behaviour belongs *)
(* to one part, the others stay in their initial states:                   *)
(*   analysis    every batch of events                                     *)
(*   incidents   the incident store                                        *)
(*   collectors  two agents, certificates and events; no worker            *)
(*   claims      two workers on two events of one agent                    *)
(***************************************************************************)
EXTENDS SocInboxProps, SocAnalysisProps, SocIncidentsProps

VARIABLE part    \* it never changes

\* Three events within 3 seconds, no silence of more than 2 seconds.
MCRule == [id |-> "burst", wording |-> "w", type |-> "login", window |-> 3, inactivity |-> 2,
           minimum_count |-> 2, enabled |-> TRUE]

Item(e, p) == [event |-> e, payload |-> p]

TwoEvents == {<<Item("e1", "p1"), Item("e2", "p1")>>}

\* One event, two, the second first, and the first again with other content.
MCBatches ==
  TwoEvents \cup {<<Item("e1", "p1")>>, <<Item("e2", "p1"), Item("e1", "p2")>>}

MCInit ==
  /\ Init /\ AnalysisInit /\ IncidentsInit
  /\ part \in {"analysis", "incidents", "collectors", "claims"}

\* One agent with one certificate, which sends both events together.
OneCollector ==
  /\ \A a, b \in Agents : agents'[a] # NoAgent /\ agents'[b] # NoAgent => a = b
  /\ \A c, d \in Certificates : upload'[c] # NoUpload /\ upload'[d] # NoUpload => c = d
  /\ \A c \in Certificates : upload'[c] = NoUpload \/ upload'[c].batch \in TwoEvents

MCNext ==
  /\ \/ /\ part = "analysis" /\ AnalysisNext
        /\ UNCHANGED <<incidents, vars>>
     \/ /\ part = "incidents" /\ IncidentsNext
        /\ UNCHANGED <<arrivals, vars>>
     \/ /\ part = "collectors" /\ Collects
        /\ UNCHANGED <<arrivals, incidents>>
     \/ /\ part = "claims" /\ Next /\ OneCollector
        /\ UNCHANGED <<arrivals, incidents>>
  /\ UNCHANGED part

MCSpec == MCInit /\ [][MCNext]_<<vars, arrivals, incidents, part>>

Symmetry ==
  Permutations(Workers) \cup Permutations(Agents) \cup Permutations(Certificates)
  \cup Permutations(IncidentIds) \cup Permutations(EvidenceIds) \cup Permutations(Findings)

=============================================================================
