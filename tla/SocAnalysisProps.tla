------------------------- MODULE SocAnalysisProps -------------------------
(***************************************************************************)
(* What is claimed of the SOC pipeline's algorithms, over every batch of     *)
(* at most MaxBatch events: the batch is built up one event at a time, and    *)
(* each batch reached is analysed.                                         *)
(***************************************************************************)
EXTENDS SocAnalysis, SequencesExt, Integers

CONSTANTS
  AnalysedIds,  \* ids, as numbers: they have an order
  Instants,     \* timestamps, in seconds
  GroupValues,  \* values of the field the rule groups by, and NoGroup
  Bodies,       \* everything else an event says
  Rule,         \* a correlation rule
  MaxBatch      \* BOUND on the events of a batch

ASSUME PlacesAssumption == AnalysedIds \subseteq Int /\ Instants \subseteq Int
ASSUME RuleAssumption ==
  /\ Rule.enabled
  /\ Rule.window \in Nat \ {0} /\ Rule.inactivity \in Nat \ {0} /\ Rule.minimum_count \in Nat

VARIABLE arrivals    \* the batch so far

Events == [id : AnalysedIds, time : Instants, type : {Rule.type},
           group : GroupValues, body : Bodies]

AnalysisInit == arrivals = <<>>

AnalysisNext ==
  /\ Len(arrivals) < MaxBatch
  /\ \E e \in Events : arrivals' = Append(arrivals, e)

AnalysisSpec == AnalysisInit /\ [][AnalysisNext]_arrivals

-----------------------------------------------------------------------------

SameId(i, j)      == arrivals[i].id = arrivals[j].id
SameContent(i, j) == Fingerprint(arrivals[i]) = Fingerprint(arrivals[j])

RepeatsId(k)      == \E j \in 1..(k - 1) : SameId(j, k)
Kept(k)           == ~RepeatsId(k) /\ ~\E j \in 1..(k - 1) : ~RepeatsId(j) /\ SameContent(j, k)

\* The position of the kept event a position's event is dropped in favour of.
Original(k) ==
  LET first == CHOOSE j \in 1..k : SameId(j, k) /\ ~RepeatsId(j)
  IN CHOOSE j \in 1..first : Kept(j) /\ (j = first \/ (~Kept(first) /\ SameContent(j, first)))

\* Deduplication (deduplication.py) keeps exactly the first event of every id
\* and of every content, in order, and explains every other by the event that
\* was kept and by the first of the two reasons that applies.
DuplicatesExplained ==
  LET result  == Deduplicate(arrivals)
      kept    == Ascending({k \in DOMAIN arrivals : Kept(k)})
      dropped == Ascending({k \in DOMAIN arrivals : ~Kept(k)})
  IN /\ result.events = [n \in DOMAIN kept |-> arrivals[kept[n]]]
     /\ result.duplicates =
          [n \in DOMAIN dropped |->
             [original  |-> arrivals[Original(dropped[n])].id,
              duplicate |-> arrivals[dropped[n]].id,
              reason    |-> IF RepeatsId(dropped[n]) THEN "event_id" ELSE "content"]]

\* e is at or before f in a group.
NotAfter(e, f) == e.time < f.time \/ (e.time = f.time /\ e.id <= f.id)

\* The window that ends at an event, said without a loop: the events of its
\* group that are not after it and not more than window_seconds before it, with
\* no silence of more than inactivity_seconds between them and it.
WindowOf(group, last) ==
  {e \in group :
     /\ NotAfter(e, last)
     /\ last.time - e.time <= Rule.window
     /\ \A f \in group :
          NotAfter(e, f) /\ NotAfter(f, last) /\ f # last =>
            \E g \in group : /\ g # f /\ NotAfter(f, g) /\ NotAfter(g, last)
                             /\ g.time - f.time <= Rule.inactivity}

\* The sliding window of the correlation engine (correlation.py) finds, for
\* every event of a group, exactly the window that ends at it, and reports it
\* if it has minimum_count events.
WindowsAreRight ==
  LET events == Deduplicate(arrivals).events
      GroupOf(g) == {e \in ToSet(events) : e.group = g}
      Expected == UNION {{WindowOf(GroupOf(g), last) : last \in GroupOf(g)} : g \in Groups(events)}
  IN {ToSet(match.window) : match \in Correlations(events, {Rule})}
       = {w \in Expected : Cardinality(w) >= Rule.minimum_count}

Catalog == [detection |-> {}, correlation |-> {Rule}]

\* The incidents of a batch without duplicates do not depend on the order of
\* its events (incident_builder.py: "Identity remains independent of input
\* order"), which ties in time would otherwise decide.
IncidentsIndependentOfOrder ==
  Deduplicate(arrivals).duplicates = <<>> =>
    Incidents(arrivals, Catalog) = Incidents(Reverse(arrivals), Catalog)

=============================================================================
