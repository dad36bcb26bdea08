---------------------------- MODULE SocAnalysis ----------------------------
(***************************************************************************)
(* The SOC pipeline as a function (server/soc/pipeline.py): one batch of   *)
(* events is freed from duplicates, every event is tried against the       *)
(* detection rules, events of one group are correlated in time, and the    *)
(* matches become incidents.  Nothing here keeps state between two calls.  *)
(*                                                                         *)
(* An event is [id, time, type, group, body]: group is the value of the    *)
(* field the correlation rules group by (NoGroup if it is absent, null or  *)
(* a container), body stands for its source and its other fields.          *)
(* What a detection rule says of a body is given with the rule:            *)
(* "match", "none" or "error" (a comparison that Python refuses).          *)
(***************************************************************************)
EXTENDS Naturals, Sequences, FiniteSets

CONSTANTS NoGroup   \* the event has no value to group by

\* The members of a finite set one after another, by a strict total order on them.
Ordered(S, Before(_, _)) ==
  [k \in 1..Cardinality(S) |->
     CHOOSE i \in S : Cardinality({j \in S : Before(j, i)}) = k - 1]

\* The numbers of a set in order.
Ascending(S) == Ordered(S, <)

-----------------------------------------------------------------------------
(* EventDeduplicator *)

\* Source, type, timestamp and fields: everything but the id.
Fingerprint(e) == [time |-> e.time, type |-> e.type, group |-> e.group, body |-> e.body]

NothingSeen == [events |-> <<>>, duplicates |-> <<>>, first_by_id |-> <<>>]

Twins(seen, e) == {k \in DOMAIN seen.events : Fingerprint(seen.events[k]) = Fingerprint(e)}

Dropped(seen, e, original, reason) ==
  Append(seen.duplicates, [original |-> original, duplicate |-> e.id, reason |-> reason])

\* first_by_id[e.event_id] = the event that was kept.
Remembered(seen, e, kept) ==
  [id \in (DOMAIN seen.first_by_id) \cup {e.id} |->
     IF id = e.id THEN kept ELSE seen.first_by_id[id]]

\* MUTANT: the id of an event dropped for its content is not remembered.
SeeForgetful(seen, e) ==
  IF e.id \in DOMAIN seen.first_by_id
  THEN [seen EXCEPT !.duplicates = Dropped(seen, e, seen.first_by_id[e.id], "event_id")]
  ELSE IF Twins(seen, e) # {}
  THEN LET twin == seen.events[CHOOSE k \in Twins(seen, e) : TRUE].id
       IN [seen EXCEPT !.duplicates = Dropped(seen, e, twin, "content")]
  ELSE [seen EXCEPT !.events = Append(@, e), !.first_by_id = Remembered(seen, e, e.id)]

\* One round of the loop of deduplicate.
See(seen, e) ==
  IF e.id \in DOMAIN seen.first_by_id
  THEN [seen EXCEPT !.duplicates = Dropped(seen, e, seen.first_by_id[e.id], "event_id")]
  ELSE IF Twins(seen, e) # {}
  THEN LET twin == seen.events[CHOOSE k \in Twins(seen, e) : TRUE].id
       IN [seen EXCEPT !.duplicates = Dropped(seen, e, twin, "content"),
                       !.first_by_id = Remembered(seen, e, twin)]
  ELSE [seen EXCEPT !.events = Append(@, e), !.first_by_id = Remembered(seen, e, e.id)]

Deduplicate(batch) ==
  LET seen[n \in 0..Len(batch)] == IF n = 0 THEN NothingSeen ELSE See(seen[n - 1], batch[n])
  IN seen[Len(batch)]

-----------------------------------------------------------------------------
(* DetectionEngine *)

Applies(rule, e) == rule.enabled /\ rule.type = e.type

\* One comparison that cannot be made raises DetectionError for the whole batch.
DetectionRaises(events, rules) ==
  \E k \in DOMAIN events, rule \in rules :
    Applies(rule, events[k]) /\ rule.verdict[events[k].body] = "error"

Detections(events, rules) ==
  UNION {{[rule |-> rule.id, wording |-> rule.wording, event |-> events[k].id,
           time |-> events[k].time] :
            k \in {i \in DOMAIN events :
                     Applies(rule, events[i]) /\ rule.verdict[events[i].body] = "match"}} :
         rule \in rules}

-----------------------------------------------------------------------------
(* CorrelationEngine *)

\* MUTANT: events of the same time stay in the order of the batch.
GroupedByTimeOnly(events, rule, group) ==
  LET Before(i, j) == events[i].time < events[j].time \/ (events[i].time = events[j].time /\ i < j)
      order == Ordered({k \in DOMAIN events : events[k].type = rule.type /\ events[k].group = group},
                       Before)
  IN [k \in DOMAIN order |-> events[order[k]]]

\* e comes before f in a group: by time, then by id (ids are numbers here).
Earlier(e, f) == e.time < f.time \/ (e.time = f.time /\ e.id < f.id)

\* The events of one group in order; the sort is stable.
Grouped(events, rule, group) ==
  LET Before(i, j) ==
        Earlier(events[i], events[j]) \/ (~Earlier(events[j], events[i]) /\ i < j)
      order == Ordered({k \in DOMAIN events : events[k].type = rule.type /\ events[k].group = group},
                       Before)
  IN [k \in DOMAIN order |-> events[order[k]]]

\* MUTANT: a gap that just fits the inactivity limit already ends the group.
LeftEdgesEager(grouped, rule) ==
  LET left[right \in DOMAIN grouped] ==
        LET gap  == grouped[right].time - grouped[right - 1].time
            from == IF right = 1 THEN 1
                    ELSE IF gap >= rule.inactivity THEN right ELSE left[right - 1]
        IN CHOOSE l \in from..right :
             /\ grouped[right].time - grouped[l].time <= rule.window
             /\ \A m \in from..(l - 1) : grouped[right].time - grouped[m].time > rule.window
  IN left

\* Where the window that ends at each event begins: left is set to the event
\* after a gap of more than inactivity_seconds, then moved on until the window
\* fits window_seconds.
LeftEdges(grouped, rule) ==
  LET left[right \in DOMAIN grouped] ==
        LET gap  == grouped[right].time - grouped[right - 1].time
            from == IF right = 1 THEN 1
                    ELSE IF gap > rule.inactivity THEN right ELSE left[right - 1]
        IN CHOOSE l \in from..right :
             /\ grouped[right].time - grouped[l].time <= rule.window
             /\ \A m \in from..(l - 1) : grouped[right].time - grouped[m].time > rule.window
  IN left

Windows(grouped, rule) ==
  LET left == LeftEdges(grouped, rule)
  IN {SubSeq(grouped, left[right], right) :
        right \in {r \in DOMAIN grouped : r - left[r] + 1 >= rule.minimum_count}}

Groups(events) == {events[k].group : k \in DOMAIN events} \ {NoGroup}

Correlations(events, rules) ==
  UNION {{[rule |-> rule.id, wording |-> rule.wording, window |-> w] :
            w \in UNION {Windows(Grouped(events, rule, g), rule) : g \in Groups(events)}} :
         rule \in {r \in rules : r.enabled}}

-----------------------------------------------------------------------------
(* IncidentBuilder.  The id is a digest of what is listed in it; what else   *)
(* an incident says is fixed by its rule's wording, the ids and the times.   *)

DetectionIncident(match) ==
  [id       |-> [kind |-> "detection", rule |-> match.rule, events |-> {match.event}],
   wording  |-> match.wording,
   created  |-> match.time,
   evidence |-> {[kind |-> "detection", ref |-> match.rule],
                 [kind |-> "event", ref |-> match.event]}]

CorrelationIncident(match) ==
  LET ids == {match.window[k].id : k \in DOMAIN match.window}
  IN [id       |-> [kind |-> "correlation", rule |-> match.rule, events |-> ids],
      wording  |-> match.wording,
      created  |-> match.window[Len(match.window)].time,
      evidence |-> {[kind |-> "correlation", ref |-> match.rule]}
                     \cup {[kind |-> "event", ref |-> e] : e \in ids}]

\* SOCPipeline.process_batch followed by IncidentBuilder.build.
Incidents(batch, catalog) ==
  LET events == Deduplicate(batch).events
  IN {DetectionIncident(m) : m \in Detections(events, catalog.detection)}
       \cup {CorrelationIncident(m) : m \in Correlations(events, catalog.correlation)}

AnalysisRaises(batch, catalog) ==
  DetectionRaises(Deduplicate(batch).events, catalog.detection)

=============================================================================
