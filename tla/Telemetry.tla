------------------------------ MODULE Telemetry ------------------------------
(***************************************************************************)
(* The telemetry of one client: ingest_telemetry of server/app.py (SQLite) *)
(* and of postgres_telemetry.py, and the events a page lists.  A request   *)
(* carries the processor's load and, unless it has none, a snapshot with   *)
(* the state of a service and the time of the last failed SSH login (0:    *)
(* none).  SQLite reads the last snapshot before its transaction begins;   *)
(* PostgreSQL holds the row of the client from there on.  Other metrics    *)
(* behave like the load, gaps between samples add no events here, and      *)
(* validation is left out: only valid requests are modelled.               *)
(***************************************************************************)
EXTENDS Naturals, Sequences

CONSTANTS
  TelemetryThreads,
  Retention,       \* days that samples and events are kept, in clock ticks
  MaxTicks,        \* bound on the clock
  MaxSamples,      \* bound on requests that are saved
  MaxListed        \* events of a list, and of what it is made of (500)

ASSUME TelemetryAssumption ==
  {Retention, MaxTicks, MaxSamples, MaxListed} \subseteq Nat \ {0}

VARIABLES
  engine,      \* "sqlite" or "postgres"
  token,       \* "valid", or "revoked" with the client
  clock,
  status,      \* client_system_status: the last snapshot and when it was recorded
  samples,     \* client_telemetry, in the order it is read: by recorded_at
  incidents,   \* client_telemetry_events, in the order of insertion
  requests,    \* of every thread
  saves,       \* history: requests that were saved
  recovered    \* history: whether a snapshot without the failure was saved since the
               \* last event of it ("yes", "no"); "repeated" once an event came without

telemetryVars ==
  <<engine, token, clock, status, samples, incidents, requests, saves, recovered>>

\* The requests there may be: load, state of the service ("none": the request is
\* without a snapshot), last failed login.
Report(load, state, ssh) == [load |-> load, state |-> state, ssh |-> ssh]
Reports == {Report("low", "active", 0), Report("high", "failed", 0),
            Report("low", "failed", 1), Report("high", "activating", 1),
            Report("high", "none", 0)}

HasSnapshot(t) == requests[t].report.state # "none"

NoStatus == [state |-> "none", ssh |-> 0, at |-> 0]
NoRequest == [at |-> "idle"]
Answered(t) == requests' = [requests EXCEPT ![t] = NoRequest]

Tick ==
  /\ clock < MaxTicks
  /\ clock' = clock + 1
  /\ UNCHANGED <<engine, token, status, samples, incidents, requests, saves, recovered>>

RevokeToken ==
  /\ token = "valid"
  /\ token' = "revoked"
  /\ UNCHANGED <<engine, clock, status, samples, incidents, requests, saves, recovered>>

\* client_auth_required; the time of the sample is taken here.
Receive(t, report) ==
  /\ requests[t].at = "idle" /\ token = "valid" /\ saves < MaxSamples
  /\ requests' = [requests EXCEPT ![t] =
       [at |-> "received", report |-> report, now |-> clock]]
  /\ UNCHANGED <<engine, token, clock, status, samples, incidents, saves, recovered>>

\* MUTANT: the row of the client is not locked.
LocksNothing == FALSE

\* Requests of a client are one after the other from before the status is read.
LocksClient == engine = "postgres"

\* SQLite: the previous status, read outside of any transaction.
ReadStatus(t) ==
  /\ ~LocksClient /\ requests[t].at = "received" /\ HasSnapshot(t)
  /\ requests' = [requests EXCEPT ![t] =
       [at |-> "read", report |-> @.report, now |-> @.now, previous |-> status]]
  /\ UNCHANGED <<engine, token, clock, status, samples, incidents, saves, recovered>>

\* record_telemetry_system_events
ServiceEvents(previous, report, now) ==
  CASE report.state = "failed" /\ previous.state # "failed" ->
         <<[kind |-> "service_failed", at |-> now]>>
    [] report.state = "active" /\ previous.state = "failed" ->
         <<[kind |-> "service_recovered", at |-> now]>>
    [] OTHER -> <<>>

SshEvents(previous, report) ==
  IF report.ssh > previous.ssh THEN <<[kind |-> "ssh_failure", at |-> report.ssh]>> ELSE <<>>

\* The rows whose places are in S, in their order.
Chosen(rows, S) ==
  LET chosen[n \in 0..Len(rows)] ==
        IF n = 0 THEN <<>>
        ELSE IF n \in S THEN Append(chosen[n - 1], rows[n]) ELSE chosen[n - 1]
  IN chosen[Len(rows)]

Kept(rows, now) == Chosen(rows, {i \in DOMAIN rows : rows[i].at + Retention >= now})

\* MUTANT: samples are read in the order of insertion.
InsertedLast(rows, row) == Append(rows, row)

\* ORDER BY recorded_at
Inserted(rows, row) ==
  Append(Chosen(rows, {i \in DOMAIN rows : rows[i].at <= row.at}), row)
    \o Chosen(rows, {i \in DOMAIN rows : rows[i].at > row.at})

\* The history after a snapshot with this state was saved with these events.
RecoveredAfter(state, events) ==
  IF recovered = "repeated" \/ state = "none" THEN recovered
  ELSE IF state # "failed" THEN "yes"
  ELSE IF events = <<>> THEN recovered
  ELSE IF recovered = "yes" THEN "no" ELSE "repeated"

Store(t, previous) ==
  LET r == requests[t]
      events == ServiceEvents(previous, r.report, r.now)
  IN
    /\ incidents' = Kept(incidents \o events \o SshEvents(previous, r.report), r.now)
    /\ status' = IF HasSnapshot(t)
                 THEN [state |-> r.report.state, ssh |-> r.report.ssh, at |-> r.now]
                 ELSE status
    /\ samples' = Kept(Inserted(samples, [at |-> r.now, load |-> r.report.load]), r.now)
    /\ recovered' = RecoveredAfter(r.report.state, events)
    /\ saves' = saves + 1
    /\ Answered(t)
    /\ UNCHANGED <<engine, token, clock>>

SqliteSave(t) ==
  /\ requests[t].at = "read"
  /\ Store(t, requests[t].previous)

SqliteSaveLoad(t) ==
  /\ ~LocksClient /\ requests[t].at = "received" /\ ~HasSnapshot(t)
  /\ Store(t, NoStatus)

PgSave(t) ==
  /\ LocksClient /\ requests[t].at = "received" /\ token = "valid"
  /\ Store(t, status)

\* The row of the client FOR UPDATE no longer has the token.
PgRefuse(t) ==
  /\ LocksClient /\ requests[t].at = "received" /\ token # "valid"
  /\ Answered(t)
  /\ UNCHANGED <<engine, token, clock, status, samples, incidents, saves, recovered>>

-----------------------------------------------------------------------------

\* telemetry_events_from_rows, for one metric
Crossing(rows, i) ==
  LET before == IF i = 1 THEN "low" ELSE rows[i - 1].load
  IN CASE rows[i].load = "high" /\ before = "low" -> <<[kind |-> "threshold_exceeded", at |-> rows[i].at]>>
       [] rows[i].load = "low" /\ before = "high" -> <<[kind |-> "threshold_recovered", at |-> rows[i].at]>>
       [] OTHER -> <<>>

EventsFromRows(rows) ==
  LET events[n \in 0..Len(rows)] ==
        IF n = 0 THEN <<>> ELSE events[n - 1] \o Crossing(rows, n)
  IN events[Len(rows)]

Within(rows, hours) == Chosen(rows, {i \in DOMAIN rows : rows[i].at + hours >= clock})
Kinds(events) == {events[i].kind : i \in DOMAIN events}

\* Where a row comes in a list that begins with the newest: after all not older.
Place(rows, at) ==
  CHOOSE p \in 0..Len(rows) : \A k \in DOMAIN rows : k <= p <=> rows[k].at >= at

NewestFirst(rows) ==
  LET sorted[n \in 0..Len(rows)] ==
        IF n = 0 THEN <<>>
        ELSE LET p == Place(sorted[n - 1], rows[n].at)
             IN SubSeq(sorted[n - 1], 1, p) \o <<rows[n]>>
                  \o SubSeq(sorted[n - 1], p + 1, Len(sorted[n - 1]))
  IN sorted[Len(rows)]

\* sorted(..., reverse=True)[:500], ORDER BY recorded_at DESC LIMIT 500
Newest(rows) ==
  IF Len(rows) > MaxListed THEN SubSeq(NewestFirst(rows), 1, MaxListed) ELSE NewestFirst(rows)

\* MUTANT: only what was recorded is listed.
StillFailedUnlisted(events, hours) == <<>>

\* client_telemetry_events adds the failed login and the failed service of the last
\* snapshot when no event shows any.
StillFailed(events, hours) ==
  (IF /\ status.ssh > 0 /\ status.ssh + hours >= clock
      /\ "ssh_failure" \notin Kinds(events)
   THEN <<[kind |-> "ssh_failure", at |-> status.ssh]>> ELSE <<>>)
  \o
  (IF /\ status.state = "failed" /\ status.at + hours >= clock
      /\ "service_failed" \notin Kinds(events)
   THEN <<[kind |-> "service_failed", at |-> status.at]>> ELSE <<>>)

Listed(hours) ==
  LET events == Newest(EventsFromRows(Within(samples, hours))) \o Newest(Within(incidents, hours))
  IN Newest(events \o StillFailed(events, hours))

-----------------------------------------------------------------------------

TelemetryInit ==
  /\ engine \in {"sqlite", "postgres"} /\ token = "valid" /\ clock = 0
  /\ status = NoStatus /\ samples = <<>> /\ incidents = <<>>
  /\ requests = [t \in TelemetryThreads |-> NoRequest]
  /\ saves = 0 /\ recovered = "yes"

TelemetryNext ==
  \/ Tick \/ RevokeToken
  \/ \E t \in TelemetryThreads :
       \/ \E report \in Reports : Receive(t, report)
       \/ ReadStatus(t) \/ SqliteSave(t) \/ SqliteSaveLoad(t) \/ PgSave(t) \/ PgRefuse(t)

TelemetrySpec == TelemetryInit /\ [][TelemetryNext]_telemetryVars

-----------------------------------------------------------------------------
(* What is claimed *)

\* With PostgreSQL a failure of the service is recorded once, however its
\* snapshots, retries among them, overlap in the server's threads.
OneEventPerFailure == engine = "postgres" => recovered # "repeated"

\* The list is full of events that are not older than this.
FullSince(list, at) == Len(list) = MaxListed /\ \A k \in DOMAIN list : list[k].at >= at

\* Whatever was kept and in whatever order requests were saved, the list of a
\* page tells what is: the load is over its threshold at the end exactly when
\* the last of the threshold's events says so, these events take turns and come
\* in the order of time; and no event, nor the service that the last snapshot
\* shows failed, is missing but for a list full of events that are not older.
ListTells ==
  \A hours \in 1 .. Retention :
    LET rows == Within(samples, hours)
        events == EventsFromRows(rows)
        known == events \o Within(incidents, hours)
        list == Listed(hours)
        failures == {known[i].at : i \in {i \in DOMAIN known : known[i].kind = "service_failed"}}
    IN /\ rows # <<>> =>
            (rows[Len(rows)].load = "high" <=>
               events # <<>> /\ events[Len(events)].kind = "threshold_exceeded")
       /\ \A k \in 1 .. Len(events) - 1 :
            /\ events[k].at <= events[k + 1].at
            /\ {events[k].kind, events[k + 1].kind} = {"threshold_exceeded", "threshold_recovered"}
       /\ \A i \in DOMAIN known :
            (\E k \in DOMAIN list : list[k] = known[i]) \/ FullSince(list, known[i].at)
       /\ status.state = "failed" /\ status.at + hours >= clock =>
            \/ "service_failed" \in Kinds(list)
            \/ \E at \in failures \cup {status.at} : FullSince(list, at)

=============================================================================
