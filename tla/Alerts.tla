------------------------------- MODULE Alerts -------------------------------
(***************************************************************************)
(* Alert rules and alerts: AlertManager (server/alerts.py) with its        *)
(* handlers (alerts_routes.py) on SQLite, and postgres_alerts.py.          *)
(*                                                                         *)
(* A SQLite request makes a manager of its own, which loads all rules and  *)
(* all unresolved alerts; the handler decides by what was loaded and       *)
(* writes in one transaction.  A PostgreSQL handler is one transaction,    *)
(* which sees what is committed when it reads: an edit of a rule and a new *)
(* alert read the rule and write later, and the row stays locked between.  *)
(* Notifications are left out: no provider is ever registered.             *)
(***************************************************************************)
EXTENDS Naturals, Sequences, SequencesExt

CONSTANTS
  RuleIds, AlertIds,
  AlertThreads,       \* requests under way
  MaxAlertHistory     \* bound on the history of an alert

ASSUME AlertsAssumption == MaxAlertHistory \in Nat

VARIABLES
  database,    \* "sqlite" or "postgres"
  rules,       \* alert_rules
  alerts,      \* alerts, each with its rows of alert_history
  manager,     \* SQLite: what the manager of a request has loaded
  reading      \* PostgreSQL: the rule a transaction has read, and its lock

alertVars == <<database, rules, alerts, manager, reading>>

Severities == {"warning", "critical"}
Active     == {"triggered", "acknowledged", "escalated"}

NoRule    == [severity |-> "none", enabled |-> FALSE]
NoAlert   == [status |-> "none"]
Closed    == [open |-> FALSE]
NoReading == [lock |-> "none"]

Known    == {r \in RuleIds : rules[r] # NoRule}
IsActive(a) == alerts[a].status \in Active

\* _validate_alert_rule_payload: the fields that are sent, over the rule's own.
Edited(rule, field, value) == [rule EXCEPT ![field] = value]

Edits == ({"enabled"} \X BOOLEAN) \cup ({"severity"} \X Severities)

NewAlert(r, rule) ==
  [rule |-> r, severity |-> rule.severity, status |-> "triggered", escalations |-> 0,
   history |-> <<>>]

\* The update of an alert together with its row of alert_history.
Moved(alert, status) ==
  [alert EXCEPT !.status = status, !.history = Append(@, status),
                !.escalations = IF status = "escalated" THEN @ + 1 ELSE @]

MayMove(a, from) ==
  alerts[a].status \in from /\ Len(alerts[a].history) < MaxAlertHistory

\* Rules that alerts refer to cannot be deleted: a foreign key.
Referenced(r) == \E a \in AlertIds : alerts[a].status # "none" /\ alerts[a].rule = r

-----------------------------------------------------------------------------
(* SQLite *)

\* _load_state, for the request of a thread.
OpenManager(t) ==
  /\ database = "sqlite"
  /\ manager[t] = Closed
  /\ manager' = [manager EXCEPT ![t] =
       [open |-> TRUE, rules |-> rules, active |-> {a \in AlertIds : IsActive(a)}]]
  /\ UNCHANGED <<database, reading, rules, alerts>>

CloseManager(t) == manager' = [manager EXCEPT ![t] = Closed]

\* The rule as the manager has loaded it.
Loaded(t, r) == IF manager[t].open THEN manager[t].rules[r] ELSE NoRule

Holds(t, a) == manager[t].open /\ a \in manager[t].active

SqliteCreateRule(t, r, severity) ==
  /\ manager[t].open /\ rules[r] = NoRule
  /\ rules' = [rules EXCEPT ![r] = [severity |-> severity, enabled |-> TRUE]]
  /\ CloseManager(t)
  /\ UNCHANGED <<database, reading, alerts>>

\* All fields are written, as they were loaded or as they were sent.
SqliteUpdateRule(t, r, edit) ==
  /\ Loaded(t, r) # NoRule /\ rules[r] # NoRule
  /\ rules' = [rules EXCEPT ![r] = Edited(Loaded(t, r), edit[1], edit[2])]
  /\ CloseManager(t)
  /\ UNCHANGED <<database, reading, alerts>>

SqliteDeleteRule(t, r) ==
  /\ Loaded(t, r) # NoRule /\ rules[r] # NoRule /\ ~Referenced(r)
  /\ rules' = [rules EXCEPT ![r] = NoRule]
  /\ CloseManager(t)
  /\ UNCHANGED <<database, reading, alerts>>

\* By the rule as it was loaded; the foreign key wants it still to be there.
SqliteTrigger(t, a, r) ==
  /\ Loaded(t, r).enabled /\ rules[r] # NoRule
  /\ alerts[a] = NoAlert
  /\ alerts' = [alerts EXCEPT ![a] = NewAlert(r, Loaded(t, r))]
  /\ CloseManager(t)
  /\ UNCHANGED <<database, reading, rules>>

SqliteAcknowledge(t, a) ==
  /\ Holds(t, a) /\ MayMove(a, {"triggered", "escalated"})
  /\ alerts' = [alerts EXCEPT ![a] = Moved(@, "acknowledged")]
  /\ CloseManager(t)
  /\ UNCHANGED <<database, reading, rules>>

\* MUTANT: the update does not look at the status.
SqliteResolveAgain(t, a) ==
  /\ Holds(t, a) /\ MayMove(a, Active \cup {"resolved"})
  /\ alerts' = [alerts EXCEPT ![a] = Moved(@, "resolved")]
  /\ CloseManager(t)
  /\ UNCHANGED <<database, reading, rules>>

SqliteResolve(t, a) ==
  /\ Holds(t, a) /\ MayMove(a, Active)
  /\ alerts' = [alerts EXCEPT ![a] = Moved(@, "resolved")]
  /\ CloseManager(t)
  /\ UNCHANGED <<database, reading, rules>>

\* The counter is read under BEGIN IMMEDIATE, not from the manager.
SqliteEscalate(t, a) ==
  /\ Holds(t, a) /\ MayMove(a, Active)
  /\ alerts' = [alerts EXCEPT ![a] = Moved(@, "escalated")]
  /\ CloseManager(t)
  /\ UNCHANGED <<database, reading, rules>>

\* Not found, invalid, in conflict, or an error of the database: rolled back.
SqliteRefuse(t) ==
  /\ manager[t].open
  /\ CloseManager(t)
  /\ UNCHANGED <<database, reading, rules, alerts>>

-----------------------------------------------------------------------------
(* PostgreSQL *)

PgCreateRule(r, severity) ==
  /\ database = "postgres" /\ rules[r] = NoRule
  /\ rules' = [rules EXCEPT ![r] = [severity |-> severity, enabled |-> TRUE]]
  /\ UNCHANGED <<database, alerts, manager, reading>>

\* MUTANT: the rule is read without a lock.
NeverInTheWay(r, lock) == FALSE

\* FOR UPDATE, which UPDATE and DELETE take as well, waits for every other lock,
\* FOR SHARE only for that one.
InTheWay(r, lock) ==
  \E t \in AlertThreads :
    /\ reading[t] # NoReading /\ reading[t].rule = r
    /\ "update" \in {lock, reading[t].lock}

\* update_rule reads the rule FOR UPDATE, trigger_alert FOR SHARE; a rule that is
\* not enabled triggers nothing.
PgReadRule(t, r, lock) ==
  /\ database = "postgres" /\ reading[t] = NoReading
  /\ rules[r] # NoRule /\ ~InTheWay(r, lock)
  /\ lock = "share" => rules[r].enabled
  /\ reading' = [reading EXCEPT ![t] = [lock |-> lock, rule |-> r, row |-> rules[r]]]
  /\ UNCHANGED <<database, rules, alerts, manager>>

EndReading(t) == reading' = [reading EXCEPT ![t] = NoReading]

\* All fields are written, as they were read or as they were sent.
PgUpdateRule(t, edit) ==
  /\ reading[t].lock = "update"
  /\ rules[reading[t].rule] # NoRule
  /\ rules' = [rules EXCEPT ![reading[t].rule] = Edited(reading[t].row, edit[1], edit[2])]
  /\ EndReading(t)
  /\ UNCHANGED <<database, alerts, manager>>

\* The foreign key wants the rule to be there.
PgTrigger(t, a) ==
  /\ reading[t].lock = "share"
  /\ rules[reading[t].rule] # NoRule /\ alerts[a] = NoAlert
  /\ alerts' = [alerts EXCEPT ![a] = NewAlert(reading[t].rule, reading[t].row)]
  /\ EndReading(t)
  /\ UNCHANGED <<database, rules, manager>>

\* An invalid request or an error of the database.
PgRollBack(t) ==
  /\ reading[t] # NoReading
  /\ EndReading(t)
  /\ UNCHANGED <<database, rules, alerts, manager>>

PgDeleteRule(r) ==
  /\ database = "postgres" /\ rules[r] # NoRule
  /\ ~InTheWay(r, "update") /\ ~Referenced(r)
  /\ rules' = [rules EXCEPT ![r] = NoRule]
  /\ UNCHANGED <<database, alerts, manager, reading>>

PgAcknowledge(a) ==
  /\ database = "postgres" /\ MayMove(a, {"triggered", "escalated"})
  /\ alerts' = [alerts EXCEPT ![a] = Moved(@, "acknowledged")]
  /\ UNCHANGED <<database, rules, manager, reading>>

PgResolveAlert(a) ==
  /\ database = "postgres" /\ MayMove(a, Active)
  /\ alerts' = [alerts EXCEPT ![a] = Moved(@, "resolved")]
  /\ UNCHANGED <<database, rules, manager, reading>>

PgEscalate(a) ==
  /\ database = "postgres" /\ MayMove(a, Active)
  /\ alerts' = [alerts EXCEPT ![a] = Moved(@, "escalated")]
  /\ UNCHANGED <<database, rules, manager, reading>>

-----------------------------------------------------------------------------

AlertsInit ==
  /\ database \in {"sqlite", "postgres"}
  /\ rules = [r \in RuleIds |-> NoRule]
  /\ alerts = [a \in AlertIds |-> NoAlert]
  /\ manager = [t \in AlertThreads |-> Closed]
  /\ reading = [t \in AlertThreads |-> NoReading]

AlertsNext ==
  \/ \E t \in AlertThreads :
       \/ OpenManager(t) \/ SqliteRefuse(t)
       \/ \E r \in RuleIds :
            \/ \E s \in Severities : SqliteCreateRule(t, r, s)
            \/ \E edit \in Edits : SqliteUpdateRule(t, r, edit)
            \/ SqliteDeleteRule(t, r)
            \/ \E a \in AlertIds : SqliteTrigger(t, a, r)
       \/ \E a \in AlertIds :
            SqliteAcknowledge(t, a) \/ SqliteResolve(t, a) \/ SqliteEscalate(t, a)
  \/ \E r \in RuleIds :
       \/ \E s \in Severities : PgCreateRule(r, s)
       \/ PgDeleteRule(r)
       \/ \E t \in AlertThreads, lock \in {"update", "share"} : PgReadRule(t, r, lock)
  \/ \E t \in AlertThreads :
       \/ \E edit \in Edits : PgUpdateRule(t, edit)
       \/ \E a \in AlertIds : PgTrigger(t, a)
       \/ PgRollBack(t)
  \/ \E a \in AlertIds : PgAcknowledge(a) \/ PgResolveAlert(a) \/ PgEscalate(a)

AlertsSpec == AlertsInit /\ [][AlertsNext]_alertVars

-----------------------------------------------------------------------------
(* What is claimed *)

\* The history of an alert tells how it came to be as it is, whatever requests
\* with managers loaded before each other's writes do to it: its status is the
\* last one recorded, it was escalated as often as it says, acknowledged only
\* when that was due, nothing follows its resolution, and its rule is there.
AlertHistoryTells ==
  \A a \in AlertIds : alerts[a] # NoAlert =>
    LET h == alerts[a].history IN
      /\ alerts[a].rule \in Known
      /\ alerts[a].status = IF h = <<>> THEN "triggered" ELSE Last(h)
      /\ alerts[a].escalations = Cardinality({k \in 1..Len(h) : h[k] = "escalated"})
      /\ \A k \in 1..(Len(h) - 1) : h[k] # "resolved"
      /\ \A k \in 1..(Len(h) - 1) : ~(h[k] = "acknowledged" /\ h[k + 1] = "acknowledged")

\* With PostgreSQL requests decide by the rule there is when they write, though
\* they read it before: no edit undoes another's of a field that it was not sent,
\* and an alert is raised under a rule that is enabled then, with its severity.
RulesAreCurrent ==
  [][database = "postgres" =>
       /\ \A r \in RuleIds : NoRule \notin {rules[r], rules'[r]} =>
            rules'[r].severity = rules[r].severity \/ rules'[r].enabled = rules[r].enabled
       /\ \A a \in AlertIds : alerts[a] = NoAlert /\ alerts'[a] # NoAlert =>
            LET rule == rules[alerts'[a].rule]
            IN rule.enabled /\ alerts'[a].severity = rule.severity]_alertVars

=============================================================================
