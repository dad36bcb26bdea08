------------------------------- MODULE Logins -------------------------------
(***************************************************************************)
(* Interactive logins and their rate limit: login of server/app.py with    *)
(* the functions of security.py (SQLite), and authenticate_user of         *)
(* postgres_login.py (PostgreSQL).  An attempt is carried by a thread,     *)
(* which stands for its browser as well:                                   *)
(*   CheckLimit      the lock is looked up                                 *)
(*   VerifyPassword  the account is looked up, the password is verified    *)
(*   LookAgain, RefuseLocked   PostgreSQL: the transaction of the verdict  *)
(*                   begins, the lock is looked up again                   *)
(*   CountFailure, Succeed     the verdict is written and committed        *)
(* PostgreSQL reads committed rows, and a look locks nothing: another      *)
(* attempt may set the lock between the last look and the verdict.  Only   *)
(* the row of an account that is admitted is held in between.              *)
(* Languages and audit rows are left out, the source address is part of    *)
(* the key.  Time only lets locks expire.                                  *)
(***************************************************************************)
EXTENDS Naturals, FiniteSets

CONSTANTS
  LoginKeys,       \* an account name at a source address
  LoginThreads,
  MaxFailures,     \* bound: attempts begin below it
  MaxAccountIds    \* bound on accounts created under one name

ASSUME LoginsAssumption == MaxFailures \in Nat /\ MaxAccountIds \in Nat

VARIABLES
  backend,     \* "sqlite" or "postgres"
  users,       \* the account of a name: id, password hash, whether it is there
  limits,      \* login_rate_limits: failures in a row, whether locked_until is to come
  logins,      \* the attempt of every thread
  sessions,    \* the account id in a browser's session, 0 if none
  racing       \* history: of an active lock, the attempts whose last look was before it

loginVars == <<backend, users, limits, logins, sessions, racing>>

NoAttempt == [at |-> "idle"]
NoLimit   == [failed |-> 0, active |-> FALSE]

AsOf(t) == logins[t].key
PastLastLook(t) ==
  \/ logins[t].at \in {"counting", "admitting"}
  \/ backend = "sqlite" /\ logins[t].at = "checked"

EndsAttempt(t) == logins' = [logins EXCEPT ![t] = NoAttempt]

\* The row of an account that is admitted is locked until the session begins.
RowLocked(k, id) ==
  /\ backend = "postgres"
  /\ \E t \in LoginThreads : logins[t].at = "admitting" /\ AsOf(t) = k /\ logins[t].id = id

\* An account is created, with an id of its own, or deleted.  A hash is "dated"
\* when the parameters of Argon2 have changed since.
CreateAccount(k) ==
  /\ ~users[k].enabled /\ users[k].id < MaxAccountIds
  /\ users' = [users EXCEPT ![k] = [id |-> @.id + 1, hash |-> "dated", enabled |-> TRUE]]
  /\ UNCHANGED <<backend, limits, logins, sessions, racing>>

DeleteAccount(k) ==
  /\ users[k].enabled /\ ~RowLocked(k, users[k].id)
  /\ users' = [users EXCEPT ![k].enabled = FALSE]
  /\ UNCHANGED <<backend, limits, logins, sessions, racing>>

-----------------------------------------------------------------------------

\* Under an active lock the attempt is audited and refused.
CheckLimit(t, k, right) ==
  /\ logins[t].at = "idle" /\ sessions[t] = 0
  /\ limits[k].failed < MaxFailures
  /\ ~limits[k].active
  /\ logins' = [logins EXCEPT ![t] = [at |-> "checked", key |-> k, right |-> right]]
  /\ UNCHANGED <<backend, users, limits, sessions, racing>>

\* With SQLite the password is the verdict, with PostgreSQL another look is to come.
Verified(right) ==
  IF backend = "sqlite" THEN IF right THEN "admitting" ELSE "counting"
  ELSE IF right THEN "verified" ELSE "refused"

\* find_user and verify_password
VerifyPassword(t) ==
  /\ logins[t].at = "checked"
  /\ LET user == users[AsOf(t)] IN
       logins' = [logins EXCEPT ![t] =
         [at   |-> Verified(user.enabled /\ logins[t].right),
          key  |-> AsOf(t), id |-> user.id, hash |-> user.hash]]
  /\ UNCHANGED <<backend, users, limits, sessions, racing>>

\* MUTANT: PostgreSQL does not look again.
NotLookedAgain(t) == TRUE

\* is_login_rate_limited, the second time; a verified account's row is taken FOR
\* UPDATE before.
StillFree(t) == ~limits[AsOf(t)].active

InTransaction(t) ==
  \/ logins[t].at = "refused"
  \/ logins[t].at = "verified" /\ ~RowLocked(AsOf(t), logins[t].id)

\* MUTANT: the account is found again by its name.
RevalidatedByName(t) == users[AsOf(t)].enabled

\* The row FOR UPDATE is the account that was verified, enabled and with its hash.
Revalidated(t) ==
  LET user == users[AsOf(t)]
  IN user.enabled /\ user.id = logins[t].id /\ user.hash = logins[t].hash

\* An account that has changed counts as a failure.
LookAgain(t) ==
  /\ InTransaction(t)
  /\ StillFree(t)
  /\ logins' = [logins EXCEPT ![t].at =
       IF @ = "verified" /\ Revalidated(t) THEN "admitting" ELSE "counting"]
  /\ UNCHANGED <<backend, users, limits, sessions, racing>>

RefuseLocked(t) ==
  /\ InTransaction(t)
  /\ ~StillFree(t)
  /\ EndsAttempt(t)
  /\ UNCHANGED <<backend, users, limits, sessions, racing>>

\* LOGIN_RATE_LIMIT_LOCK_STEPS
Locks(failed) == failed >= 5

\* record_login_failure: the row is locked from the first of its statements on.
Counted(limit) == [failed |-> limit.failed + 1, active |-> Locks(limit.failed + 1)]

\* When a failure sets the lock, the other attempts that have looked race with it.
RacingAfter(t, k) ==
  IF ~Counted(limits[k]).active THEN {}
  ELSE {u \in LoginThreads \ {t} :
          IF limits[k].active THEN u \in racing[k] ELSE PastLastLook(u) /\ AsOf(u) = k}

CountFailure(t) ==
  /\ logins[t].at = "counting"
  /\ limits' = [limits EXCEPT ![AsOf(t)] = Counted(@)]
  /\ racing' = [racing EXCEPT ![AsOf(t)] = RacingAfter(t, AsOf(t))]
  /\ EndsAttempt(t)
  /\ UNCHANGED <<backend, users, sessions>>

\* The limit is cleared, a dated hash replaced, and the session begins.
Succeed(t) ==
  /\ logins[t].at = "admitting"
  /\ limits' = [limits EXCEPT ![AsOf(t)] = NoLimit]
  /\ racing' = [racing EXCEPT ![AsOf(t)] = {}]
  /\ users' = [users EXCEPT ![AsOf(t)] =
       IF @.id = logins[t].id THEN [@ EXCEPT !.hash = "current"] ELSE @]
  /\ sessions' = [sessions EXCEPT ![t] = logins[t].id]
  /\ EndsAttempt(t)
  /\ UNCHANGED backend

LockExpires(k) ==
  /\ limits[k].active
  /\ limits' = [limits EXCEPT ![k].active = FALSE]
  /\ racing' = [racing EXCEPT ![k] = {}]
  /\ UNCHANGED <<backend, users, logins, sessions>>

\* login_required looks the account of a session up on every request.
ServeSession(t) ==
  /\ sessions[t] # 0
  /\ \A k \in LoginKeys : ~(users[k].enabled /\ users[k].id = sessions[t])
  /\ sessions' = [sessions EXCEPT ![t] = 0]
  /\ UNCHANGED <<backend, users, limits, logins, racing>>

Logout(t) ==
  /\ sessions[t] # 0
  /\ sessions' = [sessions EXCEPT ![t] = 0]
  /\ UNCHANGED <<backend, users, limits, logins, racing>>

-----------------------------------------------------------------------------

LoginsInit ==
  /\ backend \in {"sqlite", "postgres"}
  /\ users = [k \in LoginKeys |-> [id |-> 0, hash |-> "current", enabled |-> FALSE]]
  /\ limits = [k \in LoginKeys |-> NoLimit]
  /\ logins = [t \in LoginThreads |-> NoAttempt]
  /\ sessions = [t \in LoginThreads |-> 0]
  /\ racing = [k \in LoginKeys |-> {}]

LoginsNext ==
  \/ \E k \in LoginKeys : CreateAccount(k) \/ DeleteAccount(k) \/ LockExpires(k)
  \/ \E t \in LoginThreads :
       \/ \E k \in LoginKeys, right \in BOOLEAN : CheckLimit(t, k, right)
       \/ VerifyPassword(t) \/ LookAgain(t) \/ RefuseLocked(t)
       \/ CountFailure(t) \/ Succeed(t)
       \/ ServeSession(t) \/ Logout(t)

LoginsSpec == LoginsInit /\ [][LoginsNext]_loginVars

-----------------------------------------------------------------------------
(* What is claimed *)

Admitted(t) == sessions[t] = 0 /\ sessions'[t] # 0

HasVerdict(t) == logins[t].at \in {"counting", "admitting"} /\ logins'[t].at = "idle"

\* A lock holds against every attempt that looks after it is set.  Under it a
\* failure is counted, or a session begins and clears it, only for an attempt
\* that had looked for the last time before, with PostgreSQL inside the transaction
\* of its verdict, and once for each.
LocksHold ==
  [][\A t \in LoginThreads : HasVerdict(t) /\ limits[AsOf(t)].active =>
       t \in racing[AsOf(t)] /\ t \notin racing'[AsOf(t)]]_loginVars

\* With PostgreSQL a session begins for the account that is there then, though
\* it may have been deleted and created anew since its password was verified.
SessionsAreCurrent ==
  [][backend = "postgres" =>
       \A t \in LoginThreads : Admitted(t) =>
         users[AsOf(t)].enabled /\ sessions'[t] = users[AsOf(t)].id]_loginVars

=============================================================================
