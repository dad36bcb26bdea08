-------------------------- MODULE MCAdministration --------------------------
(***************************************************************************)
(* What users of the web server do: four parts that share the database but *)
(* no rows that matter to another. TLC explores each on its own, while the *)
(* others stay as they begin. The server's threads are the same in all.    *)
(***************************************************************************)
EXTENDS UserAccounts, Logins, Alerts, Topology, TLC

CONSTANTS t1, t2, a1, a2, u1, u2

Symmetry ==
  Permutations({t1, t2}) \cup Permutations({a1, a2}) \cup Permutations({u1, u2})

VARIABLE part    \* the part that is explored

administrationVars == <<part, usersVars, loginVars, alertVars, topologyVars>>

\* There is one database under all of them.
AdministrationInit ==
  /\ part \in {"accounts", "logins", "alerts", "topology"}
  /\ UsersInit /\ LoginsInit /\ AlertsInit /\ TopologyInit
  /\ database = backend /\ keeper = backend
  /\ ((rbac = "postgres") <=> (backend = "postgres"))

AdministrationNext ==
  \/ /\ part = "accounts" /\ UsersNext
     /\ UNCHANGED <<part, loginVars, alertVars, topologyVars>>
  \/ /\ part = "logins" /\ LoginsNext
     /\ UNCHANGED <<part, usersVars, alertVars, topologyVars>>
  \/ /\ part = "alerts" /\ AlertsNext
     /\ UNCHANGED <<part, usersVars, loginVars, topologyVars>>
  \/ /\ part = "topology" /\ TopologyNext
     /\ UNCHANGED <<part, usersVars, loginVars, alertVars>>

AdministrationSpec == AdministrationInit /\ [][AdministrationNext]_administrationVars

=============================================================================
