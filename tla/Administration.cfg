\* Accounts, logins, alerts and the topology, each with two threads on each
\* database.  Seven failures of a login are past the five that lock.
SPECIFICATION AdministrationSpec
CONSTANTS
  t1 = t1
  t2 = t2
  a1 = a1
  a2 = a2
  u1 = u1
  u2 = u2
  Permissions = {"clients.view", "users.manage", "permissions.manage"}
  Roles = {"viewer", "administrator"}
  Users = {u1, u2}
  WebThreads = {t1, t2}
  LoginKeys = {k1}
  LoginThreads = {t1, t2}
  MaxFailures = 7
  MaxAccountIds = 2
  RuleIds = {r1}
  AlertIds = {a1, a2}
  AlertThreads = {t1, t2}
  MaxAlertHistory = 3
  TopologyClients = {c1}
  TopologyThreads = {t1, t2}
  MaxNodes = 1
  MaxRelations = 2
SYMMETRY Symmetry
INVARIANTS
  AlertHistoryTells
  TopologyHolds
PROPERTIES
  SomebodyStaysInCharge
  RightsAreKept
  LocksHold
  SessionsAreCurrent
  RulesAreCurrent
\* The bounds on what is created end every part.
CHECK_DEADLOCK FALSE
