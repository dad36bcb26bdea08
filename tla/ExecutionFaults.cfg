\* Agent and watcher with up to two faults of any kind.
SPECIFICATION ExecSpec
CONSTANTS
  Clients = {c1}
  Packages = {1, 2}
  Threads = {t1, t2}
  Actions = {"INSTALL_PACKAGE", "UPDATE_SYSTEM"}
  ItemResults = {"success", "failed"}
  Kinds = {"create", "claim", "checkpoint", "result"}
  NoPackage = 99
  NoThread = NoThread
  MaxJobs = 1
  MaxResults = 2
  Roles = {"agent", "watcher"}
  Faults = {"crash", "lost answer", "worker", "disable"}
  MaxFaults = 2
SYMMETRY Symmetry
INVARIANTS
  RecordsAreTrue
  SuccessIsComplete
\* A disabled client never works again, and its job stays where it is.
CHECK_DEADLOCK FALSE
