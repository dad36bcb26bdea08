\* Three scenarios: two clients, two packages, two jobs; two requests at once.
SPECIFICATION MCSpec
CONSTANTS
  Clients = {c1, c2}
  Packages = {p1, p2}
  Threads = {t1, t2}
  Actions = {"INSTALL_PACKAGE", "UPDATE_PACKAGE", "UPDATE_SYSTEM"}
  ItemResults = {"success", "failed"}
  Kinds = {"create", "report", "claim", "checkpoint", "result", "abandon"}
  NoPackage = NoPackage
  MaxJobs = 2
  MaxResults = 2
SYMMETRY Symmetry
INVARIANTS
  HistoryExactlyOnce
  CountsExplainStatus
  RowsFollowStatus
PROPERTIES
  OnlyOwnerTouchesJob
  ImplementsLifecycle
