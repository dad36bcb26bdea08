\* Agent and watcher with one fault, or the watcher alone with two: every job ends.
SPECIFICATION EndsSpec
CONSTANTS
  Clients = {c1}
  Packages = {1, 2}
  Threads = {t1, t2}
  Actions = {"INSTALL_PACKAGE"}
  ItemResults = {"success", "failed"}
  Kinds = {"create", "claim", "checkpoint", "result"}
  NoPackage = 99
  NoThread = NoThread
  MaxJobs = 1
  MaxResults = 2
  Roles = {"agent", "watcher"}
  Faults = {"crash", "lost answer", "worker"}
  MaxFaults = 2
PROPERTIES
  CreatedJobsEnd
  AloneRepeatsNothing
