\* README: no job remains unprocessed.  A whole-system job never gets its result
\* accepted.
SPECIFICATION FairSpec
CONSTANTS
  Clients = {c1}
  Packages = {1, 2}
  Threads = {t1, t2}
  Actions = {"UPDATE_SYSTEM"}
  ItemResults = {"success", "failed"}
  Kinds = {"create", "claim", "checkpoint", "result"}
  NoPackage = 99
  NoThread = NoThread
  MaxJobs = 1
  MaxResults = 2
  Roles = {"watcher"}
  Faults = {}
  MaxFaults = 0
PROPERTIES
  ClaimedJobsEnd
