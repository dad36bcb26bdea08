\* The administration guide, 50: no recorded success is executed again.  The agent
\* and a watcher that resumes its running job break it without any fault.
SPECIFICATION ExecSpec
CONSTANTS
  Clients = {c1}
  Packages = {1, 2}
  Threads = {t1, t2}
  Actions = {"INSTALL_PACKAGE"}
  ItemResults = {"success", "failed"}
  Kinds = {"create", "claim", "checkpoint", "result"}
  NoPackage = 99
  NoThread = NoThread
  MaxJobs = 1
  MaxResults = 2
  Roles = {"agent", "watcher"}
  Faults = {}
  MaxFaults = 0
PROPERTIES
  NoRepeatOfRecordedSuccess
