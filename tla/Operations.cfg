\* Telemetry and searches with two threads and two agents of a client, two update
\* jobs of the installation, starts, two runners of migrations, and backups of a
\* database of two pages; two revocation lists that end after four and five ticks.
SPECIFICATION OperationsSpec
CONSTANTS
  c1 = c1
  p1 = p1
  p2 = p2
  TelemetryThreads = {p1, p2}
  Retention = 1
  MaxTicks = 2
  MaxSamples = 3
  MaxListed = 2
  SearchClients = {c1}
  SearchAgents = {p1, p2}
  AgentOf <- MCAgentOf
  MaxSearches = 1
  MaxTokens = 2
  MaxCalls = 2
  Workers = {p1, p2}
  NoWorker = NoWorker
  KeepProgress = 6
  MaxJobs = 2
  Runners = {p1, p2}
  Pages = {1, 2}
  MaxCommits = 2
  MaxCopies = 1
  Crls <- MCCrls
  NoCrl = NoCrl
  MaxAge = 5
  ClockSkew = 1
  Margin = 2
  ReadingAge = 1
  MaxSyncAge = 3
  Consistency = 1
  SyncError = 1
  WallErrors <- MCWallErrors
  MaxClock = 5
SYMMETRY Symmetry
INVARIANTS
  OneEventPerFailure
  ListTells
  OneActiveUpdate
  StartedInOrder
  StepsInOrder
  SchemaIsReady
  AppliesToKnownSchema
  DatabaseIsWhole
  CopiesAreWhole
PROPERTIES
  SearchesEndOnce
  AdmitsInTime
  TakenStaysTaken
\* Bounds on what is created end every part.
CHECK_DEADLOCK FALSE
