\* Two workers whose claims may expire; one that may crash while rules change and an
\* operator acts; one that is alone and gets events late.
SPECIFICATION MCSpec
CONSTANTS
  Scenarios = {"faults", "operators", "alone", "twins"}
  FirstWorker = w1
  Agents = {a1}
  Certificates = {c1}
  EventIds <- MCEventIds
  Payloads <- MCPayloads
  Batches <- MCBatches
  Workers = {w1, w2}
  MaxAttempts = 2
  BatchSize = 4
  None = None
  NoGroup = NoGroup
  IdOf <- MCIdOf
  NoOrigin = NoOrigin
  Catalogs <- Changing
  HistoryLimit = 3
  MaxErrors = 1
  MaxMoves = 2
INVARIANTS
  IncidentsRestOnProcessed
  NoDetectionLost
  AloneLosesNoBurst
\* An event can be given up and its worker find nothing more to do.
CHECK_DEADLOCK FALSE
