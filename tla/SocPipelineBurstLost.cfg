\* Two workers, nothing goes wrong: what they process side by side is not correlated.
SPECIFICATION MCSpec
CONSTANTS
  Scenarios = {"burst"}
  FirstWorker = w1
  Agents = {a1}
  Certificates = {c1}
  EventIds <- MCEventIds
  Payloads <- MCPayloads
  Batches <- MCBatches
  Workers = {w1, w2}
  MaxAttempts = 2
  BatchSize = 4
  None = None
  NoGroup = NoGroup
  IdOf <- MCIdOf
  NoOrigin = NoOrigin
  Catalogs <- Changing
  HistoryLimit = 3
  MaxErrors = 1
  MaxMoves = 2
INVARIANTS
  NoBurstLost
CHECK_DEADLOCK FALSE
