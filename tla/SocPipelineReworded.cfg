\* One worker, and a rule that is worded anew between two events.
SPECIFICATION MCSpec
CONSTANTS
  Scenarios = {"reworded"}
  FirstWorker = w1
  Agents = {a1}
  Certificates = {c1}
  EventIds <- MCEventIds
  Payloads <- MCPayloads
  Batches <- MCBatches
  Workers = {w1, w2}
  MaxAttempts = 2
  BatchSize = 4
  None = None
  NoGroup = NoGroup
  IdOf <- MCIdOf
  NoOrigin = NoOrigin
  Catalogs <- Changing
  HistoryLimit = 3
  MaxErrors = 1
  MaxMoves = 2
INVARIANTS
  ReevaluationIsIdempotent
CHECK_DEADLOCK FALSE
