\* Batches of up to three events; two incidents with two pieces of evidence that may
\* conflict; two collectors; two workers on two events, each with two attempts.
SPECIFICATION MCSpec
CONSTANTS
  NoGroup = NoGroup
  AnalysedIds = {1, 2, 3}
  Instants = {0, 1, 3, 5}
  GroupValues = {g1, NoGroup}
  Bodies = {b1, b2}
  Rule <- MCRule
  MaxBatch = 3
  IncidentIds = {i1, i2}
  Contents = {"text", "other text"}
  EvidenceIds = {e1, e2}
  Findings = {f1, f2}
  Times = {1}
  MaxHistory = 3
  Agents = {a1, a2}
  Certificates = {c1, c2}
  EventIds = {"e1", "e2"}
  Payloads = {"p1", "p2"}
  Batches <- MCBatches
  Workers = {w1, w2}
  MaxAttempts = 2
  BatchSize = 2
  None = None
SYMMETRY Symmetry
INVARIANTS
  DuplicatesExplained
  WindowsAreRight
  IncidentsIndependentOfOrder
  HistoryTellsStatus
PROPERTIES
  NothingIsRewritten
  AcceptedIsStored
  FreshClaimIsSafe
  ImplementsEventLifecycle
\* A batch, a history and the evidence are bounded, and all agents may be revoked.
CHECK_DEADLOCK FALSE
