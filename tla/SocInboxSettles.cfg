\* Two events, two workers that may crash for ever, two attempts.
SPECIFICATION FairSpec
CONSTANTS
  Agents = {a1}
  Certificates = {c1}
  EventIds = {"e1", "e2"}
  Payloads = {"p1"}
  Batches <- TwoEvents
  Workers = {w1, w2}
  MaxAttempts = 2
  BatchSize = 2
  None = None
PROPERTIES
  EventsSettle
