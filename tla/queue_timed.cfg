\* Two goroutines, one slot; two requests fit into the timeout however the clocks differ.
CONSTANTS
  u1 = u1
  u2 = u2
  u3 = u3
  w1 = w1
  w2 = w2
  w3 = w3
  NoTask = NoTask
  Urls = {u1, u2}
  Source = {u1, u2}
  Repeats = {}
  Clean <- DecodeOf
  Workers = {w1, w2}
  MaxRetries = 2
  BatchLimit = 3
  MaxPending = 4
  Allowed = {"crash", "timeout"}
  MaxDisturbances = 2
  ResultCap = 2
  Timeout = 4
  Period = 2
  Skew = 1
  Slots = 1
  RequestTime = 1
  Second = 1
  Width = 5
  Cap = 3
SPECIFICATION TimedSpec
INVARIANTS TimedTypeOK NoDoubleProcessing SingleCopy OneOutcome AbandonedFound
PROPERTY BackoffRespected
SYMMETRY WorkerSymmetry
