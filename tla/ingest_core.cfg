\* Every file of at most three rows with three pages, batches of two, up to two failing calls.
CONSTANTS
  p1 = p1
  p2 = p2
  p3 = p3
  Pages = {p1, p2, p3}
  MaxRows = 3
  MaxLimit = 2
  LineCap = 2
  BatchSize = 2
  MaxFaults = 2
SPECIFICATION IngestSpec
INVARIANTS IngestTypeOK ReturnsFirstUrls EnqueuedOnce WholeSourceQueued FaultsCostTheirBatch
PROPERTY LeavesPending
CHECK_DEADLOCK FALSE
