\* Two workers, two URLs, one of them re-encoded, recovery scripts that overflow, one fault of any kind,
\* and one that comes again after a stop.
CONSTANTS
  u1 = u1
  u2 = u2
  raw = raw
  fixed = fixed
  w1 = w1
  w2 = w2
  NoTask = NoTask
  Urls = {raw, fixed, u1}
  Source = {raw, u1}
  Repeats = {raw}
  Clean <- DecodeOf
  Workers = {w1, w2}
  MaxRetries = 1
  BatchLimit = 1
  MaxPending = 1
  Allowed = {"crash", "error", "timeout", "pause"}
  MaxDisturbances = 1
  ResultCap = 2
SPECIFICATION QueueSpec
INVARIANTS QueueTypeOK
PROPERTIES LostOnlyByLosingStep KeepsItsPromise
SYMMETRY WorkerSymmetry
CHECK_DEADLOCK FALSE
