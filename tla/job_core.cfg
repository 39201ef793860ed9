\* Two workers, one request, every kind of fault once: the queue inside the job.
\* No step reads the counters, which job_calm counts.
CONSTANTS
  u1 = u1
  u2 = u2
  w1 = w1
  w2 = w2
  r1 = r1
  r2 = r2
  NoTask = NoTask
  Urls = {u1}
  Source = {u1}
  Repeats = {u1}
  Clean <- DecodeOf
  Workers = {w1, w2}
  MaxRetries = 1
  BatchLimit = 3
  MaxPending = 3
  Allowed = {"crash", "error", "timeout", "ingestion", "pause", "split"}
  MaxDisturbances = 1
  ResultCap = 2
  CountCap = 0
  Requests = {r1}
  Operations = {"pause", "resume", "stop"}
  Times = 2
SPECIFICATION JobSpec
INVARIANTS JobTypeOK WorkAfterIngestion
PROPERTY QueueSpec
SYMMETRY Symmetric
CHECK_DEADLOCK FALSE
