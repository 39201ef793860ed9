\* One worker, a crash or a failed call, a stop or a pause.
CONSTANTS
  u1 = u1
  u2 = u2
  w1 = w1
  w2 = w2
  r1 = r1
  r2 = r2
  NoTask = NoTask
  Urls = {u1}
  Source = {u1}
  Repeats = {}
  Clean <- DecodeOf
  Workers = {w1}
  MaxRetries = 1
  BatchLimit = 3
  MaxPending = 4
  Allowed = {"crash", "error", "pause"}
  MaxDisturbances = 1
  ResultCap = 2
  CountCap = 0
  Requests = {r1}
  Operations = {"pause", "resume", "stop"}
  Times = 1
SPECIFICATION FairJobSpec
PROPERTIES Drains InactiveWorkersIdle PausedWorkersIdle StoppedWorkersIdle
CHECK_DEADLOCK FALSE
