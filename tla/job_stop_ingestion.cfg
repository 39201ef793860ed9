\* A stop during the ingestion.
CONSTANTS
  u1 = u1
  u2 = u2
  w1 = w1
  w2 = w2
  r1 = r1
  r2 = r2
  NoTask = NoTask
  Urls = {u1}
  Source = {u1}
  Repeats = {}
  Clean <- DecodeOf
  Workers = {w1, w2}
  MaxRetries = 1
  BatchLimit = 3
  MaxPending = 3
  Allowed = {"pause"}
  MaxDisturbances = 0
  ResultCap = 2
  CountCap = 2
  Requests = {r1}
  Operations = {"stop"}
  Times = 1
SPECIFICATION JobSpec
PROPERTY StopIsFinal
CHECK_DEADLOCK FALSE
