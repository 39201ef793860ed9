\* Three goroutines, one slot, and a timeout shorter than the line: 200 goroutines, 10 slots, 30 s and 5 min to scale.
CONSTANTS
  u1 = u1
  u2 = u2
  u3 = u3
  w1 = w1
  w2 = w2
  w3 = w3
  NoTask = NoTask
  Urls = {u1, u2, u3}
  Source = {u1, u2, u3}
  Repeats = {}
  Clean <- DecodeOf
  Workers = {w1, w2, w3}
  MaxRetries = 1
  BatchLimit = 3
  MaxPending = 4
  Allowed = {"timeout"}
  MaxDisturbances = 1
  ResultCap = 2
  Timeout = 4
  Period = 2
  Skew = 0
  Slots = 1
  RequestTime = 2
  Second = 1
  Width = 5
  Cap = 3
SPECIFICATION TimedSpec
INVARIANT NoDoubleProcessing
