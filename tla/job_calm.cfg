\* Two workers, two URLs, no faults and no requests; lengths read one by one.
CONSTANTS
  u1 = u1
  u2 = u2
  w1 = w1
  w2 = w2
  r1 = r1
  r2 = r2
  NoTask = NoTask
  Urls = {u1, u2}
  Source = {u1, u2}
  Repeats = {}
  Clean <- DecodeOf
  Workers = {w1, w2}
  MaxRetries = 1
  BatchLimit = 3
  MaxPending = 3
  Allowed = {"pause", "split"}
  MaxDisturbances = 0
  ResultCap = 2
  CountCap = 5
  Requests = {}
  Operations = {}
  Times = 1
SPECIFICATION FairJobSpec
INVARIANTS CompletedMeansTried CrawledCountsResults ProgressBounded
PROPERTY EventuallyFinishes
CHECK_DEADLOCK FALSE
