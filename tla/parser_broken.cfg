\* A connection that breaks while the source is read.
CONSTANTS
  Pages = {p1}
  p1 = p1
  p2 = p2
  p3 = p3
  BatchSize = 2
  MaxFaults = 0
  MaxRows = 1
  MaxLimit = 2
  LineCap = 2
SPECIFICATION IngestSpec
PROPERTY BrokenSourcesEnd
CHECK_DEADLOCK FALSE
