\* One token a second, one asked for at a time.
CONSTANTS
  Speed = 3600
  Count = 1
  Times <- Instants
  MaxGranted = 3
  Gone = Gone
SPECIFICATION RateSpec
INVARIANTS RateTypeOK PaidOnce WindowBound
