\* Two goroutines, two domains of one slot, a redirect; the signal may come at any time.
CONSTANTS
  a = a
  b = b
  g1 = g1
  g2 = g2
  NoChannel = NoChannel
  NoDomain = NoDomain
  Goroutines = {g1, g2}
  Domains = {a, b}
  MaxConc = 1
  Delay = 2
  MaxHops = 1
SPECIFICATION ProcessSpec
INVARIANTS DomainTypeOK SlotsMatchHolders SlotsPaceRequests ClosedMeansIdle OneTaskEach
PROPERTIES SlotsComeFree StopReturns
