SPECIFICATION ProcessSpec
CONSTANTS
  Requests = {r1, r2}
  MaxServed = 2
  Clients = {c1}
  Paths = {"POST preview", "POST sync", "GET other"}
  Limit <- SmallLimit
  WindowMs = 3
  SecondMs = 2
  MaxClock = 6
  MaxHits = 3
INVARIANTS
  GatewayTypeOK
  StaysUp
  CutBodyIsNotEnded
  PruneInvisible
  BurstBound
  RetryAfterExact
PROPERTIES
  EveryoneIsAnswered
  UpstreamIsReleased
\* Nothing is left to do when every request has been served, or the clock and
\* the hits are used up.
CHECK_DEADLOCK FALSE
