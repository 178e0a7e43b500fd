SPECIFICATION FlowSpec
CONSTANTS
  k1 = k1
  k2 = k2
  Tasks = {k1, k2}
  MaxGrants = 2
  MaxOutages = 1
  MaxStates = 2
  TTL = 1
  MaxClock = 2
  MaxRestarts = 1
  MaxUses = 2
INVARIANTS
  FlowTypeOK
  SingleUse
  OneConnectPerState
PROPERTIES
  OnlyRejectionDisables
  RefreshTokenKept
  RevocationNoticed
\* Nothing is left to do when the last state has expired and time is used up.
CHECK_DEADLOCK FALSE
