SPECIFICATION WebSpec
CONSTANTS
  Tabs = {b1, b2}
  Slots = {s1, s2}
  MaxTokens = 3
  MaxFaults = 2
SYMMETRY Symmetry
INVARIANT WebTypeOK
INVARIANT NoFalseTheft
INVARIANT SignOutEndsSession
CHECK_DEADLOCK FALSE
