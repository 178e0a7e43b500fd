SPECIFICATION Spec
CONSTANTS
  u1 = u1
  r1 = r1
  r2 = r2
  NoUser = NoUser
  Users = {u1}
  Requests = {r1, r2}
  MaxTokens = 3
  TTL = 1
  MaxClock = 2
INVARIANTS
  TypeOK
  SingleHolder
  LinksFormChain
  ReplayEvidenceKept
PROPERTIES
  DeadStaysDead
  ImplementsSession
SYMMETRY Symmetric
