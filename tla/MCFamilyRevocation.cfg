SPECIFICATION AuditSpec
CONSTANTS
  NoUser = NoUser
  Users = {u1}
  Requests = {r1, r2}
  MaxTokens = 2
  TTL = 1
  MaxClock = 0
INVARIANT SeveredFamilyHasNoToken
