SPECIFICATION FairSpec
CONSTANTS
  Accounts = {"mine", "theirs"}
  Users = {"ann", "bob"}
  Mine <- MCMine
  User <- MCUser
  MaxEffects = 2
  MaxConns = 2
  MaxEvents = 1
  MaxPings = 1
  MaxOutside = 1
INVARIANTS
  TypeOK
  FramesSurviveChunking
  OnlyOwnAccounts
PROPERTIES
  ListenersAreReleased
  CleanupStopsEffect
\* When the connections are used up a tab may be left waiting.
CHECK_DEADLOCK FALSE
