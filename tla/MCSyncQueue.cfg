SPECIFICATION FairSpec
CONSTANTS
  Accounts = {a1, a2}
  Manual = {m1}
  Scheduler = cron
  Attempts = 2
  MaxRequests = 1
  MaxTrouble = 1
INVARIANTS
  TypeOK
PROPERTIES
  AccountKeepsSyncing
  AcceptedSyncIsQueued
