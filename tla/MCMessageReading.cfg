SPECIFICATION ReadSpec
CONSTANTS
  Ids = {1, 2, 3, 4}
  SentAt <- MCSentAt
  Asked <- MCAsked
  DefaultLimit = 2
  MaxLimit = 3
  Opened = {1}
  WithText = {1}
  MaxSyncs = 4
INVARIANTS
  ReadTypeOK
  PagesAreExact
  SavedFileIsComplete
