SPECIFICATION FairSpec
CONSTANTS
  w1 = w1
  w2 = w2
  Workers = {w1}
  Provider = "GMAIL"
  MaxMail = 3
  PageSize = 1
  InitialBatch = 1
  MaxIdsPerRun = 3
  Undated = {}
  WithText = {1}
  Months = {0}
  MaxRemoved = 1
  MaxFaults = 2
INVARIANTS
  NoGap
PROPERTIES
  MailGetsStored
