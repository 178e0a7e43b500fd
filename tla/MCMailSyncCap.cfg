SPECIFICATION Spec
CONSTANTS
  w1 = w1
  w2 = w2
  Workers = {w1}
  Provider = "GMAIL"
  MaxMail = 3
  PageSize = 1
  InitialBatch = 2
  MaxIdsPerRun = 2
  Undated = {}
  WithText = {1}
  Months = {0}
  MaxRemoved = 0
  MaxFaults = 0
INVARIANTS
  NoGap
