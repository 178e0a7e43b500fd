SPECIFICATION Spec
CONSTANTS
  w1 = w1
  w2 = w2
  Workers = {w1, w2}
  Provider = "ZOHO"
  MaxMail = 2
  PageSize = 3
  InitialBatch = 1
  MaxIdsPerRun = 3
  Undated = {2}
  WithText = {1}
  Months = {0, 1}
  MaxRemoved = 1
  MaxFaults = 1
SYMMETRY Symmetric
INVARIANTS
  TypeOK
  NoGap
  RowsHaveBlobs
PROPERTIES
  RowsAreFinal
