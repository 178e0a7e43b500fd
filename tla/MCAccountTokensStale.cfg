SPECIFICATION Spec
CONSTANTS
  k1 = k1
  k2 = k2
  Tasks = {k1, k2}
  MaxGrants = 2
  MaxOutages = 0
PROPERTY DisabledMeansRejected
\* When every consent was incomplete there is no account and nothing to do.
CHECK_DEADLOCK FALSE
