CONSTANTS
  c1 = c1
  c2 = c2
  Clients = {c1, c2}
  Writers = {c1, c2}
  Days = {1, 2, 3}
  Windows <- MCWindows
  Ids = {1, 2}
  Metrics <- MCMetrics
  None = None
  MaxVersion = 3
  MaxExperiments = 3
SPECIFICATION Spec
CHECK_DEADLOCK FALSE
INVARIANT StoredDataIsImmutable
