CONSTANTS
  Clients = {c1, c2}
  None = None
  Windows <- MCWindows
  Times = {1, 2}
  Schedules = {s1}
  Mode <- MCMode
  Cadence = 2
  MaxRequests = 4
  MaxDay = 3
SPECIFICATION Spec
INVARIANT HealthInv
INVARIANT DegradedTwice
INVARIANT CadenceKept
PROPERTY RetiredForGood
CHECK_DEADLOCK FALSE
SYMMETRY Symmetric
