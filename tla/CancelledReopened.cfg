CONSTANTS
  w1 = w1
  w2 = w2
  c1 = c1
  None = None
  Score <- MCScore
  N = 1
  Workers = {w1}
  Clients = {c1}
  MaxAttempts = 2
  TopCount = 1
  RequireStress = FALSE
  Slow = {}
  Operations = {"run", "cancel"}
  Batches = {1}
  MaxRequests = 2
  MaxCrashes = 0
SPECIFICATION Spec
PROPERTIES CancellationIsDurable
