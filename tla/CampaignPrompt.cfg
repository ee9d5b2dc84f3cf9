CONSTANTS
  w1 = w1
  w2 = w2
  c1 = c1
  None = None
  Score <- MCScore
  N = 3
  Workers = {w1, w2}
  Clients = {c1}
  MaxAttempts = 2
  TopCount = 2
  RequireStress = TRUE
  Slow = {}
  Operations = {"run", "cancel", "cancel_job", "report"}
  Batches = {1, 3}
  MaxRequests = 3
  MaxCrashes = 1
SPECIFICATION Spec
INVARIANTS
  PromptInv
  LeaseExclusive
  DecidedOnce
  TestedOnce
  CompletedReportIsCurrent
PROPERTIES
  WorkersKeepTestLocked
  ImplementsJobQueue
SYMMETRY WorkerSymmetry
