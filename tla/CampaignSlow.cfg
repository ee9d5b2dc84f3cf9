CONSTANTS
  w1 = w1
  w2 = w2
  c1 = c1
  None = None
  Score <- MCScore
  N = 2
  Workers = {w1, w2}
  Clients = {c1}
  MaxAttempts = 2
  TopCount = 1
  RequireStress = FALSE
  Slow = {"handler", "poll"}
  Operations = {"cancel", "report"}
  Batches = {2}
  MaxRequests = 2
  MaxCrashes = 0
  Flagged = {2}
SPECIFICATION StudySpec
INVARIANTS
  IInv
  BudgetNeverOvercounts
  StudyFollowsCampaign
SYMMETRY WorkerSymmetry
