CONSTANTS
  w1 = w1
  w2 = w2
  c1 = c1
  None = None
  Score <- MCScore
  N = 1
  Workers = {w1, w2}
  Clients = {c1}
  MaxAttempts = 2
  TopCount = 1
  RequireStress = FALSE
  Slow = {"poll", "request"}
  Operations = {"run", "report"}
  Batches = {1}
  MaxRequests = 3
  MaxCrashes = 1
SPECIFICATION LiveSpec
PROPERTIES CampaignSettles
