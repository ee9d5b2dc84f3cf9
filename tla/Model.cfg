CONSTANTS
  Clients = {c1, c2}
  None = None
  Keys = {m1, m2, m3}
  Datasets = {1, 2}
  Artifacts = {1, 2}
  Times = {1, 2}
  Results <- MCResults
  Windows <- MCWindows
  Evidences <- MCEvidences
  MaxRequests = 4
SPECIFICATION Spec
INVARIANT TitlesFollowPromotions
INVARIANT ModelInv
SYMMETRY Symmetric
CHECK_DEADLOCK FALSE
