CONSTANTS
  None = None
  NoScore = NoScore
  Questions <- MCQuestions
  InitialPopulation <- MCInitial
  Generations = 3
  PopulationSize = 3
  Scores = {0, 1, 3}
  Performances <- MCPerformances
  Hint = FALSE
  MaxIngests = 1
  Requests <- MCRequests
  BaseVersion = 1
  Workflows = {"w1", "w2", "v1"}
  Component <- MCComponent
  Overridden <- MCOverridden
  Price <- MCPrice
  PromotionRules <- MCRules
  Promoters = {p1, p2}
  MaxExperiments = 3
  MaxPromotions = 3
  Desks = {d1, d2}
  Symbols = {X, Y}
  Documents <- MCDocuments
  TopK = 1
  MaxAttachments = 2
  MaxBytes = 3
  MaxStudies = 2
  MaxAttached = 3
  NoModel = NoModel
SPECIFICATION Spec
CHECK_DEADLOCK FALSE
INVARIANTS
  TestStaysLocked
  NothingLooksAhead
  SeriesAreCut
  SearchStaysInBudget
  WeightsAreBalanced
  EvolutionKeepsBest
  ChampionsNeverReturn
  PromotionIsEarned
  RoutingKeepsBudget
  EvidenceIsWhole
