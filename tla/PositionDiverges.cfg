CONSTANTS
  CommissionPct = 10
  SlippagePct = 10
  HalfSpreadPct = 10
  Impacts = {0, 10}
  TargetPct = 50
  MaxPosition = 3
  MaxOrderValue = 1000
  MaxExposurePct = 100
  InitialCash = 600
  Latencies = {0, 1, 2}
  Prices = {100, 200}
  Liquidity = {0, 1, 2}
  SlowWindow = 2
  MaxBars = 7
SPECIFICATION Spec
INVARIANT PositionReconstructable
