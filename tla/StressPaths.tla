------------------------------ MODULE StressPaths ------------------------------
(***************************************************************************)
(* Stress tests of a realised return path (app/stress_testing): scenarios  *)
(* that change it and paths resampled from its blocks.  Returns are whole  *)
(* numbers of basis points, days are counted from 1.                       *)
(***************************************************************************)
EXTENDS Integers, Sequences, FiniteSets

\* the days of the path on which the penalty of a trade falls
Hit(returns, trades, delay) == {d \in DOMAIN returns : d - delay \in trades}

\* a penalty on every trade, some bars late; what falls behind the last day is dropped
Charged(returns, trades, delay, penalty) ==
  [d \in DOMAIN returns |->
     IF d \in Hit(returns, trades, delay) THEN returns[d] - penalty ELSE returns[d]]

\* the scenarios of a study: costs and slippage on the trades, their delay by one bar,
\* half as much volatility again (of even returns), and a shift
ApplyScenario(returns, trades, scenario) ==
  CASE scenario.type \in {"transaction_cost", "slippage"} ->
         Charged(returns, trades, 0, scenario.bps)
    [] scenario.type = "delayed_execution" -> Charged(returns, trades, scenario.bars, scenario.bps)
    [] scenario.type = "volatility" -> [d \in DOMAIN returns |-> (returns[d] * 3) \div 2]
    [] scenario.type = "return_shift" -> [d \in DOMAIN returns |-> returns[d] + scenario.bps]

\* the number of blocks that cover the path, and the days of a sample that starts them there
BlockCount(n, size) == (n + size - 1) \div size

SampledDay(n, size, starts, i) ==
  LET block == ((i - 1) \div size) + 1
      offset == (i - 1) % size
  IN  ((starts[block] - 1 + offset) % n) + 1

\* block_bootstrap: blocks wrap around the end, the last is cut to the length of the path
BootstrapDays(n, size, starts) == [i \in 1..n |-> SampledDay(n, size, starts, i)]

\* performance_concentration: the first day of the largest gain, 0 without one
TopDay(returns) ==
  LET gain(d) == IF returns[d] > 0 THEN returns[d] ELSE 0
  IN  IF \A d \in DOMAIN returns : gain(d) = 0 THEN 0
      ELSE CHOOSE d \in DOMAIN returns : \A e \in DOMAIN returns :
             gain(d) > gain(e) \/ (gain(d) = gain(e) /\ d <= e)
=============================================================================
