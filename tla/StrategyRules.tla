----------------------------- MODULE StrategyRules -----------------------------
(***************************************************************************)
(* The strategy language (app/strategy_dsl), the positions a strategy      *)
(* takes on a series of bars, and the trades a backtest makes of them      *)
(* (app/backtesting/engine.py and the native loop, which is the same).     *)
(* A bar is its close; money is whether there is any.                      *)
(***************************************************************************)
EXTENDS Integers, SequencesExt

Comparison(left, operator, right) ==
  [type |-> "comparison", left |-> left, operator |-> operator, right |-> right]

-----------------------------------------------------------------------------
(* Validation *)

\* how deep conditions may nest: a bound of the model, since a deeper condition differs in
\* nothing but its complexity
MaxNesting == 3

\* a condition and its parts, at every depth
Parts(c) ==
  LET reach[depth \in 0..MaxNesting] ==
        IF depth = 0 THEN {c}
        ELSE LET above == reach[depth - 1]
             IN  above \cup UNION {ToSet(p.conditions) : p \in {q \in above : q.type # "comparison"}}
  IN  reach[MaxNesting]

\* the comparisons a condition is made of
Comparisons(c) == {p \in Parts(c) : p.type = "comparison"}

ConditionComplexity(c) ==
  LET size[p \in Parts(c)] ==
        IF p.type = "comparison" THEN 1
        ELSE FoldSeq(LAMBDA part, sum : size[part] + sum, 1, p.conditions)
  IN  size[c]

ComplexityScore(spec) ==
  FoldSeq(LAMBDA c, sum : ConditionComplexity(c) + sum,
          2 * Cardinality(DOMAIN spec.indicators), <<spec.entry, spec.exit>> \o spec.filters)

\* an entry and an exit that compare the same two averages the opposite way
IsCrossover(spec) ==
  /\ spec.entry.type = "comparison" /\ spec.exit.type = "comparison"
  /\ spec.entry.left = spec.exit.left /\ spec.entry.right = spec.exit.right
  /\ spec.entry.operator \in {"gt", "gte"} /\ spec.exit.operator \in {"lt", "lte"}

ValidStrategy(spec) ==
  LET used == UNION {Comparisons(c) : c \in {spec.entry, spec.exit} \cup ToSet(spec.filters)}
      names == DOMAIN spec.indicators
  IN  /\ \A c \in used : {c.left, c.right} \subseteq names /\ c.left # c.right
      /\ spec.entry # spec.exit
      /\ IsCrossover(spec) => spec.indicators[spec.entry.left] < spec.indicators[spec.entry.right]
      /\ 2 <= Cardinality(names) /\ Cardinality(names) <= spec.maxIndicators
      /\ \A n \in names : 2 <= spec.indicators[n]
      /\ ComplexityScore(spec) <= spec.maxComplexity

\* The registered family: two averages of at least two and three bars, and long when the
\* fast one is above the slow one.
ValidParameters(fast, slow) == fast >= 2 /\ slow >= 3 /\ fast < slow

MovingAverageCrossover(fast, slow) ==
  [indicators    |-> [n \in {"fast_ma", "slow_ma"} |-> IF n = "fast_ma" THEN fast ELSE slow],
   entry         |-> Comparison("fast_ma", "gt", "slow_ma"),
   exit          |-> Comparison("fast_ma", "lt", "slow_ma"),
   filters       |-> << >>,
   maxIndicators |-> 16,
   maxComplexity |-> 32]

-----------------------------------------------------------------------------
(* Positions *)

\* the sum of the last closes of a window; its mean compares as sum / window
WindowSum(bars, window, t) == FoldSeq(+, 0, SubSeq(bars, t - window + 1, t))

\* A comparison with an average that has no full window yet is null, and null never makes a
\* condition true, since conditions have no negation.
Compares(spec, c, bars, t) ==
  LET l == spec.indicators[c.left]
      r == spec.indicators[c.right]
      left  == WindowSum(bars, l, t) * r
      right == WindowSum(bars, r, t) * l
  IN  /\ t >= l /\ t >= r
      /\ CASE c.operator = "gt"  -> left > right
           [] c.operator = "gte" -> left >= right
           [] c.operator = "lt"  -> left < right
           [] c.operator = "lte" -> left <= right

\* what a condition comes to, given what its comparisons do
Evaluates(c, compared) ==
  LET holds[p \in Parts(c)] ==
        CASE p.type = "comparison" -> compared[p]
          [] p.type = "all" -> \A i \in DOMAIN p.conditions : holds[p.conditions[i]]
          [] p.type = "any" -> \E i \in DOMAIN p.conditions : holds[p.conditions[i]]
  IN  holds[c]

Holds(spec, c, bars, t) == Evaluates(c, [p \in Comparisons(c) |-> Compares(spec, p, bars, t)])

\* What the strategy wants at the close of bar t (1 is its whole size): an entry its filters
\* allow wins over an exit, and without either it wants what it wanted before.
Signal(spec, bars) ==
  LET wants[t \in 0..Len(bars)] ==
        IF t = 0 THEN 0
        ELSE IF /\ Holds(spec, spec.entry, bars, t)
                /\ \A f \in ToSet(spec.filters) : Holds(spec, f, bars, t) THEN 1
        ELSE IF Holds(spec, spec.exit, bars, t) THEN 0
        ELSE wants[t - 1]
  IN  wants

\* The faulty EvaluatePositions of a mutant: a bar is traded at its own open.
PositionsUnshifted(spec, bars) == [t \in 1..Len(bars) |-> Signal(spec, bars)[t]]

\* the position from the open of bar t is the one wanted at the close before
EvaluatePositions(spec, bars) == [t \in 1..Len(bars) |-> Signal(spec, bars)[t - 1]]

-----------------------------------------------------------------------------
(* Backtest *)

Flat == [cash |-> TRUE, shares |-> FALSE, trades |-> << >>]

\* A purchase spends all the cash, up to what the rounding of the last subtraction leaves.
Buy(account, t, costs) ==
  [cash   |-> t \in costs.residue,
   shares |-> TRUE,
   trades |-> Append(account.trades, [side |-> "BUY", bar |-> t])]

\* The faulty Sell of a mutant: the shares stay on the account.
SellKeepingShares(account, t, costs) ==
  [cash |-> TRUE, shares |-> TRUE, trades |-> Append(account.trades, [side |-> "SELL", bar |-> t])]

\* What a sale brings for each share and unit of price: slippage lowers the price it gets, the
\* fee is taken from that.  Both are percentages without an upper bound.
Proceeds(costs) == (100 - costs.slippage) * (100 - costs.fee)

\* a sale that brings nothing leaves the cash as it was
Sell(account, t, costs) ==
  [cash   |-> IF Proceeds(costs) = 0 THEN account.cash ELSE Proceeds(costs) > 0,
   shares |-> FALSE,
   trades |-> Append(account.trades, [side |-> "SELL", bar |-> t])]

\* The account after each bar.
RunBacktest(positions, costs) ==
  LET account[t \in 0..Len(positions)] ==
        IF t = 0 THEN Flat
        ELSE LET before   == account[t - 1]
                 previous == IF t = 1 THEN 0 ELSE positions[t - 1]
             IN  IF positions[t] > previous /\ before.cash THEN Buy(before, t, costs)
                 ELSE IF positions[t] < previous /\ before.shares THEN Sell(before, t, costs)
                 ELSE before
  IN  account
=============================================================================
