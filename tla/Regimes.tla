-------------------------------- MODULE Regimes --------------------------------
(***************************************************************************)
(* Market regimes (app/regimes): the window of bars a label is computed    *)
(* from, the runs of equal labels, and the flags a strategy gets for how   *)
(* its backtest went within each regime.  What the features of a window    *)
(* come to is fixed by its bars, so the label of a bar is its window.      *)
(***************************************************************************)
EXTENDS Integers, SequencesExt

\* the bars up to bar t, no more than lookback of them
Lookback(bars, lookback, t) ==
  SubSeq(bars, IF t > lookback THEN t - lookback + 1 ELSE 1, t)

ClassifyRegimes(bars, lookback) == [t \in 1..Len(bars) |-> Lookback(bars, lookback, t)]

-----------------------------------------------------------------------------
(* Transitions *)

Run(from, to, start, end, duration) ==
  [from |-> from, to |-> to, start |-> start, end |-> end, duration |-> duration]

\* A run is given the time of the observation that opened it as its end too.
Closed(labels, now, to) == Run(labels[now.start], to, now.start, now.start, now.duration)

\* another label: the run is closed and the next one opened
Switch(labels, now, t) ==
  [runs |-> Append(now.runs, Closed(labels, now, labels[t])), start |-> t, duration |-> 1]

\* the loop over the labels: the runs found, and the run it is in
SummarizeTransitions(labels) ==
  LET loop[t \in 1..Len(labels)] ==
        IF t = 1 THEN [runs |-> << >>, start |-> 1, duration |-> 1]
        ELSE LET now == loop[t - 1]
             IN  IF labels[t] = labels[now.start] THEN [now EXCEPT !.duration = @ + 1]
                 ELSE Switch(labels, now, t)
      last == loop[Len(labels)]
  IN  IF labels = << >> THEN << >>
      ELSE Append(last.runs, Closed(labels, last, "none"))

-----------------------------------------------------------------------------
(* How a strategy fared in each regime *)

\* performance: the Sharpe ratio of the bars of each regime the backtest met, in tenths;
\* a regime is named by its trend and its volatility
RobustnessFlags(performance) ==
  LET met     == DOMAIN performance
      sharpes == {performance[r] : r \in met}
      Losing(r) == performance[r] < 0
  IN  IF met = {} THEN {"UNTESTED_REGIME"}
      ELSE {f \in {"UNTESTED_REGIME", "REGIME_DEPENDENCE_HIGH", "HIGH_VOL_FAILURE",
                   "SIDEWAYS_FAILURE"} :
              CASE f = "UNTESTED_REGIME"        -> Cardinality(met) < 4
                [] f = "REGIME_DEPENDENCE_HIGH" ->
                     \E a, b \in sharpes : a < 0 \/ a - b > 20
                [] f = "HIGH_VOL_FAILURE"       -> \E r \in met : r.volatility = "high" /\ Losing(r)
                [] f = "SIDEWAYS_FAILURE"       -> \E r \in met : r.trend = "sideways" /\ Losing(r)}
=============================================================================
