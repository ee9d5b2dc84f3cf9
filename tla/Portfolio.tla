------------------------------- MODULE Portfolio -------------------------------
(***************************************************************************)
(* Portfolio construction with periodic rebalancing                        *)
(* (app/portfolio/engine.py and campaigns/portfolio.py).  Returns are data *)
(* the control does not look at, so weights are the periods whose returns  *)
(* they were computed from, and what a turnover or a constraint comes to   *)
(* is given with the definition:                                           *)
(*   dates     calendar month (or week) of each aligned period, from 1     *)
(*   lookback  periods a dynamic rule looks at                             *)
(*   dynamic   whether the rule is one (else static)                       *)
(*   allowed   whether the first weights meet the constraints              *)
(*   turns     periods at which new weights would exceed the turnover cap  *)
(***************************************************************************)
EXTENDS Integers, SequencesExt

\* the strategies are compared on the dates all of them have a return for
AlignedDates(series) == SetToSortSeq(
  {d \in UNION {DOMAIN series[s] : s \in DOMAIN series} :
     \A s \in DOMAIN series : d \in DOMAIN series[s]}, <)

\* the first weights are allocated from the whole sample
BaseWeights(definition) == 1..Len(definition.dates)

ShouldRebalance(definition, i) ==
  i > 1 /\ definition.dates[i] # definition.dates[i - 1]

\* what a rule makes of the periods before the i-th: their last few
DynamicWeights(definition, i, prior) ==
  IF definition.dynamic THEN (i - definition.lookback)..(i - 1) ELSE prior

\* The weights each period is held with, and what its rebalance came to.  (The code's index
\* is i - 1, so index >= lookback is i > lookback.)  The rules never see the return of the
\* period; a turnover above the cap keeps the weights and costs nothing.
Simulate(definition) ==
  LET held[i \in 0..Len(definition.dates)] ==
        IF i = 0 THEN [weights |-> BaseWeights(definition), outcome |-> "none", at |-> 0]
        ELSE IF ~(ShouldRebalance(definition, i) /\ i > definition.lookback)
          THEN [held[i - 1] EXCEPT !.outcome = "none"]
        ELSE IF definition.dynamic /\ i \in definition.turns
          THEN [held[i - 1] EXCEPT !.outcome = "rejected"]
        ELSE [weights |-> DynamicWeights(definition, i, held[i - 1].weights),
              outcome |-> "rebalanced", at |-> i]
  IN  held

\* a portfolio whose first weights break a constraint is rejected without a simulation
ConstructPortfolio(definition) ==
  IF ~definition.allowed THEN << >>
  ELSE [i \in 1..Len(definition.dates) |-> Simulate(definition)[i]]
=============================================================================
