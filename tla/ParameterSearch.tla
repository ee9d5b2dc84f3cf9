---------------------------- MODULE ParameterSearch ----------------------------
(***************************************************************************)
(* The candidates of an optimization study (app/campaigns/optimization.py):*)
(* the product of the values of each parameter, without those a constraint *)
(* rejects, sampled by one of three methods.  A space is a sequence of     *)
(* [name, values] and a candidate the function from names to values.       *)
(***************************************************************************)
EXTENDS Integers, FiniteSets, SequencesExt

\* the values of a numeric parameter: its range by steps (a float range is counted in steps)
Stepped(min, max, step) == [i \in 1..(((max - min) \div step) + 1) |-> min + (i - 1) * step]

\* itertools.product: the last parameter varies fastest
Product(space) ==
  LET upTo[i \in 0..Len(space)] ==
        IF i = 0 THEN << << >> >>
        ELSE LET rows   == upTo[i - 1]
                 values == space[i].values
                 n      == Len(values)
             IN  [k \in 1..(Len(rows) * n) |->
                    Append(rows[((k - 1) \div n) + 1], values[((k - 1) % n) + 1])]
  IN  upTo[Len(space)]

Named(space, values) ==
  [n \in {space[i].name : i \in DOMAIN space} |->
     values[CHOOSE i \in DOMAIN space : space[i].name = n]]

\* a constraint that names an unknown parameter rejects every candidate
Rejected(candidate, constraints) ==
  \/ /\ {"short_window", "long_window"} \subseteq DOMAIN candidate
     /\ candidate["short_window"] >= candidate["long_window"]
  \/ \E rule \in constraints :
       \/ ~({rule.left, rule.right} \subseteq DOMAIN candidate)
       \/ rule.operator \notin {"<", "<="}
       \/ rule.operator = "<" /\ ~(candidate[rule.left] < candidate[rule.right])
       \/ rule.operator = "<=" /\ ~(candidate[rule.left] <= candidate[rule.right])

\* the items at some positions, in their order
Picked(items, positions) ==
  [k \in 1..Cardinality(positions) |->
     items[CHOOSE i \in positions : Cardinality(positions \cap (1..i)) = k]]

GridCandidates(space, constraints) ==
  LET all == Product(space)
      candidate == [i \in 1..Len(all) |-> Named(space, all[i])]
  IN  Picked(candidate, {i \in 1..Len(all) : ~Rejected(candidate[i], constraints)})

\* The first of each group of equal items, in order.
Unique(items) ==
  Picked(items, {i \in DOMAIN items : \A j \in 1..(i - 1) : items[j] # items[i]})

-----------------------------------------------------------------------------
(* Sampling *)

\* Python's round of n / d: to the nearest, and a half to the even one
RoundHalfEven(n, d) ==
  LET down == n \div d
      twice == 2 * (n % d)
  IN  IF twice > d \/ (twice = d /\ down % 2 = 1) THEN down + 1 ELSE down

\* The faulty DiversePick of a mutant: the index is cut off instead of rounded, over the
\* number of picks.
DiverseTruncated(i, count, picks) == ((i - 1) * count) \div picks + 1

\* the i-th of evenly spread picks out of count candidates
DiversePick(i, count, picks) == RoundHalfEven((i - 1) * (count - 1), picks - 1) + 1

\* The search without the optimizer's package: spread over the whole list, in its order.
DiverseCandidates(candidates, picks) ==
  IF Len(candidates) <= picks THEN candidates
  ELSE IF picks = 1 THEN <<Head(candidates)>>
  ELSE [i \in 1..picks |-> candidates[DiversePick(i, Len(candidates), picks)]]

FirstOf(items, n) == SubSeq(items, 1, IF Len(items) < n THEN Len(items) ELSE n)

\* The variants each method may return: the first of the grid, some of a shuffled grid, a
\* spread of it, or, when the optimizer's package is there, whatever it proposes less what
\* is rejected, which may repeat a candidate or miss them all.
Variants(space, constraints, method, most) ==
  LET found == GridCandidates(space, constraints)
      proposals == UNION {[1..k -> ToSet(found)] : k \in 0..most}
  IN  CASE method = "grid"     -> {FirstOf(Unique(found), most)}
        [] method = "random"   -> {p \in [DOMAIN FirstOf(Unique(found), most) -> ToSet(found)] :
                                     IsInjective(p)}
        [] method = "spread"   -> {FirstOf(Unique(DiverseCandidates(found, most)), most)}
        [] method = "bayesian" -> {FirstOf(Unique(p), most) : p \in proposals}

-----------------------------------------------------------------------------
(* The plan of a campaign *)

\* the variants of its budget, at most one for each experiment
PlannedVariants(budget) ==
  IF budget.trials < budget.experiments THEN budget.trials ELSE budget.experiments

\* symbol by symbol, all variants of each, until the experiments are used up
PlanCampaign(symbols, variants, budget) ==
  LET n == Len(variants)
      all == [k \in 1..(Len(symbols) * n) |->
                [symbol |-> symbols[((k - 1) \div n) + 1], parameters |-> variants[((k - 1) % n) + 1]]]
  IN  FirstOf(all, budget.experiments)
=============================================================================
