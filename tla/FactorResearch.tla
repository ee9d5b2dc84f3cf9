---------------------------- MODULE FactorResearch ----------------------------
(***************************************************************************)
(* Cross-sectional factor research (app/factor_research): scores from      *)
(* trailing prices, ranks within one date, and the weights of the selected *)
(* assets.  A cross section is a function from assets to scores, NoScore   *)
(* where there is none; assets are integers in the order of their ids.     *)
(* Weights of an equal-weight portfolio are counted in shares of the       *)
(* number of positions, so that they are whole.                            *)
(***************************************************************************)
EXTENDS Integers, FiniteSets, Sequences

CONSTANT NoScore   \* an asset without a score on the date

ASSUME NoScoreAssumption == NoScore \notin Int

\* the prices a factor of bar t is made of
TrailingWindow(prices, lookback, t) == SubSeq(prices, t - lookback, t)

\* A bar has a score when there is a price lookback bars before it, and both are positive.
\* (The code's index is t - 1.)
PriceFactor(prices, lookback) ==
  [t \in {u \in 1..Len(prices) : u > lookback /\ prices[u] > 0 /\ prices[u - lookback] > 0} |->
     TrailingWindow(prices, lookback, t)]

-----------------------------------------------------------------------------
(* Ranks *)

Scored(section) == {a \in DOMAIN section : section[a] # NoScore}

Outranks(section, a, b) ==
  section[a] > section[b] \/ (section[a] = section[b] /\ a < b)

\* The assets with a score, from best to worst, and by id among equals: at each rank the one
\* with so many before it.
RankScores(section) ==
  LET scored == Scored(section)
  IN  [rank \in 1..Cardinality(scored) |->
         CHOOSE a \in scored : Cardinality({b \in scored : Outranks(section, b, a)}) = rank - 1]

Total(values) ==
  LET upTo[i \in 0..Len(values)] == IF i = 0 THEN 0 ELSE upTo[i - 1] + values[i]
  IN  upTo[Len(values)]

\* The composite of several factors: the assets all of them score, by the weighted sum (the
\* common denominator changes no rank).
CombineScores(factors, weights) ==
  LET all == {a \in UNION {DOMAIN factors[f] : f \in DOMAIN factors} :
                \A f \in DOMAIN factors : a \in DOMAIN factors[f] /\ factors[f][a] # NoScore}
  IN  [a \in all |-> Total([f \in 1..Len(factors) |-> factors[f][a] * weights[f]])]

-----------------------------------------------------------------------------
(* Weights *)

CeilingOf(n, d) == (n + d - 1) \div d

\* The faulty BucketSize of a mutant: it may be empty.
BucketTruncated(count, quantile) == (count * quantile.num) \div quantile.den

\* the number of assets in a quantile, at least one
BucketSize(count, quantile) ==
  LET n == CeilingOf(count * quantile.num, quantile.den) IN IF n > 1 THEN n ELSE 1

Position(asset, weight) == [asset |-> asset, weight |-> weight]

\* Long the first, or long the first bucket and short the last.  The buckets of few assets
\* may overlap: such an asset has both positions.
Selected(ranked, selection) ==
  LET count == Len(ranked)
      most == IF selection.top < count THEN selection.top ELSE count
      n == BucketSize(count, selection.quantile)
  IN  IF selection.kind = "top_n"
        THEN [i \in 1..most |-> Position(ranked[i], 1)]
        ELSE [i \in 1..(2 * n) |-> IF i <= n THEN Position(ranked[i], 1)
                                  ELSE Position(ranked[count - 2 * n + i], -1)]

\* the sum of the weights at some places
SumAt(positions, places) ==
  Total([i \in 1..Len(positions) |-> IF i \in places THEN positions[i].weight ELSE 0])

SumOf(positions) == SumAt(positions, DOMAIN positions)

\* Sector neutralization takes from each position the mean of its sector; the weights are
\* multiplied by the number of positions of the sector.
NeutralizeSectors(positions, sector) ==
  LET Peers(i) == {j \in DOMAIN positions : sector[positions[j].asset] = sector[positions[i].asset]}
  IN  [i \in 1..Len(positions) |->
         Position(positions[i].asset,
                  positions[i].weight * Cardinality(Peers(i)) - SumAt(positions, Peers(i)))]

ConstructWeights(section, selection, sector) ==
  LET ranked == RankScores(section)
      chosen == Selected(ranked, selection)
  IN  IF ranked = << >> THEN << >>
      ELSE IF selection.neutral THEN NeutralizeSectors(chosen, sector) ELSE chosen

\* the quantile of each observed rank, for the returns by quantile: 1 is the best
QuantileOf(index, observed, quantiles) ==
  LET q == ((index - 1) * quantiles) \div observed + 1 IN IF q < quantiles THEN q ELSE quantiles
=============================================================================
