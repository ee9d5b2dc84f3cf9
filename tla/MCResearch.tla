------------------------------ MODULE MCResearch ------------------------------
(* An instance of the research desk for TLC. *)
EXTENDS ResearchProperties

-----------------------------------------------------------------------------
\* campaigns of 4 to 14 days, with the default split and with some of their own
MCSplits ==
  LET Own == {[train |-> Period(a, b), validation |-> Period(b + 1, c), test |-> Period(c, d)] :
                a \in 0..1, b \in {2, 5}, c \in {5, 10}, d \in {9, 12}}
  IN  [start : {1}, end : 5..15, given : {None} \cup Own, longWindow : 2..4]

\* up to three releases of three times, known then or later
MCReleases ==
  LET Release == {r \in [of : 1..3, available : 1..4] : r.available >= r.of}
  IN  [releases : {s \in SUBSET Release : Cardinality(s) <= 3}, target : 1..4,
       policy : [past : BOOLEAN, fill : BOOLEAN, stale : 0..1]]

\* the registered family, and a strategy with two conditions, a filter and an exit that nests others
MCSpecs ==
  {MovingAverageCrossover(p[1], p[2]) : p \in {q \in (1..3) \X (2..3) : ValidParameters(q[1], q[2])}}
  \cup
  {[indicators |-> [n \in {"a", "b", "c"} |-> IF n = "a" THEN 2 ELSE IF n = "b" THEN 3 ELSE 4],
    entry |-> [type |-> "all", conditions |-> <<Comparison("a", "gte", "b"), Comparison("b", "gt", "c")>>],
    exit  |-> [type |-> "any", conditions |-> <<Comparison("a", "lt", "c"),
                  [type |-> "all", conditions |-> <<Comparison("b", "lte", "c"), Comparison("a", "lt", "b")>>]>>],
    filters |-> <<Comparison("a", "gt", "c")>>, maxIndicators |-> 3, maxComplexity |-> 15],
   \* refused: the crossover of a slow average over a fast one
   [MovingAverageCrossover(2, 3) EXCEPT !.indicators = [n \in {"fast_ma", "slow_ma"} |-> 3]]}

\* what trades cost: a little, all that a sale brings, and more than that, of one or of both
MCCosts ==
  {[fee |-> r[1], slippage |-> r[2], residue |-> bars] :
     r \in {<<1, 1>>, <<100, 1>>, <<1, 150>>, <<150, 150>>}, bars \in {{}, 3..4, 1..7}}

MCSignals == [spec : MCSpecs, bars : [1..5 -> 1..3] \cup [1..7 -> 1..2], costs : MCCosts]

\* two strategies with returns on most of six days, two days a month
MCPortfolios ==
  LET Some == {1..6, 1..6 \ {2}, {2, 3, 4, 6}}
      Months(aligned) == [i \in 1..Len(aligned) |-> (aligned[i] + 1) \div 2]
  IN  {[dates |-> Months(AlignedDates(<<[d \in s |-> 0], [d \in o |-> 0]>>)), lookback |-> lookback,
        dynamic |-> dynamic, allowed |-> allowed, turns |-> turns] :
         s \in Some, o \in Some, lookback \in 1..3, dynamic \in BOOLEAN, allowed \in BOOLEAN,
         turns \in SUBSET {2, 3, 4, 5}}

MCRegimes == [bars : UNION {[1..n -> 1..2] : n \in 0..6}, lookback : 2..3]

\* two windows, one of them by steps, with and without a rule of the request
MCSearches ==
  LET Windows == <<[name |-> "short_window", values |-> <<1, 2, 2>>],
                   [name |-> "long_window", values |-> Stepped(2, 4, 1)]>>
      Repeated == <<[name |-> "exit", values |-> <<1, 2, 3, 3, 3, 3>>]>>
      Rule == [left |-> "long_window", operator |-> "<=", right |-> "short_window"]
  IN  [space : {Windows, Tail(Windows), Repeated}, constraints : {{}, {Rule}},
       method : {"grid", "random", "spread", "bayesian"}, symbols : {<<"X">>, <<"X", "Y">>, <<"X", "X">>},
       budget : [experiments : {1, 2, 4}, trials : 1..3]]

MCFactors == [prices : [1..5 -> 0..2], lookback : 1..3]

\* two factors over three assets of two sectors
MCWeights ==
  LET Factors == {<<f, g>> : f \in [1..3 -> {1, 2, NoScore}], g \in [1..3 -> {1, 3}]} \cup
                 {<<f>> : f \in [1..4 -> {1, 2, NoScore}]}
      Asking  == [factors : Factors, weights : {<<1>>, <<1, 1>>, <<2, 1>>, <<1, -1>>},
                  selection : [kind : {"top_n"}, top : 1..2, quantile : {[num |-> 1, den |-> 2]},
                               neutral : BOOLEAN] \cup
                              [kind : {"top_bottom_quantile"}, top : {1}, neutral : BOOLEAN,
                               quantile : {[num |-> 1, den |-> 3], [num |-> 1, den |-> 2],
                                           [num |-> 1, den |-> 5]}],
                  sector : {[a \in 1..4 |-> a % 2]}, quantiles : 2..3]
  IN  {q \in Asking : Len(q.weights) = Len(q.factors)}

\* three models of one or two cents and more, with up to two results of each at a task
MCRouting ==
  LET Model(id, cost, enabled, structured, fallbacks) ==
        [id |-> id, cost |-> cost, enabled |-> enabled, types |-> {"critique"},
         structured |-> structured, tools |-> id # 1, fallbacks |-> fallbacks]
      Registries == {<<Model(1, 1, one, TRUE, <<2, 3>>), Model(2, 4, two, TRUE, <<1>>),
                       Model(3, 4, TRUE, three, << >>)>> : one \in BOOLEAN, two \in BOOLEAN, three \in BOOLEAN}
      Result(id, success, latency) ==
        [model |-> id, type |-> "critique", success |-> success, structured |-> TRUE, latency |-> latency]
  IN  [registry : Registries,
       results : {<< >>, <<Result(3, TRUE, 90)>>,
                  <<Result(1, TRUE, 20), Result(1, FALSE, 10), Result(2, TRUE, 30), Result(3, TRUE, 30)>>},
       request : [type : {"critique"}, policy : {"fast", "high_quality"}, structured : BOOLEAN,
                  tools : BOOLEAN, critical : BOOLEAN, maxCost : {NoModel, 3},
                  remaining : {NoModel, 2}, calls : {NoModel, 0}],
       outcome : {[m \in 1..3 |-> IF m = 3 THEN "retryable" ELSE o[m]] : o \in [1..2 -> Outcomes]}]

\* paths of up to four days with any trades, and every sample of one of each length
MCStress ==
  LET Scenarios == {[type |-> "slippage", bps |-> 1], [type |-> "delayed_execution", bars |-> 1, bps |-> 2],
                    [type |-> "volatility"], [type |-> "return_shift", bps |-> -1]}
      Paths(n) == [returns : [1..n -> {-2, 0, 2, 4}], trades : SUBSET (1..n), scenario : Scenarios,
                   size : {1}, starts : {[b \in 1..n |-> b]}]
      Samples(n) == UNION {[returns : {[d \in 1..n |-> 0]}, trades : {{}}, scenario : {[type |-> "volatility"]},
                            size : {k}, starts : [1..BlockCount(n, k) -> 1..n]] : k \in 1..n}
  IN  UNION {Paths(n) : n \in 2..4} \cup UNION {Samples(n) : n \in 2..5}

MCQuestions ==
  [splits |-> MCSplits, releases |-> MCReleases, signals |-> MCSignals, portfolio |-> MCPortfolios,
   regimes |-> MCRegimes, search |-> MCSearches, factor |-> MCFactors, weights |-> MCWeights,
   routing |-> MCRouting, stress |-> MCStress]

-----------------------------------------------------------------------------
\* an evolution of three strategies, two of them given, over three generations
MCInitial == <<[short |-> 2, long |-> 4, scaled |-> FALSE], [short |-> 3, long |-> 5, scaled |-> FALSE]>>

\* all four regimes met without a loss, or a loss when markets go sideways
MCPerformances ==
  LET Regime == [trend : {"up", "sideways"}, volatility : {"low", "high"}]
  IN  {[r \in Regime |-> 5], [r \in Regime |-> IF r.trend = "sideways" THEN -5 ELSE 5]}

-----------------------------------------------------------------------------
\* simulations of up to six days, with up to two candidates beside the base version or of it
MCRequests ==
  LET Candidate == [version : {2, 3}, sharpe : -1..1, promoted : {TRUE}, asOf : {0, 3}] \cup
                   [version : {2}, sharpe : {2}, promoted : {FALSE}, asOf : {0}]
      Manifests == {{}} \cup {{c} : c \in Candidate} \cup
                   {{c, d} : c \in {e \in Candidate : e.version = 2}, d \in {e \in Candidate : e.version = 3}} \cup
                   \* the base version listed again, expected to do better from a later date
                   {{[version |-> 2, sharpe |-> 1, promoted |-> TRUE, asOf |-> 3],
                     [version |-> 1, sharpe |-> 2, promoted |-> TRUE, asOf |-> at]} : at \in {3, 5}}
  IN  {[start |-> 1, end |-> 6, research |-> research, deployment |-> deployment,
        cadence |-> cadence, stop |-> stop, candidates |-> manifest] :
         research \in 1..2, deployment \in 1..2, cadence \in 1..2, stop \in BOOLEAN,
         manifest \in Manifests}

-----------------------------------------------------------------------------
\* two versions of the workflow, one dearer and bad at a task, and a memory that misses a leak
MCComponent == [w \in {"w1", "w2", "v1"} |-> IF w = "v1" THEN "memory" ELSE "workflow"]

MCOverridden ==
  [w \in {"w1", "w2", "v1"} |->
     CASE w = "w2" -> {<<"mean_reversion_strategy", "strategy">>}
       [] w = "v1" -> {<<"lookahead_bias", "reject">>}
       [] OTHER    -> {}]

MCPrice == [w \in {"w1", "w2", "v1"} |-> IF w = "w2" THEN 5 ELSE 4]

\* the default rules, but for one task that may be lost
MCRules == {[delta |-> -1, cost |-> 25, critical |-> TRUE]}

-----------------------------------------------------------------------------
\* five contents of one or three bytes, one of them sent as two types
MCDocuments ==
  {[content |-> c, type |-> "text", size |-> IF c > 3 THEN 3 ELSE 1] : c \in 1..5} \cup
  {[content |-> 3, type |-> "csv", size |-> 1]}
=============================================================================
