---------------------------- MODULE AnswerProofs ----------------------------
(***************************************************************************)
(* The answers of the research desk, for every series, split and strategy: *)
(* what they compute, shown from the recursive functions that compute it.  *)
(*                                                                         *)
(* No answer looks ahead: a value computed for a bar is the same when the  *)
(* bars after it are not there.                                            *)
(*                                                                         *)
(* Series are cut: the trades of a backtest and the runs of a regime cover *)
(* their bars in turns, one starting where the one before it ends.         *)
(*                                                                         *)
(* A model is the best of those a request may have, within its budget; a   *)
(* search and its plan keep to their candidates and their budgets.         *)
(***************************************************************************)
EXTENDS ResearchProofs

-----------------------------------------------------------------------------
(* Induction over the positions of a series, and the functions defined by  *)
(* recursion over them: each is the only one of its equation.              *)

LEMMA Induct ==
  ASSUME NEW n \in Nat, NEW T, 0 \in T, \A t \in 1..n : t - 1 \in T => t \in T
  PROVE  \A t \in 0..n : t \in T
<1> DEFINE wrong == {t \in 0..n : t \notin T}
<1> SUFFICES ASSUME wrong # {}
             PROVE  FALSE
  OBVIOUS
<1>1. wrong \in SUBSET Nat
  OBVIOUS
<1>2. PICK t \in wrong : \A m \in wrong : t <= m
  BY ONLY <1>1, wrong # {}, LeastNumber
<1>3. t \in 1..n /\ t \notin T
  OBVIOUS
<1>4. t - 1 \notin wrong
  BY <1>2, <1>3
<1>5. t - 1 \in 0..n
  BY <1>3
<1> QED
  BY <1>3, <1>4, <1>5

Iterated(g, n, S, base, step) ==
  g \in [0..n -> S] /\ g[0] = base /\ \A t \in 1..n : g[t] = step[t][g[t - 1]]

LEMMA Iterates ==
  ASSUME NEW n \in Nat, NEW S, NEW base \in S, NEW step \in [1..n -> [S -> S]]
  PROVE  \E g : Iterated(g, n, S, base, step)
<1> DEFINE Good(g, m) ==
             g \in [0..m -> S] /\ g[0] = base /\ \A t \in 1..m : g[t] = step[t][g[t - 1]]
           T == {m \in 0..n : \E g : Good(g, m)}
<1>1. 0 \in T
  <2> DEFINE g == [t \in 0..0 |-> base]
  <2>1. g \in [0..0 -> S] /\ g[0] = base /\ \A t \in 1..0 : g[t] = step[t][g[t - 1]]
    OBVIOUS
  <2>2. Good(g, 0)
    BY <2>1
  <2> HIDE DEF g, Good
  <2> QED
    BY <2>2
<1>2. ASSUME NEW m \in 1..n, m - 1 \in T
      PROVE  m \in T
  <2>1. PICK g : Good(g, m - 1)
    BY <1>2
  <2> DEFINE value == step[m][g[m - 1]]
             h == [t \in 0..m |-> IF t = m THEN value ELSE g[t]]
  <2>2. m - 1 \in 0..(m - 1) /\ 0..m = (0..(m - 1)) \cup {m} /\ m \notin 0..(m - 1) /\ m # 0
        /\ 1..m = (1..(m - 1)) \cup {m}
    OBVIOUS
  <2>3. g \in [0..(m - 1) -> S] /\ g[0] = base /\ \A t \in 1..(m - 1) : g[t] = step[t][g[t - 1]]
    BY <2>1
  <2>4. value \in S
    BY <2>2, <2>3
  <2>5. \A t \in 1..m : t - 1 \in 0..(m - 1) /\ t - 1 # m
    OBVIOUS
  <2>6. \A t \in 0..(m - 1) : h[t] = g[t]
    BY <2>2
  <2>7. h[m] = value
    OBVIOUS
  <2>8. h \in [0..m -> S]
    BY <2>2, <2>3, <2>4
  <2> HIDE DEF h
  <2>9. h[0] = base
    BY <2>3, <2>6
  <2>10. \A t \in 1..m : h[t] = step[t][h[t - 1]]
    <3> SUFFICES ASSUME NEW t \in 1..m
                 PROVE  h[t] = step[t][h[t - 1]]
      OBVIOUS
    <3>1. h[t - 1] = g[t - 1]
      BY <2>5, <2>6
    <3>2. CASE t = m
      BY <2>7, <3>1, <3>2
    <3>3. CASE t # m
      <4>1. t \in 1..(m - 1) /\ t \in 0..(m - 1)
        BY <3>3
      <4> QED
        BY <2>3, <2>6, <3>1, <4>1
    <3> QED
      BY <3>2, <3>3
  <2>11. Good(h, m)
    BY <2>8, <2>9, <2>10
  <2>12. m \in 0..n
    OBVIOUS
  <2> HIDE DEF Good
  <2> QED
    BY <2>11, <2>12
<1>3. \A m \in 0..n : m \in T
  <2> HIDE DEF T
  <2> QED
    BY ONLY n \in Nat, <1>1, <1>2, Induct
<1>4. n \in T
  BY <1>3
<1>5. PICK g : Good(g, n)
  BY <1>4
<1> QED
  BY <1>5 DEF Iterated

LEMMA Divided ==
  ASSUME NEW b \in Nat \ {0}, NEW a \in Nat
  PROVE  /\ a = b * (a \div b) + (a % b) /\ a % b \in 0..(b - 1) /\ a \div b \in Nat
OBVIOUS

LEMMA Quotient ==
  ASSUME NEW b \in Nat \ {0}, NEW a \in Nat, NEW q \in Nat, NEW r \in 0..(b - 1), a = b * q + r
  PROVE  a \div b = q /\ a % b = r
<1> DEFINE p == a \div b
           s == a % b
<1>1. a = b * p + s /\ s \in 0..(b - 1) /\ p \in Nat
  BY Divided
<1> HIDE DEF p, s
<1>2. CASE p < q
  <2>1. b * (p + 1) <= b * q
    BY <1>1, <1>2
  <2>2. b * (p + 1) = b * p + b
    BY <1>1
  <2> QED
    BY <1>1, <2>1, <2>2
<1>3. CASE p > q
  <2>1. b * (q + 1) <= b * p
    BY <1>1, <1>3
  <2>2. b * (q + 1) = b * q + b
    BY <1>1
  <2> QED
    BY <1>1, <2>1, <2>2
<1>4. CASE p = q
  BY <1>1, <1>4 DEF p, s
<1> QED
  BY <1>1, <1>2, <1>3, <1>4
-----------------------------------------------------------------------------
(* An answer is what its question comes to *)

AnswersAreComputed ==
  /\ Asked("releases") =>
       /\ question \in Questions["releases"]
       /\ answer = AlignAsOf(question.releases, question.target, question.policy)
  /\ Asked("signals") =>
       /\ question \in Questions["signals"] /\ ValidStrategy(question.spec)
       /\ LET positions == EvaluatePositions(question.spec, question.bars)
          IN  answer = [positions |-> positions, account |-> RunBacktest(positions, question.costs)]
  /\ Asked("portfolio") =>
       question \in Questions["portfolio"] /\ answer = ConstructPortfolio(question)
  /\ Asked("regimes") =>
       /\ question \in Questions["regimes"]
       /\ answer = [labels |-> ClassifyRegimes(question.bars, question.lookback),
                    runs |-> SummarizeTransitions(question.bars)]
  /\ Asked("factor") =>
       question \in Questions["factor"] /\ answer = PriceFactor(question.prices, question.lookback)
  /\ Asked("stress") =>
       /\ question \in Questions["stress"]
       /\ answer = [path |-> ApplyScenario(question.returns, question.trades, question.scenario),
                    sample |-> BootstrapDays(Len(question.returns), question.size, question.starts),
                    top |-> TopDay(question.returns)]
  /\ Asked("search") =>
       /\ question \in Questions["search"]
       /\ \E variants \in Variants(question.space, question.constraints, question.method,
                                   PlannedVariants(question.budget)) :
            answer = [variants |-> variants,
                      plan |-> PlanCampaign(question.symbols, variants, question.budget)]
  /\ Asked("weights") =>
       /\ question \in Questions["weights"]
       /\ LET section == CombineScores(question.factors, question.weights)
          IN  answer = [ranked  |-> RankScores(section),
                        weights |-> ConstructWeights(section, question.selection, question.sector),
                        quantiles |-> LET n == Len(RankScores(section))
                                      IN  [i \in 1..n |-> QuantileOf(i, n, question.quantiles)]]
  /\ Asked("routing") =>
       /\ question \in Questions["routing"]
       /\ LET decision == SelectModel(question.registry, question.request, question.results)
          IN  answer = [decision |-> decision,
                        run |-> IF decision.model = NoModel THEN None
                                ELSE RunChain(Chain(decision.model), question.outcome)]

LEMMA AnswersInductive == Spec => []AnswersAreComputed
<1>1. Init => AnswersAreComputed
  BY DEF Init, AnswersAreComputed, Asked
<1>2. AnswersAreComputed /\ [Next]_deskVars => AnswersAreComputed'
  <2> SUFFICES ASSUME AnswersAreComputed, [Next]_deskVars
               PROVE  AnswersAreComputed'
    OBVIOUS
  <2>1. CASE UNCHANGED <<topic, question, answer>>
    BY <2>1 DEF AnswersAreComputed, Asked
  <2>2. CASE AskReleases
    BY <2>2 DEF AskReleases, Asks, Answered, AnswersAreComputed, Asked
  <2>3. CASE AskSignals
    BY <2>3 DEF AskSignals, Asks, Answered, AnswersAreComputed, Asked
  <2>4. CASE AskPortfolio
    BY <2>4 DEF AskPortfolio, Asks, Answered, AnswersAreComputed, Asked
  <2>5. CASE AskRegimes
    BY <2>5 DEF AskRegimes, Asks, Answered, AnswersAreComputed, Asked
  <2>6. CASE AskFactor
    BY <2>6 DEF AskFactor, Asks, Answered, AnswersAreComputed, Asked
  <2>7. CASE AskStress
    BY <2>7 DEF AskStress, Asks, Answered, AnswersAreComputed, Asked
  <2>8. CASE topic = "splits" /\ topic' = topic
    BY <2>8 DEF AnswersAreComputed, Asked
  <2>9. CASE AskSearch
    BY <2>9 DEF AskSearch, Asks, Answered, AnswersAreComputed, Asked
  <2>10. CASE AskWeights
    BY <2>10 DEF AskWeights, Asks, Answered, AnswersAreComputed, Asked
  <2>11. CASE AskRouting
    BY <2>11 DEF AskRouting, Asks, Answered, AnswersAreComputed, Asked
  <2>12. \/ UNCHANGED <<topic, question, answer>>
         \/ AskReleases \/ AskSignals \/ AskPortfolio \/ AskRegimes \/ AskFactor \/ AskStress
         \/ AskSearch \/ AskWeights \/ AskRouting
         \/ topic = "splits" /\ topic' = topic
    <3>1. CASE UNCHANGED deskVars
      BY <3>1 DEF deskVars
    <3>2. CASE Next
      <4>1. AskSplits => topic = "splits" /\ topic' = topic
        BY DEF AskSplits, Asks, Answered
      <4>2. Evolve \/ Simulation \/ Promote \/ Research => UNCHANGED <<topic, question, answer>>
        BY DEF Evolve, Simulation, Promote, Research
      <4> QED
        BY <3>2, <4>1, <4>2 DEF Next
    <3> QED
      BY <3>1, <3>2
  <2> QED
    BY <2>1, <2>2, <2>3, <2>4, <2>5, <2>6, <2>7, <2>8, <2>9, <2>10, <2>11, <2>12
<1> QED
  BY <1>1, <1>2, PTL DEF Spec

-----------------------------------------------------------------------------
(* Releases: the ones found are those available by then, whatever comes later *)

LEMMA LatestIsKnown ==
  ASSUME NEW known, IsFiniteSet(known), known # {},
         \A r \in known : r.of \in Int /\ r.available \in Int
  PROVE  Latest(known) \in known
<1> DEFINE R == {p \in known \X known :
                   p[2].of < p[1].of \/ (p[2].of = p[1].of /\ p[2].available < p[1].available)}
<1>1. \A a, b \in known : <<a, b>> \in R <=>
        b.of < a.of \/ (b.of = a.of /\ b.available < a.available)
  OBVIOUS
<1> HIDE DEF R
<1>2. PICK m \in known : \A o \in known : <<o, m>> \notin R
  <2>1. \A a \in known : <<a, a>> \notin R
    BY <1>1
  <2>2. \A a, b, c \in known : <<a, b>> \in R /\ <<b, c>> \in R => <<a, c>> \in R
    BY <1>1
  <2> QED
    BY ONLY IsFiniteSet(known), known # {}, <2>1, <2>2, Unexceeded
<1>3. \A o \in known : o.of < m.of \/ (o.of = m.of /\ o.available <= m.available)
  <2> SUFFICES ASSUME NEW o \in known
               PROVE  o.of < m.of \/ (o.of = m.of /\ o.available <= m.available)
    OBVIOUS
  <2>1. ~(m.of < o.of \/ (m.of = o.of /\ m.available < o.available))
    BY <1>1, <1>2
  <2>2. o.of \in Int /\ o.available \in Int /\ m.of \in Int /\ m.available \in Int
    OBVIOUS
  <2> QED
    BY ONLY <2>1, <2>2
<1> QED
  BY <1>3 DEF Latest

LEMMA FoundInTime == AnswersAreComputed => ReleasesInTime
<1> SUFFICES ASSUME AnswersAreComputed, Asked("releases")
             PROVE  ReleasesInTime
  BY DEF ReleasesInTime
<1> DEFINE q == question
           available == {r \in q.releases : r.available <= q.target}
           known == KnownReleases(q.releases, q.target, q.policy)
<1>1. q \in Questions["releases"] /\ answer = AlignAsOf(q.releases, q.target, q.policy)
  BY DEF AnswersAreComputed
<1>2. IsFiniteSet(q.releases) /\ q.target \in Int /\ q.policy.stale \in Int
      /\ \A r \in q.releases : r.of \in Int /\ r.available \in Int
  BY <1>1, ReleasesAssumption
<1>3. KnownReleases(available, q.target, q.policy) = known
  BY DEF KnownReleases
<1>4. answer = AlignAsOf(available, q.target, q.policy)
  BY <1>1, <1>3 DEF AlignAsOf
<1>5. IsFiniteSet(known) /\ \A r \in known : r.of \in Int /\ r.available \in Int /\ r.available <= q.target
  BY <1>2, FS_Subset DEF KnownReleases
<1>6. CASE known = {}
  BY <1>1, <1>4, <1>6 DEF AlignAsOf, ReleasesInTime
<1>7. CASE known # {}
  <2> DEFINE latest == Latest(known)
  <2>1. latest \in known
    BY <1>5, <1>7, LatestIsKnown
  <2> HIDE DEF latest
  <2>2. answer = IF ~q.policy.fill /\ latest.of # q.target THEN [status |-> "missing", release |-> None]
                 ELSE [status  |-> IF q.policy.stale > 0 /\ q.target - latest.of > q.policy.stale
                                     THEN "stale" ELSE "available",
                       release |-> latest]
    BY <1>1, <1>7 DEF AlignAsOf, latest
  <2>3. latest.of \in Int /\ latest.available <= q.target
    BY <1>5, <2>1
  <2>4. answer.release # None => answer.release.available <= q.target
    BY <2>2, <2>3
  <2>5. answer.status = "available" /\ q.policy.stale > 0 => q.target - answer.release.of <= q.policy.stale
    BY <1>2, <2>2, <2>3
  <2> QED
    BY <1>4, <2>4, <2>5 DEF ReleasesInTime
<1> QED
  BY <1>6, <1>7
-----------------------------------------------------------------------------
(* Scores and regimes: what a bar sees of a prefix is what it sees of the series *)

LEMMA PrefixSees ==
  ASSUME NEW S, NEW series \in Seq(S), NEW t \in 1..Len(series)
  PROVE  /\ SubSeq(series, 1, t) \in Seq(S) /\ Len(SubSeq(series, 1, t)) = t
         /\ \A i \in 1..t : SubSeq(series, 1, t)[i] = series[i]
         /\ \A i \in Nat \ {0} : SubSeq(SubSeq(series, 1, t), i, t) = SubSeq(series, i, t)
<1> DEFINE seen == SubSeq(series, 1, t)
<1>1. seen \in Seq(S) /\ Len(seen) = t /\ \A i \in 1..t : seen[i] = series[i]
  BY SubSeqProperties
<1>2. ASSUME NEW i \in Nat \ {0}
      PROVE  SubSeq(seen, i, t) = SubSeq(series, i, t)
  <2> HIDE DEF seen
  <2> QED
    BY <1>1
<1> QED
  BY <1>1, <1>2

LEMMA ScoredInTime == AnswersAreComputed => ScoresInTime
<1> SUFFICES ASSUME AnswersAreComputed, Asked("factor"), NEW t \in DOMAIN answer
             PROVE  LET before == PriceFactor(SubSeq(question.prices, 1, t), question.lookback)
                    IN  t \in DOMAIN before /\ before[t] = answer[t]
  BY DEF ScoresInTime
<1> DEFINE q == question
           seen == SubSeq(q.prices, 1, t)
           before == PriceFactor(seen, q.lookback)
<1>1. answer = PriceFactor(q.prices, q.lookback) /\ q.prices \in Seq(Int) /\ q.lookback \in Nat
  BY SeriesAssumption DEF AnswersAreComputed
<1>2. t \in 1..Len(q.prices) /\ t > q.lookback /\ q.prices[t] > 0 /\ q.prices[t - q.lookback] > 0
      /\ answer[t] = TrailingWindow(q.prices, q.lookback, t)
  BY <1>1 DEF PriceFactor
<1>3. /\ Len(seen) = t /\ \A i \in 1..t : seen[i] = q.prices[i]
      /\ \A i \in Nat \ {0} : SubSeq(seen, i, t) = SubSeq(q.prices, i, t)
  BY <1>1, <1>2, PrefixSees
<1> HIDE DEF seen
<1>4. t \in 1..t /\ t - q.lookback \in 1..t
  BY <1>1, <1>2
<1>5. t \in 1..Len(seen) /\ seen[t] > 0 /\ seen[t - q.lookback] > 0
  BY <1>1, <1>2, <1>3, <1>4
<1>6. t \in DOMAIN before /\ before[t] = TrailingWindow(seen, q.lookback, t)
  BY <1>2, <1>5 DEF PriceFactor
<1>7. TrailingWindow(seen, q.lookback, t) = TrailingWindow(q.prices, q.lookback, t)
  <2>1. t - q.lookback \in Nat \ {0}
    BY <1>1, <1>2
  <2> QED
    BY <1>3, <2>1 DEF TrailingWindow
<1> QED
  BY <1>2, <1>6, <1>7 DEF seen

LEMMA LabelledInTime == AnswersAreComputed => RegimesInTime
<1> SUFFICES ASSUME AnswersAreComputed, Asked("regimes"), NEW t \in DOMAIN question.bars
             PROVE  ClassifyRegimes(SubSeq(question.bars, 1, t), question.lookback)[t]
                      = answer.labels[t]
  BY DEF RegimesInTime
<1> DEFINE q == question
           seen == SubSeq(q.bars, 1, t)
           first == IF t > q.lookback THEN t - q.lookback + 1 ELSE 1
<1>1. /\ answer.labels = ClassifyRegimes(q.bars, q.lookback)
      /\ q.bars \in Seq(ToSet(q.bars)) /\ q.lookback \in Nat \ {0}
  BY SeriesAssumption DEF AnswersAreComputed
<1>2. t \in 1..Len(q.bars)
  BY <1>1
<1>3. Len(seen) = t /\ \A i \in Nat \ {0} : SubSeq(seen, i, t) = SubSeq(q.bars, i, t)
  BY <1>1, <1>2, PrefixSees
<1>4. first \in Nat \ {0} /\ t \in 1..t
  BY <1>1, <1>2
<1>5. SubSeq(seen, first, t) = SubSeq(q.bars, first, t)
  BY <1>3, <1>4
<1> HIDE DEF seen
<1>6. ClassifyRegimes(seen, q.lookback)[t] = SubSeq(seen, first, t)
  BY <1>3, <1>4 DEF ClassifyRegimes, Lookback
<1>7. ClassifyRegimes(q.bars, q.lookback)[t] = SubSeq(q.bars, first, t)
  BY <1>2 DEF ClassifyRegimes, Lookback
<1> QED
  BY <1>1, <1>5, <1>6, <1>7 DEF seen

-----------------------------------------------------------------------------
(* Weights: a rebalance sets them from the periods before it, and they are held until the next *)

Start(definition) == [weights |-> BaseWeights(definition), outcome |-> "none", at |-> 0]

Rebalance(definition, i, before) ==
  IF ~(ShouldRebalance(definition, i) /\ i > definition.lookback)
    THEN [before EXCEPT !.outcome = "none"]
  ELSE IF definition.dynamic /\ i \in definition.turns
    THEN [before EXCEPT !.outcome = "rejected"]
  ELSE [weights |-> DynamicWeights(definition, i, before.weights),
        outcome |-> "rebalanced", at |-> i]

IsHeld(definition, held) ==
  held = [i \in 0..Len(definition.dates) |->
            IF i = 0 THEN Start(definition) ELSE Rebalance(definition, i, held[i - 1])]

Holding == [weights : SUBSET Int, outcome : {"none", "rejected", "rebalanced"}, at : Nat]

LEMMA RebalanceHolds ==
  ASSUME NEW d, d.lookback \in Nat, NEW i \in Nat, NEW before \in Holding
  PROVE  Rebalance(d, i, before) \in Holding
<1>1. DynamicWeights(d, i, before.weights) \in SUBSET Int
  BY DEF DynamicWeights, Holding
<1> QED
  BY <1>1 DEF Holding, Rebalance

LEMMA HoldsSomething ==
  ASSUME NEW d, d.dates \in Seq(Int), d.lookback \in Nat
  PROVE  /\ Simulate(d) \in [0..Len(d.dates) -> Holding] /\ Simulate(d)[0] = Start(d)
         /\ \A i \in 1..Len(d.dates) : Simulate(d)[i] = Rebalance(d, i, Simulate(d)[i - 1])
<1> DEFINE n == Len(d.dates)
           step == [i \in 1..n |-> [before \in Holding |-> Rebalance(d, i, before)]]
           h == Simulate(d)
           T == {i \in 0..n : h[i] \in Holding}
<1>1. n \in Nat
  OBVIOUS
<1>2. Start(d) \in Holding
  BY DEF BaseWeights, Holding, Start
<1>3. step \in [1..n -> [Holding -> Holding]]
  BY RebalanceHolds
<1>4. PICK g : Iterated(g, n, Holding, Start(d), step)
  <2> HIDE DEF step, n
  <2> QED
    BY <1>1, <1>2, <1>3, Iterates
<1>5. \A i \in 1..n : i - 1 \in 0..n /\ i \in 0..n /\ i # 0
  OBVIOUS
<1>6. \A i \in 1..n : g[i] = Rebalance(d, i, g[i - 1])
  BY <1>4, <1>5 DEF Iterated
<1>7. IsHeld(d, g)
  <2>1. \A i \in 0..n : g[i] = IF i = 0 THEN Start(d) ELSE Rebalance(d, i, g[i - 1])
    BY <1>4, <1>6 DEF Iterated
  <2>2. g = [i \in 0..n |-> g[i]]
    BY <1>4 DEF Iterated
  <2> QED
    BY <2>1, <2>2 DEF IsHeld
<1>8. h = CHOOSE held : IsHeld(d, held)
  BY DEF Simulate, IsHeld, Start, Rebalance
<1>9. IsHeld(d, h)
  BY <1>7, <1>8
<1> HIDE DEF h
<1>10. h[0] = Start(d) /\ \A i \in 1..n : h[i] = Rebalance(d, i, h[i - 1])
  <2>1. ASSUME NEW i \in 0..n
        PROVE  h[i] = IF i = 0 THEN Start(d) ELSE Rebalance(d, i, h[i - 1])
    <3> DEFINE value == [k \in 0..n |-> IF k = 0 THEN Start(d) ELSE Rebalance(d, k, h[k - 1])]
    <3>1. h = value
      BY <1>9 DEF IsHeld
    <3>2. value[i] = IF i = 0 THEN Start(d) ELSE Rebalance(d, i, h[i - 1])
      OBVIOUS
    <3> HIDE DEF value
    <3> QED
      BY <3>1, <3>2
  <2>2. 0 \in 0..n
    BY <1>1
  <2> QED
    BY <1>5, <2>1, <2>2
<1>11. 0 \in T
  BY <1>1, <1>2, <1>10
<1>12. ASSUME NEW i \in 1..n, i - 1 \in T
       PROVE  i \in T
  BY <1>5, <1>10, <1>12, RebalanceHolds
<1>13. \A i \in 0..n : i \in T
  <2> HIDE DEF T, n
  <2> QED
    BY <1>1, <1>11, <1>12, Induct
<1>14. h = [i \in 0..n |-> h[i]]
  BY <1>9 DEF IsHeld
<1> QED
  BY <1>10, <1>13, <1>14 DEF h

LEMMA HeldInTime == AnswersAreComputed => WeightsInTime
<1> SUFFICES ASSUME AnswersAreComputed, Asked("portfolio")
             PROVE  WeightsInTime
  BY DEF WeightsInTime
<1> DEFINE d == question
           n == Len(d.dates)
           h == Simulate(d)
           Timely(i) == h[i].at > 0 =>
             h[i].at <= i /\ (d.dynamic => h[i].weights \subseteq 1..(h[i].at - 1))
           T == {i \in 0..n : Timely(i)}
<1>1. d \in Questions["portfolio"] /\ answer = ConstructPortfolio(d)
  BY DEF AnswersAreComputed
<1>2. d.dates \in Seq(Int) /\ d.lookback \in Nat /\ n \in Nat
  BY <1>1, SeriesAssumption
<1>3. h \in [0..n -> Holding] /\ h[0] = Start(d) /\ \A i \in 1..n : h[i] = Rebalance(d, i, h[i - 1])
  BY <1>2, HoldsSomething
<1> HIDE DEF h
<1>4. h[0].at = 0
  BY <1>3 DEF Start
<1>5. 0 \in T
  BY <1>2, <1>4
<1>6. ASSUME NEW i \in 1..n, i - 1 \in T
      PROVE  i \in T
  <2>1. Timely(i - 1) /\ i \in 0..n /\ i - 1 \in 0..n
    BY <1>6
  <2>2. h[i - 1] \in Holding
    BY <1>3, <2>1
  <2>3. CASE h[i].weights = h[i - 1].weights /\ h[i].at = h[i - 1].at
    <3>1. h[i - 1].at \in Nat
      BY <2>2 DEF Holding
    <3> QED
      BY <2>1, <2>3, <3>1
  <2>4. CASE h[i] = [weights |-> DynamicWeights(d, i, h[i - 1].weights), outcome |-> "rebalanced", at |-> i]
             /\ i > d.lookback
    <3>1. d.dynamic => h[i].weights = (i - d.lookback)..(i - 1)
      BY <2>4 DEF DynamicWeights
    <3>2. (i - d.lookback)..(i - 1) \subseteq 1..(i - 1)
      BY <1>2, <2>4
    <3>3. h[i].at = i
      BY <2>4
    <3>4. d.dynamic => h[i].weights \subseteq 1..(i - 1)
      BY ONLY <3>1, <3>2
    <3>5. Timely(i)
      BY <3>3, <3>4
    <3> QED
      BY <2>1, <3>5
  <2>5. h[i] = Rebalance(d, i, h[i - 1])
    BY <1>3
  <2> QED
    BY <2>2, <2>3, <2>4, <2>5 DEF Holding, Rebalance
<1>7. \A i \in 0..n : i \in T
  <2> HIDE DEF T, n
  <2> QED
    BY <1>2, <1>5, <1>6, Induct
<1>8. \A i \in DOMAIN answer : i \in 0..n /\ answer[i] = h[i]
  BY <1>1, <1>2 DEF ConstructPortfolio, h
<1> QED
  BY <1>7, <1>8 DEF WeightsInTime
-----------------------------------------------------------------------------
(* Paths: a charge falls on the day of its trade or later, a block keeps its days in order *)

\* what is seen of a path and its trades after t days
IsSeen(seen, early, returns, trades, t) ==
  /\ returns \in Seq(Int) /\ trades \subseteq Int /\ t \in 1..Len(returns)
  /\ seen = SubSeq(returns, 1, t) /\ early = {d \in trades : d <= t}

LEMMA SeenFacts ==
  ASSUME NEW returns, NEW trades, NEW t, NEW seen, NEW early,
         IsSeen(seen, early, returns, trades, t)
  PROVE  /\ t \in DOMAIN seen /\ t \in DOMAIN returns /\ seen[t] = returns[t]
         /\ \A delay \in Nat : t - delay \in early <=> t - delay \in trades
<1>1. seen \in Seq(Int) /\ Len(seen) = t /\ seen[t] = returns[t] /\ t \in DOMAIN returns
  BY PrefixSees DEF IsSeen
<1>2. \A delay \in Nat : t - delay \in early <=> t - delay \in trades
  BY DEF IsSeen
<1> QED
  BY <1>1, <1>2

LEMMA ChargedInTime ==
  ASSUME NEW returns, NEW trades, NEW t, NEW seen, NEW early,
         IsSeen(seen, early, returns, trades, t),
         NEW delay \in Nat, NEW penalty
  PROVE  Charged(seen, early, delay, penalty)[t] = Charged(returns, trades, delay, penalty)[t]
<1>1. /\ t \in DOMAIN seen /\ t \in DOMAIN returns /\ seen[t] = returns[t]
      /\ t - delay \in early <=> t - delay \in trades
  BY SeenFacts
<1>2. t \in Hit(seen, early, delay) <=> t \in Hit(returns, trades, delay)
  BY <1>1 DEF Hit
<1>3. Charged(seen, early, delay, penalty)[t]
        = IF t \in Hit(seen, early, delay) THEN seen[t] - penalty ELSE seen[t]
  BY <1>1 DEF Charged
<1>4. Charged(returns, trades, delay, penalty)[t]
        = IF t \in Hit(returns, trades, delay) THEN returns[t] - penalty ELSE returns[t]
  BY <1>1 DEF Charged
<1> QED
  BY <1>1, <1>2, <1>3, <1>4

LEMMA ScenarioInTime ==
  ASSUME NEW returns, NEW trades, NEW t, NEW seen, NEW early,
         IsSeen(seen, early, returns, trades, t), NEW scenario,
         scenario.type \in {"transaction_cost", "slippage", "delayed_execution", "volatility",
                            "return_shift"},
         scenario.type = "delayed_execution" => scenario.bars \in Nat
  PROVE  ApplyScenario(seen, early, scenario)[t] = ApplyScenario(returns, trades, scenario)[t]
<1>1. t \in DOMAIN seen /\ t \in DOMAIN returns /\ seen[t] = returns[t]
  BY SeenFacts
<1>2. CASE scenario.type \in {"transaction_cost", "slippage"}
  <2>1. /\ ApplyScenario(seen, early, scenario) = Charged(seen, early, 0, scenario.bps)
        /\ ApplyScenario(returns, trades, scenario) = Charged(returns, trades, 0, scenario.bps)
    BY <1>2 DEF ApplyScenario
  <2> QED
    BY <2>1, ChargedInTime
<1>3. CASE scenario.type = "delayed_execution"
  <2>1. /\ ApplyScenario(seen, early, scenario) = Charged(seen, early, scenario.bars, scenario.bps)
        /\ ApplyScenario(returns, trades, scenario) = Charged(returns, trades, scenario.bars, scenario.bps)
    BY <1>3 DEF ApplyScenario
  <2> QED
    BY <1>3, <2>1, ChargedInTime
<1>4. CASE scenario.type = "volatility"
  <2>1. /\ ApplyScenario(seen, early, scenario) = [d \in DOMAIN seen |-> (seen[d] * 3) \div 2]
        /\ ApplyScenario(returns, trades, scenario) = [d \in DOMAIN returns |-> (returns[d] * 3) \div 2]
    BY <1>4 DEF ApplyScenario
  <2> QED
    BY <1>1, <2>1
<1>5. CASE scenario.type = "return_shift"
  <2>1. /\ ApplyScenario(seen, early, scenario) = [d \in DOMAIN seen |-> seen[d] + scenario.bps]
        /\ ApplyScenario(returns, trades, scenario) = [d \in DOMAIN returns |-> returns[d] + scenario.bps]
    BY <1>5 DEF ApplyScenario
  <2> QED
    BY <1>1, <2>1
<1> QED
  BY <1>2, <1>3, <1>4, <1>5

\* The day after a day, around the end.

LEMMA NextAround ==
  ASSUME NEW n \in Nat \ {0}, NEW x \in Nat
  PROVE  ((x + 1) % n) = (((x % n) + 1) % n)
<1> DEFINE q == x \div n
           r == x % n
<1>1. x = n * q + r /\ r \in 0..(n - 1) /\ q \in Nat
  BY Divided
<1> HIDE DEF q, r
<1>2. CASE r + 1 < n
  <2>1. (x + 1) % n = r + 1
    <3>1. x + 1 = n * q + (r + 1) /\ r + 1 \in 0..(n - 1) /\ x + 1 \in Nat
      BY <1>1, <1>2
    <3> QED
      BY <1>1, <3>1, Quotient
  <2>2. (r + 1) % n = r + 1
    <3>1. r + 1 = n * 0 + (r + 1) /\ r + 1 \in 0..(n - 1) /\ r + 1 \in Nat
      BY <1>1, <1>2
    <3> QED
      BY <3>1, Quotient
  <2> QED
    BY <2>1, <2>2 DEF r
<1>3. CASE r + 1 = n
  <2>1. (x + 1) % n = 0
    <3>1. x + 1 = n * (q + 1) + 0 /\ 0 \in 0..(n - 1) /\ x + 1 \in Nat /\ q + 1 \in Nat
      <4>1. n * (q + 1) = n * q + n
        BY <1>1
      <4> QED
        BY <1>1, <1>3, <4>1
    <3> QED
      BY <3>1, Quotient
  <2>2. (r + 1) % n = 0
    <3>1. r + 1 = n * 1 + 0 /\ 0 \in 0..(n - 1) /\ r + 1 \in Nat
      BY <1>1, <1>3
    <3> QED
      BY <3>1, Quotient
  <2> QED
    BY <2>1, <2>2 DEF r
<1> QED
  BY <1>1, <1>2, <1>3

LEMMA BlocksInOrder ==
  ASSUME NEW n \in Nat \ {0}, NEW size \in 1..n, NEW starts \in [1..BlockCount(n, size) -> 1..n],
         NEW i \in 1..(n - 1), i % size # 0
  PROVE  SampledDay(n, size, starts, i + 1) = (SampledDay(n, size, starts, i) % n) + 1
<1> DEFINE q == (i - 1) \div size
           r == (i - 1) % size
           s == starts[q + 1]
           x == s - 1 + r
           count == BlockCount(n, size)
<1>1. i - 1 \in Nat /\ i \in Nat /\ size \in Nat \ {0}
  OBVIOUS
<1>2. i - 1 = size * q + r /\ r \in 0..(size - 1) /\ q \in Nat
  BY <1>1, Divided
<1>3. SampledDay(n, size, starts, i) = (x % n) + 1
  BY DEF SampledDay
<1> HIDE DEF q, r
<1>4. r + 1 < size
  <2>1. SUFFICES ASSUME r + 1 = size
                 PROVE  FALSE
    BY <1>1, <1>2
  <2>2. i = size * (q + 1) + 0 /\ 0 \in 0..(size - 1) /\ q + 1 \in Nat
    <3>1. size * (q + 1) = size * q + size
      BY <1>1, <1>2
    <3> QED
      BY <1>1, <1>2, <2>1, <3>1
  <2> QED
    BY <1>1, <2>2, Quotient
<1>5. i \div size = q /\ i % size = r + 1
  <2>1. PICK p : p = r + 1
    OBVIOUS
  <2>2. i = size * q + p /\ p \in 0..(size - 1)
    BY <1>1, <1>2, <1>4, <2>1
  <2>3. i \div size = q /\ i % size = p
    BY ONLY <1>1, <1>2, <2>2, Quotient
  <2> QED
    BY <2>1, <2>3
<1>6. q + 1 \in 1..count
  <2> DEFINE b == n + size - 1
             rest == b % size
  <2>1. b = size * count + rest /\ rest \in 0..(size - 1) /\ count \in Nat
    <3>1. b \in Nat
      BY <1>1
    <3> HIDE DEF b
    <3> QED
      BY <1>1, <3>1, Divided DEF BlockCount, b
  <2> HIDE DEF rest, count
  <2>2. SUFFICES ASSUME count <= q
                 PROVE  FALSE
    BY <1>2, <2>1
  <2>3. size * count <= size * q
    BY <1>1, <1>2, <2>1, <2>2
  <2>4. PICK a : a = size * count
    OBVIOUS
  <2>5. PICK c : c = size * q
    OBVIOUS
  <2>6. a \in Int /\ c \in Int
    BY <1>1, <1>2, <2>1, <2>4, <2>5
  <2> QED
    BY <1>1, <1>2, <2>1, <2>3, <2>4, <2>5, <2>6
<1>7. s \in 1..n
  BY <1>6
<1> HIDE DEF s
<1>8. x \in Nat
  BY <1>2, <1>7
<1>9. s - 1 + (r + 1) = x + 1
  BY <1>2, <1>7
<1>10. SampledDay(n, size, starts, i + 1) = ((x + 1) % n) + 1
  <2>1. i + 1 - 1 = i
    BY <1>1
  <2>2. SampledDay(n, size, starts, i + 1) = ((s - 1 + (r + 1)) % n) + 1
    BY <1>5, <2>1 DEF SampledDay, s
  <2> QED
    BY <1>9, <2>2
<1> HIDE DEF x
<1>11. x % n \in Nat
  BY <1>8
<1> QED
  BY <1>3, <1>8, <1>10, <1>11, NextAround
GainOf(returns, d) == IF returns[d] > 0 THEN returns[d] ELSE 0

IsTop(returns, d) ==
  \A e \in DOMAIN returns :
    \/ GainOf(returns, d) > GainOf(returns, e)
    \/ GainOf(returns, d) = GainOf(returns, e) /\ d <= e

LEMMA LargestGain ==
  ASSUME NEW returns \in Seq(Int), NEW t \in 1..Len(returns), returns[t] > 0
  PROVE  TopDay(returns) # 0 /\ returns[t] <= returns[TopDay(returns)]
<1> DEFINE n == Len(returns)
           gain == [d \in 1..n |-> IF returns[d] > 0 THEN returns[d] ELSE 0]
           R == {p \in (1..n) \X (1..n) :
                   gain[p[2]] < gain[p[1]] \/ (gain[p[1]] = gain[p[2]] /\ p[1] < p[2])}
<1>1. n \in Nat /\ DOMAIN returns = 1..n /\ gain \in [1..n -> Nat] /\ gain[t] = returns[t]
  OBVIOUS
<1>2. \A d \in 1..n : gain[d] = IF returns[d] > 0 THEN returns[d] ELSE 0
  OBVIOUS
<1>3. \A a, b \in 1..n : <<a, b>> \in R <=> gain[b] < gain[a] \/ (gain[a] = gain[b] /\ a < b)
  OBVIOUS
<1> HIDE DEF gain, R
<1>4. PICK m \in 1..n : \A o \in 1..n : <<o, m>> \notin R
  <2>1. ASSUME NEW a \in 1..n
        PROVE  <<a, a>> \notin R
    <3>1. gain[a] \in Nat /\ a \in Nat
      BY <1>1
    <3>2. ~(gain[a] < gain[a] \/ (gain[a] = gain[a] /\ a < a))
      BY <3>1
    <3> QED
      BY <1>3, <3>2
  <2>2. ASSUME NEW a \in 1..n, NEW b \in 1..n, NEW c \in 1..n, <<a, b>> \in R, <<b, c>> \in R
        PROVE  <<a, c>> \in R
    <3>1. gain[a] \in Nat /\ gain[b] \in Nat /\ gain[c] \in Nat
      BY <1>1
    <3>2. /\ gain[b] < gain[a] \/ (gain[a] = gain[b] /\ a < b)
          /\ gain[c] < gain[b] \/ (gain[b] = gain[c] /\ b < c)
      BY <1>3, <2>2
    <3>3. gain[c] < gain[a] \/ (gain[a] = gain[c] /\ a < c)
      BY <3>1, <3>2
    <3> QED
      BY <1>3, <3>3
  <2>3. IsFiniteSet(1..n)
    <3>1. 1 \in Int /\ n \in Int
      BY <1>1
    <3> HIDE DEF n
    <3> QED
      BY ONLY <3>1, FS_Interval
  <2>4. 1..n # {}
    OBVIOUS
  <2>5. \A a, b, c \in 1..n : <<a, b>> \in R /\ <<b, c>> \in R => <<a, c>> \in R
    BY ONLY <2>2
  <2> HIDE DEF n
  <2>6. PICK days : days = 1..n
    OBVIOUS
  <2>7. /\ IsFiniteSet(days) /\ days # {} /\ \A a \in days : <<a, a>> \notin R
        /\ \A a, b, c \in days : <<a, b>> \in R /\ <<b, c>> \in R => <<a, c>> \in R
    BY ONLY <2>1, <2>3, <2>4, <2>5, <2>6
  <2>8. \E m \in days : \A o \in days : <<o, m>> \notin R
    BY ONLY <2>7, Unexceeded
  <2> QED
    BY ONLY <2>6, <2>8
<1>5. IsTop(returns, m)
  <2>1. ASSUME NEW e \in 1..n
        PROVE  gain[m] > gain[e] \/ (gain[m] = gain[e] /\ m <= e)
    <3>1. gain[m] \in Nat /\ gain[e] \in Nat
      BY <1>1
    <3>2. ~(gain[m] < gain[e] \/ (gain[e] = gain[m] /\ e < m))
      BY <1>3, <1>4
    <3> QED
      BY <3>1, <3>2
  <2> QED
    BY <1>1, <1>2, <2>1 DEF IsTop, GainOf
<1>6. TopDay(returns) = IF \A d \in DOMAIN returns : GainOf(returns, d) = 0 THEN 0
                        ELSE CHOOSE d \in DOMAIN returns : IsTop(returns, d)
  BY DEF TopDay, IsTop, GainOf
<1>7. GainOf(returns, t) = returns[t] /\ returns[t] # 0
  BY <1>1 DEF GainOf
<1>8. PICK d \in 1..n : d = TopDay(returns) /\ IsTop(returns, d)
  <2>1. TopDay(returns) = CHOOSE d \in DOMAIN returns : IsTop(returns, d)
    BY ONLY <1>1, <1>6, <1>7, t \in 1..n
  <2> QED
    BY ONLY <1>1, <1>5, <2>1
<1>9. GainOf(returns, d) >= GainOf(returns, t)
  BY <1>1, <1>8, SMTT(20) DEF IsTop, GainOf
<1> QED
  BY <1>1, <1>8, <1>9 DEF GainOf

LEMMA StressedInTime == AnswersAreComputed => StressInTime
<1> SUFFICES ASSUME AnswersAreComputed, Asked("stress")
             PROVE  StressInTime
  BY DEF StressInTime
<1> DEFINE q == question
           n == Len(q.returns)
<1>1. /\ q \in Questions["stress"]
      /\ answer.path = ApplyScenario(q.returns, q.trades, q.scenario)
      /\ answer.sample = BootstrapDays(n, q.size, q.starts)
      /\ answer.top = TopDay(q.returns)
  BY DEF AnswersAreComputed
<1>2. /\ q.returns \in Seq(Int) /\ q.trades \subseteq Int /\ q.size \in 1..n
      /\ q.scenario.type \in {"transaction_cost", "slippage", "delayed_execution", "volatility",
                              "return_shift"}
      /\ q.scenario.type = "delayed_execution" => q.scenario.bars \in Nat
      /\ q.starts \in [1..BlockCount(n, q.size) -> 1..n]
  BY <1>1, StressAssumption
<1>3. n \in Nat \ {0}
  BY <1>2
<1>4. ASSUME NEW t \in 1..n
      PROVE  ApplyScenario(SubSeq(q.returns, 1, t), {d \in q.trades : d <= t}, q.scenario)[t]
               = answer.path[t]
  <2>1. PICK seen, early : seen = SubSeq(q.returns, 1, t) /\ early = {d \in q.trades : d <= t}
    OBVIOUS
  <2>2. IsSeen(seen, early, q.returns, q.trades, t)
    BY <1>2, <2>1 DEF IsSeen
  <2>3. ApplyScenario(seen, early, q.scenario)[t] = ApplyScenario(q.returns, q.trades, q.scenario)[t]
    BY <1>2, <2>2, ScenarioInTime
  <2> QED
    BY <1>1, <2>1, <2>3
<1>5. ASSUME NEW i \in 1..(n - 1), i % q.size # 0
      PROVE  answer.sample[i + 1] = (answer.sample[i] % n) + 1
  <2>1. SampledDay(n, q.size, q.starts, i + 1) = (SampledDay(n, q.size, q.starts, i) % n) + 1
    BY <1>2, <1>3, <1>5, BlocksInOrder
  <2>2. i \in 1..n /\ i + 1 \in 1..n
    BY <1>3
  <2> QED
    BY <1>1, <2>1, <2>2 DEF BootstrapDays
<1>6. ASSUME NEW t \in 1..n, q.returns[t] > 0
      PROVE  answer.top # 0 /\ q.returns[t] <= q.returns[answer.top]
  BY <1>1, <1>2, <1>6, LargestGain
<1> HIDE DEF n
<1> QED
  BY <1>4, <1>5, <1>6 DEF StressInTime, n
-----------------------------------------------------------------------------
(* Signals: what a strategy wants at a close follows from the bars up to it *)

\* two series that agree up to bar t
AgreeUntil(seen, bars, t) ==
  \A i \in Nat \ {0}, u \in 1..t : SubSeq(seen, i, u) = SubSeq(bars, i, u)

LEMMA PrefixAgrees ==
  ASSUME NEW bars \in Seq(Int), NEW t \in 1..Len(bars), NEW close \in Int
  PROVE  /\ Append(SubSeq(bars, 1, t - 1), close) \in Seq(Int)
         /\ Len(Append(SubSeq(bars, 1, t - 1), close)) = t
         /\ AgreeUntil(Append(SubSeq(bars, 1, t - 1), close), bars, t - 1)
<1> DEFINE before == SubSeq(bars, 1, t - 1)
           seen == Append(before, close)
<1>1. before \in Seq(Int) /\ Len(before) = t - 1 /\ \A i \in 1..(t - 1) : before[i] = bars[i]
  BY SubSeqProperties
<1> HIDE DEF before
<1>2. seen \in Seq(Int) /\ Len(seen) = t /\ \A i \in 1..(t - 1) : seen[i] = bars[i]
  BY <1>1, AppendProperties
<1> HIDE DEF seen
<1>3. ASSUME NEW i \in Nat \ {0}, NEW u \in 1..(t - 1)
      PROVE  SubSeq(seen, i, u) = SubSeq(bars, i, u)
  BY <1>2
<1> QED
  BY <1>2, <1>3 DEF AgreeUntil, seen, before

\* the averages a strategy compares are over some bars
HasAverages(spec, c) ==
  \A p \in Comparisons(c) :
    spec.indicators[p.left] \in Nat \ {0} /\ spec.indicators[p.right] \in Nat \ {0}

LEMMA WindowsAgree ==
  ASSUME NEW seen, NEW bars, NEW t \in Nat, AgreeUntil(seen, bars, t), NEW u \in 1..t,
         NEW window \in Nat \ {0}, window <= u
  PROVE  WindowSum(seen, window, u) = WindowSum(bars, window, u)
<1>1. PICK i \in Nat \ {0} : i = u - window + 1
  OBVIOUS
<1>2. PICK s : s = SubSeq(bars, i, u)
  OBVIOUS
<1>3. SubSeq(seen, i, u) = s
  BY <1>2 DEF AgreeUntil
<1>4. WindowSum(seen, window, u) = FoldSeq(+, 0, s)
  BY <1>1, <1>3 DEF WindowSum
<1>5. WindowSum(bars, window, u) = FoldSeq(+, 0, s)
  BY <1>1, <1>2 DEF WindowSum
<1> QED
  BY <1>4, <1>5

LEMMA HoldsAlike ==
  ASSUME NEW seen, NEW bars, NEW t \in Nat, AgreeUntil(seen, bars, t), NEW u \in 1..t,
         NEW spec, NEW c, HasAverages(spec, c)
  PROVE  Holds(spec, c, seen, u) = Holds(spec, c, bars, u)
<1>1. ASSUME NEW p \in Comparisons(c)
      PROVE  Compares(spec, p, seen, u) = Compares(spec, p, bars, u)
  <2> DEFINE l == spec.indicators[p.left]
             r == spec.indicators[p.right]
  <2>1. l \in Nat \ {0} /\ r \in Nat \ {0}
    BY DEF HasAverages
  <2> HIDE DEF l, r
  <2>2. CASE u >= l /\ u >= r
    <3>1. /\ WindowSum(seen, l, u) = WindowSum(bars, l, u)
          /\ WindowSum(seen, r, u) = WindowSum(bars, r, u)
      BY <2>1, <2>2, WindowsAgree
    <3> QED
      BY <3>1 DEF Compares, l, r
  <2>3. CASE ~(u >= l /\ u >= r)
    BY <2>3 DEF Compares, l, r
  <2> QED
    BY <2>2, <2>3
<1>2. [p \in Comparisons(c) |-> Compares(spec, p, seen, u)]
        = [p \in Comparisons(c) |-> Compares(spec, p, bars, u)]
  BY <1>1
<1> QED
  BY <1>2 DEF Holds

Wanted(spec, bars, t, before) ==
  IF /\ Holds(spec, spec.entry, bars, t)
     /\ \A f \in ToSet(spec.filters) : Holds(spec, f, bars, t) THEN 1
  ELSE IF Holds(spec, spec.exit, bars, t) THEN 0
  ELSE before

IsSignal(spec, bars, wants) ==
  wants = [t \in 0..Len(bars) |-> IF t = 0 THEN 0 ELSE Wanted(spec, bars, t, wants[t - 1])]

LEMMA SignalFacts ==
  ASSUME NEW bars, Len(bars) \in Nat, NEW spec
  PROVE  /\ Signal(spec, bars) \in [0..Len(bars) -> {0, 1}] /\ Signal(spec, bars)[0] = 0
         /\ \A t \in 1..Len(bars) :
              Signal(spec, bars)[t] = Wanted(spec, bars, t, Signal(spec, bars)[t - 1])
<1> DEFINE n == Len(bars)
           step == [t \in 1..n |-> [before \in {0, 1} |-> Wanted(spec, bars, t, before)]]
           h == Signal(spec, bars)
           T == {t \in 0..n : h[t] \in {0, 1}}
<1>1. n \in Nat /\ 0 \in {0, 1}
  OBVIOUS
<1>2. \A t, before : before \in {0, 1} => Wanted(spec, bars, t, before) \in {0, 1}
  BY DEF Wanted
<1>3. step \in [1..n -> [{0, 1} -> {0, 1}]]
  BY <1>2
<1>4. PICK g : Iterated(g, n, {0, 1}, 0, step)
  <2>1. PICK S : S = {0, 1}
    OBVIOUS
  <2> HIDE DEF step, n
  <2>2. \E g : Iterated(g, n, S, 0, step)
    BY <1>1, <1>3, <2>1, Iterates
  <2> QED
    BY <2>1, <2>2
<1>5. \A t \in 1..n : t - 1 \in 0..n /\ t \in 0..n /\ t # 0
  OBVIOUS
<1>6. \A t \in 1..n : g[t] = Wanted(spec, bars, t, g[t - 1])
  BY <1>4, <1>5 DEF Iterated
<1>7. IsSignal(spec, bars, g)
  <2>1. \A t \in 0..n : g[t] = IF t = 0 THEN 0 ELSE Wanted(spec, bars, t, g[t - 1])
    BY <1>4, <1>6 DEF Iterated
  <2>2. g = [t \in 0..n |-> g[t]]
    BY <1>4 DEF Iterated
  <2> QED
    BY <2>1, <2>2 DEF IsSignal
<1>8. h = CHOOSE wants : IsSignal(spec, bars, wants)
  BY DEF Signal, IsSignal, Wanted
<1>9. IsSignal(spec, bars, h)
  BY <1>7, <1>8
<1> HIDE DEF h
<1>10. h[0] = 0 /\ \A t \in 1..n : h[t] = Wanted(spec, bars, t, h[t - 1])
  <2>1. ASSUME NEW t \in 0..n
        PROVE  h[t] = IF t = 0 THEN 0 ELSE Wanted(spec, bars, t, h[t - 1])
    <3> DEFINE value == [k \in 0..n |-> IF k = 0 THEN 0 ELSE Wanted(spec, bars, k, h[k - 1])]
    <3>1. h = value
      BY <1>9 DEF IsSignal
    <3>2. value[t] = IF t = 0 THEN 0 ELSE Wanted(spec, bars, t, h[t - 1])
      OBVIOUS
    <3> HIDE DEF value
    <3> QED
      BY <3>1, <3>2
  <2>2. 0 \in 0..n
    BY <1>1
  <2> QED
    BY <1>5, <2>1, <2>2
<1>11. 0 \in T
  BY <1>1, <1>10
<1>12. ASSUME NEW t \in 1..n, t - 1 \in T
       PROVE  t \in T
  BY <1>2, <1>5, <1>10, <1>12
<1>13. \A t \in 0..n : t \in T
  <2> HIDE DEF T, n
  <2> QED
    BY <1>1, <1>11, <1>12, Induct
<1>14. h = [t \in 0..n |-> h[t]]
  BY <1>9 DEF IsSignal
<1> QED
  BY <1>10, <1>13, <1>14 DEF h

LEMMA TradedInTime == AnswersAreComputed => SignalsInTime
<1> SUFFICES ASSUME AnswersAreComputed, Asked("signals"), NEW t \in DOMAIN question.bars,
                    NEW close \in 1..3
             PROVE  LET seen == Append(SubSeq(question.bars, 1, t - 1), close)
                    IN  EvaluatePositions(question.spec, seen)[t] = answer.positions[t]
  BY DEF SignalsInTime
<1> DEFINE q == question
           spec == q.spec
           n == Len(q.bars)
           seen == Append(SubSeq(q.bars, 1, t - 1), close)
           T == {u \in 0..(t - 1) : Signal(spec, seen)[u] = Signal(spec, q.bars)[u]}
<1>1. /\ q \in Questions["signals"] /\ ValidStrategy(spec)
      /\ answer.positions = EvaluatePositions(spec, q.bars)
  BY DEF AnswersAreComputed
<1>2. q.bars \in Seq(Int) /\ \A i \in DOMAIN spec.indicators : spec.indicators[i] \in Int
  BY <1>1, SignalsAssumption
<1>3. t \in 1..n /\ n \in Nat /\ close \in Int /\ t - 1 \in Nat
  BY <1>2
<1>4. seen \in Seq(Int) /\ Len(seen) = t /\ AgreeUntil(seen, q.bars, t - 1)
  BY <1>2, <1>3, PrefixAgrees
<1> HIDE DEF seen
<1>5. ASSUME NEW c \in {spec.entry, spec.exit} \cup ToSet(spec.filters)
      PROVE  HasAverages(spec, c)
  BY <1>1, <1>2 DEF ValidStrategy, HasAverages
<1>6. ASSUME NEW u \in 1..(t - 1), NEW before
      PROVE  Wanted(spec, seen, u, before) = Wanted(spec, q.bars, u, before)
  <2>1. ASSUME NEW c \in {spec.entry, spec.exit} \cup ToSet(spec.filters)
        PROVE  Holds(spec, c, seen, u) = Holds(spec, c, q.bars, u)
    BY <1>3, <1>4, <1>5, HoldsAlike
  <2> QED
    BY <2>1 DEF Wanted
<1>7. /\ Signal(spec, seen)[0] = 0 /\ Signal(spec, q.bars)[0] = 0
      /\ \A u \in 1..t : Signal(spec, seen)[u] = Wanted(spec, seen, u, Signal(spec, seen)[u - 1])
      /\ \A u \in 1..n : Signal(spec, q.bars)[u] = Wanted(spec, q.bars, u, Signal(spec, q.bars)[u - 1])
  BY <1>3, <1>4, SignalFacts
<1>8. 0 \in T
  BY <1>3, <1>7
<1>9. ASSUME NEW u \in 1..(t - 1), u - 1 \in T
      PROVE  u \in T
  <2>1. u \in 1..t /\ u \in 1..n /\ u \in 0..(t - 1)
    BY <1>3
  <2>2. Signal(spec, seen)[u - 1] = Signal(spec, q.bars)[u - 1]
    BY <1>9
  <2> QED
    BY <1>6, <1>7, <2>1, <2>2
<1>10. \A u \in 0..(t - 1) : u \in T
  <2>1. PICK m \in Nat : m = t - 1
    BY <1>3
  <2> HIDE DEF T
  <2> QED
    BY <1>8, <1>9, <2>1, Induct
<1>11. Signal(spec, seen)[t - 1] = Signal(spec, q.bars)[t - 1]
  BY <1>3, <1>10
<1>12. EvaluatePositions(spec, seen)[t] = Signal(spec, seen)[t - 1]
  BY <1>3, <1>4 DEF EvaluatePositions
<1>13. EvaluatePositions(spec, q.bars)[t] = Signal(spec, q.bars)[t - 1]
  BY <1>3 DEF EvaluatePositions
<1> QED
  BY <1>1, <1>11, <1>12, <1>13 DEF seen

\* No answer of the desk looks ahead, for any series, strategy, rule, scenario and sample
\* (alternative_data/alignment.py, strategy_dsl/compiler.py, factor_research/engine.py,
\* regimes/engine.py, portfolio/engine.py, stress_testing/engine.py).
THEOREM AnswersKnowNoFuture == Spec => []NothingLooksAhead
<1>1. AnswersAreComputed => NothingLooksAhead
  BY FoundInTime, TradedInTime, ScoredInTime, LabelledInTime, HeldInTime, StressedInTime
     DEF NothingLooksAhead
<1> QED
  BY <1>1, AnswersInductive, PTL
-----------------------------------------------------------------------------
(* The trades of a backtest: it holds shares only while it should be long *)

Trade == [side : {"BUY", "SELL"}, bar : Nat]

Account == [cash : BOOLEAN, shares : BOOLEAN, trades : Seq(Trade)]

Costs == [fee : Nat, slippage : Nat, residue : SUBSET Nat]

Traded(positions, t, before, costs) ==
  LET previous == IF t = 1 THEN 0 ELSE positions[t - 1]
  IN  IF positions[t] > previous /\ before.cash THEN Buy(before, t, costs)
      ELSE IF positions[t] < previous /\ before.shares THEN Sell(before, t, costs)
      ELSE before

IsAccount(positions, costs, account) ==
  account = [t \in 0..Len(positions) |->
               IF t = 0 THEN Flat ELSE Traded(positions, t, account[t - 1], costs)]

LEMMA OnAccount ==
  ASSUME NEW a \in Account, NEW t \in Nat, NEW costs \in Costs
  PROVE  Buy(a, t, costs) \in Account /\ Sell(a, t, costs) \in Account
<1>1. [side |-> "BUY", bar |-> t] \in Trade /\ [side |-> "SELL", bar |-> t] \in Trade
  BY DEF Trade
<1>2. a.trades \in Seq(Trade)
  BY DEF Account
<1>3. /\ Append(a.trades, [side |-> "BUY", bar |-> t]) \in Seq(Trade)
      /\ Append(a.trades, [side |-> "SELL", bar |-> t]) \in Seq(Trade)
  BY <1>1, <1>2, AppendProperties
<1>4. (t \in costs.residue) \in BOOLEAN
  OBVIOUS
<1>5. (IF Proceeds(costs) = 0 THEN a.cash ELSE Proceeds(costs) > 0) \in BOOLEAN
  <2>1. a.cash \in BOOLEAN
    BY DEF Account
  <2>2. (Proceeds(costs) > 0) \in BOOLEAN
    OBVIOUS
  <2> QED
    BY <2>1, <2>2
<1> QED
  BY <1>3, <1>4, <1>5 DEF Account, Buy, Sell

\* at the usual rates a sale brings cash, and it takes cash where one rate is over the whole
LEMMA ProceedsSign ==
  ASSUME NEW costs \in Costs
  PROVE  /\ UsualCosts(costs) => Proceeds(costs) > 0
         /\ SaleLoses(costs) => Proceeds(costs) < 0
         /\ ~(UsualCosts(costs) /\ SaleLoses(costs))
<1>1. PICK x : x = 100 - costs.slippage
  OBVIOUS
<1>2. PICK y : y = 100 - costs.fee
  OBVIOUS
<1>3. costs.fee \in Nat /\ costs.slippage \in Nat
  BY DEF Costs
<1>4. x \in Int /\ y \in Int /\ Proceeds(costs) = x * y
  BY <1>1, <1>2, <1>3 DEF Proceeds
<1>5. /\ UsualCosts(costs) => x > 0 /\ y > 0
      /\ SaleLoses(costs) => (x > 0 /\ y < 0) \/ (x < 0 /\ y > 0)
  BY <1>1, <1>2, <1>3 DEF UsualCosts, SaleLoses
<1>6. x > 0 /\ y > 0 => x * y > 0
  BY ONLY <1>4
<1>7. (x > 0 /\ y < 0 => x * y < 0) /\ (x < 0 /\ y > 0 => x * y < 0)
  BY ONLY <1>4
<1>8. ~(UsualCosts(costs) /\ SaleLoses(costs))
  BY <1>3 DEF UsualCosts, SaleLoses
<1> QED
  BY <1>4, <1>5, <1>6, <1>7, <1>8

LEMMA FlatIsAccount == Flat \in Account
<1>1. << >> \in Seq(Trade)
  OBVIOUS
<1> QED
  BY <1>1 DEF Flat, Account

LEMMA AccountFacts ==
  ASSUME NEW positions, Len(positions) \in Nat, NEW costs \in Costs
  PROVE  /\ RunBacktest(positions, costs) \in [0..Len(positions) -> Account]
         /\ RunBacktest(positions, costs)[0] = Flat
         /\ \A t \in 1..Len(positions) :
              RunBacktest(positions, costs)[t]
                = Traded(positions, t, RunBacktest(positions, costs)[t - 1], costs)
<1> DEFINE n == Len(positions)
           step == [t \in 1..n |-> [before \in Account |-> Traded(positions, t, before, costs)]]
           h == RunBacktest(positions, costs)
           T == {t \in 0..n : h[t] \in Account}
<1>1. n \in Nat
  OBVIOUS
<1>2. \A t \in Nat, before \in Account : Traded(positions, t, before, costs) \in Account
  BY OnAccount DEF Traded
<1>3. step \in [1..n -> [Account -> Account]]
  BY <1>2
<1>4. PICK g : Iterated(g, n, Account, Flat, step)
  <2> HIDE DEF step, n
  <2> QED
    BY <1>1, <1>3, FlatIsAccount, Iterates
<1>5. \A t \in 1..n : t - 1 \in 0..n /\ t \in 0..n /\ t # 0
  OBVIOUS
<1>6. \A t \in 1..n : g[t] = Traded(positions, t, g[t - 1], costs)
  BY <1>4, <1>5 DEF Iterated
<1>7. IsAccount(positions, costs, g)
  <2>1. \A t \in 0..n : g[t] = IF t = 0 THEN Flat ELSE Traded(positions, t, g[t - 1], costs)
    BY <1>4, <1>6 DEF Iterated
  <2>2. g = [t \in 0..n |-> g[t]]
    BY <1>4 DEF Iterated
  <2> QED
    BY <2>1, <2>2 DEF IsAccount
<1>8. h = CHOOSE account : IsAccount(positions, costs, account)
  BY DEF RunBacktest, IsAccount, Traded
<1>9. IsAccount(positions, costs, h)
  BY <1>7, <1>8
<1> HIDE DEF h
<1>10. h[0] = Flat /\ \A t \in 1..n : h[t] = Traded(positions, t, h[t - 1], costs)
  <2>1. ASSUME NEW t \in 0..n
        PROVE  h[t] = IF t = 0 THEN Flat ELSE Traded(positions, t, h[t - 1], costs)
    <3> DEFINE value == [k \in 0..n |->
                           IF k = 0 THEN Flat ELSE Traded(positions, k, h[k - 1], costs)]
    <3>1. h = value
      BY <1>9 DEF IsAccount
    <3>2. value[t] = IF t = 0 THEN Flat ELSE Traded(positions, t, h[t - 1], costs)
      OBVIOUS
    <3> HIDE DEF value
    <3> QED
      BY <3>1, <3>2
  <2>2. 0 \in 0..n
    BY <1>1
  <2> QED
    BY <1>5, <2>1, <2>2
<1>11. 0 \in T
  BY <1>1, <1>10, FlatIsAccount
<1>12. ASSUME NEW t \in 1..n, t - 1 \in T
       PROVE  t \in T
  BY <1>2, <1>5, <1>10, <1>12
<1>13. \A t \in 0..n : t \in T
  <2> HIDE DEF T, n
  <2> QED
    BY <1>1, <1>11, <1>12, Induct
<1>14. h = [t \in 0..n |-> h[t]]
  BY <1>9 DEF IsAccount
<1> QED
  BY <1>10, <1>13, <1>14 DEF h

\* the trades of the first bars: purchases and sales in turns, a bar each
InTurns(trades, t) ==
  \A i \in 1..Len(trades) :
    /\ trades[i].side = IF i % 2 = 1 THEN "BUY" ELSE "SELL"
    /\ trades[i].bar <= t
    /\ i > 1 => trades[i - 1].bar < trades[i].bar

\* out of the market although it should be in: its cash went with a sale
Stranded(a, costs) == ~a.cash /\ ~UsualCosts(costs) /\ Len(a.trades) >= 2

\* when sales lose money there is one round trip, and no cash after it
OnceAround(a, costs) ==
  SaleLoses(costs) => IF a.shares THEN Len(a.trades) = 1
                      ELSE Len(a.trades) = 0 \/ (Len(a.trades) = 2 /\ ~a.cash)

\* the account after bar t, when it should hold that position
AccountHolds(a, position, t, costs) ==
  /\ a \in Account
  /\ a.shares => position > 0
  /\ position > 0 => a.shares \/ Stranded(a, costs)
  /\ a.shares <=> Len(a.trades) % 2 = 1
  /\ a.shares \/ a.cash \/ Stranded(a, costs)
  /\ OnceAround(a, costs)
  /\ InTurns(a.trades, t)

Longer(trades, side, t) == Append(trades, [side |-> side, bar |-> t])

LEMMA TurnTaken ==
  ASSUME NEW trades, trades \in Seq(Trade), NEW t, t \in Nat \ {0}, InTurns(trades, t - 1),
         NEW side, side \in {"BUY", "SELL"}, side = "BUY" <=> Len(trades) % 2 = 0
  PROVE  /\ InTurns(Longer(trades, side, t), t)
         /\ Len(Longer(trades, side, t)) % 2 = 1 <=> side = "BUY"
<1> DEFINE trade == [side |-> side, bar |-> t]
           longer == Append(trades, trade)
           n == Len(trades)
<1>1. n \in Nat /\ n % 2 \in {0, 1} /\ trade \in Trade
  BY DEF Trade
<1>2. /\ Len(longer) = n + 1 /\ longer[n + 1] = trade
      /\ \A i \in 1..n : longer[i] = trades[i]
  BY <1>1, AppendProperties
<1>3. \A i \in 1..n : trades[i].bar \in Nat
  <2>1. \A i \in 1..n : trades[i] \in Trade
    OBVIOUS
  <2> QED
    BY <2>1 DEF Trade
<1> HIDE DEF longer, n
<1>4. (n + 1) % 2 = 1 <=> n % 2 = 0
  BY <1>1
<1>5. ASSUME NEW i \in 1..(n + 1)
      PROVE  /\ longer[i].side = IF i % 2 = 1 THEN "BUY" ELSE "SELL"
             /\ longer[i].bar <= t
             /\ i > 1 => longer[i - 1].bar < longer[i].bar
  <2>1. CASE i \in 1..n
    <3>1. /\ trades[i].side = IF i % 2 = 1 THEN "BUY" ELSE "SELL"
          /\ trades[i].bar <= t - 1
          /\ i > 1 => trades[i - 1].bar < trades[i].bar
      BY <2>1 DEF InTurns, n
    <3>2. i > 1 => i - 1 \in 1..n
      BY <1>1, <2>1
    <3> QED
      BY <1>2, <1>3, <2>1, <3>1, <3>2
  <2>2. CASE i = n + 1
    <3>1. longer[i].side = side /\ longer[i].bar = t
      BY <1>2, <2>2
    <3>2. i > 1 => i - 1 = n /\ n \in 1..n
      BY <1>1, <2>2
    <3>3. i > 1 => trades[n].bar <= t - 1 /\ trades[n].bar \in Nat
      BY <1>3, <3>2 DEF InTurns, n
    <3>4. i > 1 => longer[i - 1].bar < longer[i].bar
      BY <1>2, <3>1, <3>2, <3>3
    <3>5. side = IF i % 2 = 1 THEN "BUY" ELSE "SELL"
      BY <1>4, <2>2 DEF n
    <3> QED
      BY <3>1, <3>4, <3>5
  <2> QED
    BY <1>1, <2>1, <2>2
<1>6. InTurns(longer, t)
  BY <1>2, <1>5 DEF InTurns
<1> QED
  BY <1>2, <1>4, <1>6 DEF longer, n, Longer

\* a trade makes the list longer by one
LEMMA LongerByOne ==
  ASSUME NEW trades, trades \in Seq(Trade), NEW side \in {"BUY", "SELL"}, NEW t \in Nat
  PROVE  Len(Longer(trades, side, t)) = Len(trades) + 1
<1>1. [side |-> side, bar |-> t] \in Trade
  BY DEF Trade
<1> QED
  BY <1>1, AppendProperties DEF Longer

LEMMA AccountStep ==
  ASSUME NEW a, NEW before \in {0, 1}, NEW t \in Nat \ {0}, NEW costs \in Costs,
         AccountHolds(a, before, t - 1, costs),
         NEW positions, positions[t] \in {0, 1},
         before = IF t = 1 THEN 0 ELSE positions[t - 1]
  PROVE  AccountHolds(Traded(positions, t, a, costs), positions[t], t, costs)
<1> DEFINE b == Traded(positions, t, a, costs)
           n == Len(a.trades)
           m == Len(b.trades)
<1>1. a \in Account /\ a.trades \in Seq(Trade) /\ InTurns(a.trades, t - 1) /\ n \in Nat
  BY DEF AccountHolds, Account
<1>2. n % 2 \in {0, 1} /\ (before > 0 <=> before = 1) /\ (positions[t] > 0 <=> positions[t] = 1)
  <2>1. n % 2 \in {0, 1}
    <3> HIDE DEF n
    <3> QED
      BY <1>1
  <2>2. \A x \in {0, 1} : x > 0 <=> x = 1
    OBVIOUS
  <2> QED
    BY <2>1, <2>2
<1>3. /\ a.shares => before = 1
      /\ before = 1 => a.shares \/ Stranded(a, costs)
      /\ n % 2 = 1 <=> a.shares
      /\ a.shares \/ a.cash \/ Stranded(a, costs)
      /\ OnceAround(a, costs)
  BY <1>2 DEF AccountHolds
<1>4. n >= 1 \/ n = 0
  BY <1>1
<1> HIDE DEF n
<1>5. CASE positions[t] = 1 /\ before = 0 /\ a.cash
  <2>1. ~a.shares /\ n % 2 = 0
    BY <1>2, <1>3, <1>5
  <2>2. b = Buy(a, t, costs)
    BY <1>5 DEF Traded
  <2>3. InTurns(Longer(a.trades, "BUY", t), t) /\ Len(Longer(a.trades, "BUY", t)) % 2 = 1
    BY <1>1, <2>1, TurnTaken DEF n
  <2>4. b \in Account
    BY <1>1, <2>2, OnAccount
  <2>5. b.shares = TRUE /\ b.trades = Longer(a.trades, "BUY", t)
    BY <2>2 DEF Buy, Longer
  <2>6. positions[t] > 0
    BY <1>5
  <2>7. m = n + 1
    BY <1>1, <2>5, LongerByOne DEF n
  <2>8. SaleLoses(costs) => n = 0
    BY <1>3, <1>5, <2>1 DEF OnceAround, n
  <2> HIDE DEF b, m
  <2>9. OnceAround(b, costs)
    BY <2>5, <2>7, <2>8 DEF OnceAround, m
  <2>10. AccountHolds(b, positions[t], t, costs)
    BY <2>3, <2>4, <2>5, <2>6, <2>9 DEF AccountHolds
  <2> QED
    BY <2>10 DEF b
<1>6. CASE positions[t] = 0 /\ a.shares
  <2>1. n % 2 = 1 /\ before = 1
    BY <1>3, <1>6
  <2>2. b = Sell(a, t, costs)
    BY <1>6, <2>1 DEF Traded
  <2>3. InTurns(Longer(a.trades, "SELL", t), t) /\ ~(Len(Longer(a.trades, "SELL", t)) % 2 = 1)
    <3>1. "SELL" # "BUY" /\ ~(n % 2 = 0)
      BY <2>1
    <3>2. "SELL" = "BUY" <=> n % 2 = 0
      BY <3>1
    <3> QED
      BY <1>1, <3>1, <3>2, TurnTaken DEF n
  <2>4. b \in Account
    BY <1>1, <2>2, OnAccount
  <2>5. b.shares = FALSE /\ b.trades = Longer(a.trades, "SELL", t)
    BY <2>2 DEF Sell, Longer
  <2>6. ~(positions[t] > 0)
    BY <1>6
  <2>7. m = n + 1
    BY <1>1, <2>5, LongerByOne DEF n
  <2>8. n >= 1
    <3>1. 0 % 2 = 0
      OBVIOUS
    <3> QED
      BY <1>4, <2>1, <3>1
  <2>9. m >= 2
    BY <1>1, <2>7, <2>8 DEF n
  <2>10. SaleLoses(costs) => n = 1 /\ ~b.cash
    <3>1. SaleLoses(costs) => n = 1
      BY <1>3, <1>6 DEF OnceAround, n
    <3>2. PICK proceeds : proceeds = Proceeds(costs)
      OBVIOUS
    <3>3. SaleLoses(costs) => proceeds < 0
      BY <3>2, ProceedsSign
    <3>4. proceeds \in Int
      BY <3>2 DEF Proceeds, Costs
    <3>5. b.cash = IF proceeds = 0 THEN a.cash ELSE proceeds > 0
      BY <2>2, <3>2 DEF Sell
    <3>6. proceeds < 0 => ~(proceeds > 0) /\ proceeds # 0
      BY <3>4
    <3> QED
      BY <3>1, <3>3, <3>5, <3>6
  <2>11. b.cash \/ ~UsualCosts(costs)
    <3>1. PICK proceeds : proceeds = Proceeds(costs)
      OBVIOUS
    <3>2. UsualCosts(costs) => proceeds > 0
      BY <3>1, ProceedsSign
    <3>3. proceeds > 0 => proceeds # 0
      BY <3>1 DEF Proceeds, Costs
    <3>4. b.cash = IF proceeds = 0 THEN a.cash ELSE proceeds > 0
      BY <2>2, <3>1 DEF Sell
    <3> QED
      BY <3>2, <3>3, <3>4
  <2> HIDE DEF b, m
  <2>12. b.cash \/ Stranded(b, costs)
    BY <2>9, <2>11 DEF Stranded, m
  <2>13. OnceAround(b, costs)
    BY <2>5, <2>7, <2>10 DEF OnceAround, m
  <2>14. AccountHolds(b, positions[t], t, costs)
    BY <2>3, <2>4, <2>5, <2>6, <2>12, <2>13 DEF AccountHolds
  <2> QED
    BY <2>14 DEF b
<1>7. CASE /\ ~(positions[t] = 1 /\ before = 0 /\ a.cash)
           /\ ~(positions[t] = 0 /\ a.shares)
  <2>1. b = a
    <3>1. ~(positions[t] > before /\ a.cash) /\ ~(positions[t] < before /\ a.shares)
      BY <1>7
    <3> QED
      BY <3>1 DEF Traded
  <2>2. InTurns(a.trades, t)
    <3>1. \A i \in 1..Len(a.trades) : a.trades[i] \in Trade
      BY <1>1
    <3>2. \A i \in 1..Len(a.trades) : a.trades[i].bar \in Nat
      BY <3>1 DEF Trade
    <3> QED
      BY <1>1, <3>2 DEF InTurns
  <2>3. a.shares => positions[t] > 0
    BY <1>2, <1>7
  <2>4. positions[t] > 0 => a.shares \/ Stranded(a, costs)
    BY <1>2, <1>3, <1>7
  <2> QED
    BY <2>1, <2>2, <2>3, <2>4 DEF AccountHolds
<1> QED
  BY <1>5, <1>6, <1>7

LEMMA BacktestInTurns == AnswersAreComputed => TradesAlternate
<1> SUFFICES ASSUME AnswersAreComputed, Asked("signals")
             PROVE  TradesAlternate
  BY DEF TradesAlternate
<1> DEFINE q == question
           positions == EvaluatePositions(q.spec, q.bars)
           n == Len(q.bars)
           h == RunBacktest(positions, q.costs)
           Held(t) == IF t = 0 THEN 0 ELSE positions[t]
           T == {t \in 0..n : AccountHolds(h[t], Held(t), t, q.costs)}
<1>1. /\ q \in Questions["signals"] /\ answer.positions = positions /\ answer.account = h
  BY DEF AnswersAreComputed
<1>2. q.bars \in Seq(Int) /\ q.costs \in Costs /\ n \in Nat
  BY <1>1, SignalsAssumption DEF Costs
<1>3. Len(positions) = n /\ \A t \in 1..n : positions[t] \in {0, 1}
  <2>1. positions = [t \in 1..n |-> Signal(q.spec, q.bars)[t - 1]]
    BY DEF EvaluatePositions
  <2>2. Signal(q.spec, q.bars) \in [0..n -> {0, 1}]
    BY <1>2, SignalFacts
  <2>3. \A t \in 1..n : t - 1 \in 0..n
    BY <1>2
  <2>4. positions \in [1..n -> {0, 1}]
    BY <2>1, <2>2, <2>3
  <2>5. positions \in Seq({0, 1}) /\ Len(positions) = n
    <3> HIDE DEF positions, n
    <3> QED
      BY <1>2, <2>4, LenProperties, SeqDef
  <2> QED
    BY <2>4, <2>5
<1> HIDE DEF positions
<1>4. h[0] = Flat /\ \A t \in 1..n : h[t] = Traded(positions, t, h[t - 1], q.costs)
  BY <1>2, <1>3, AccountFacts
<1> HIDE DEF h
<1>5. 0 \in T
  <2>1. InTurns(<< >>, 0) /\ Len(<< >>) = 0
    BY DEF InTurns
  <2>2. AccountHolds(Flat, 0, 0, q.costs)
    BY <2>1, FlatIsAccount DEF AccountHolds, Flat, OnceAround
  <2> QED
    BY <1>2, <1>4, <2>2
<1>6. ASSUME NEW t \in 1..n, t - 1 \in T
      PROVE  t \in T
  <2>1. AccountHolds(h[t - 1], Held(t - 1), t - 1, q.costs) /\ t \in Nat \ {0} /\ t \in 0..n /\ t # 0
    BY <1>6
  <2>2. Held(t - 1) = IF t = 1 THEN 0 ELSE positions[t - 1]
    BY <2>1
  <2>3. Held(t - 1) \in {0, 1}
    BY <1>3, <2>1
  <2>4. positions[t] \in {0, 1}
    BY <1>3
  <2>5. AccountHolds(Traded(positions, t, h[t - 1], q.costs), positions[t], t, q.costs)
    <3> HIDE DEF Held
    <3> QED
      BY <1>2, <2>1, <2>2, <2>3, <2>4, AccountStep
  <2> QED
    BY <1>4, <2>1, <2>5
<1>7. \A t \in 0..n : t \in T
  <2> HIDE DEF T, n
  <2> QED
    BY <1>2, <1>5, <1>6, Induct
<1>8. \A t \in 1..n : AccountHolds(h[t], positions[t], t, q.costs)
  BY <1>7
<1>9. ASSUME NEW t \in 1..n
      PROVE  LET trades == h[t].trades
                 long == positions[t] > 0
             IN  /\ h[t].shares => long
                 /\ long /\ ~h[t].shares =>
                      ~h[t].cash /\ ~UsualCosts(q.costs) /\ Len(trades) >= 2
                 /\ SaleLoses(q.costs) => Len(trades) <= 2
                 /\ h[t].shares <=> Len(trades) % 2 = 1
                 /\ \A i \in DOMAIN trades :
                      /\ trades[i].side = IF i % 2 = 1 THEN "BUY" ELSE "SELL"
                      /\ i > 1 => trades[i - 1].bar < trades[i].bar
  <2>1. AccountHolds(h[t], positions[t], t, q.costs)
    BY <1>8
  <2>2. DOMAIN h[t].trades = 1..Len(h[t].trades)
    BY <2>1 DEF AccountHolds, Account
  <2>3. SaleLoses(q.costs) => Len(h[t].trades) <= 2
    <3>1. SaleLoses(q.costs) => Len(h[t].trades) \in {0, 1, 2}
      BY <2>1 DEF AccountHolds, OnceAround
    <3>2. \A k \in {0, 1, 2} : k <= 2
      OBVIOUS
    <3> QED
      BY <3>1, <3>2
  <2> QED
    BY <2>1, <2>2, <2>3 DEF AccountHolds, InTurns, Stranded
<1> HIDE DEF n
<1> QED
  BY <1>1, <1>3, <1>9 DEF TradesAlternate

-----------------------------------------------------------------------------
(* The runs of equal labels: the loop has closed the runs before the one it is in *)

FirstRun == [runs |-> << >>, start |-> 1, duration |-> 1]

Scanned(labels, t, now) ==
  IF labels[t] = labels[now.start] THEN [now EXCEPT !.duration = @ + 1]
  ELSE Switch(labels, now, t)

IsLoop(labels, loop) ==
  loop = [t \in 1..Len(labels) |-> IF t = 1 THEN FirstRun ELSE Scanned(labels, t, loop[t - 1])]

Runs(labels) ==
  [from : ToSet(labels), to : ToSet(labels), start : 1..Len(labels), end : 1..Len(labels),
   duration : Nat]

Scan(labels) == [runs : Seq(Runs(labels)), start : 1..Len(labels), duration : Nat]

LEMMA ScanStep ==
  ASSUME NEW labels, labels \in Seq(ToSet(labels)), NEW t \in 1..Len(labels),
         NEW now, now \in Scan(labels)
  PROVE  Scanned(labels, t, now) \in Scan(labels)
<1>1. \A i \in 1..Len(labels) : labels[i] \in ToSet(labels)
  OBVIOUS
<1>2. now.runs \in Seq(Runs(labels)) /\ now.start \in 1..Len(labels) /\ now.duration \in Nat
  BY DEF Scan
<1>3. CASE labels[t] = labels[now.start]
  <2>1. Scanned(labels, t, now)
          = [runs |-> now.runs, start |-> now.start, duration |-> now.duration + 1]
    BY <1>3 DEF Scanned, Scan
  <2> QED
    BY <1>2, <2>1 DEF Scan
<1>4. CASE labels[t] # labels[now.start]
  <2> DEFINE run == Closed(labels, now, labels[t])
  <2>1. run \in Runs(labels)
    BY <1>1, <1>2 DEF Closed, Run, Runs
  <2>2. Scanned(labels, t, now) = [runs |-> Append(now.runs, run), start |-> t, duration |-> 1]
    BY <1>4 DEF Scanned, Switch
  <2> HIDE DEF run
  <2>3. Append(now.runs, run) \in Seq(Runs(labels))
    BY <1>2, <2>1, AppendProperties
  <2> QED
    BY <2>2, <2>3 DEF Scan
<1> QED
  BY <1>3, <1>4

LEMMA LoopFacts ==
  ASSUME NEW labels, labels \in Seq(ToSet(labels)), labels # << >>
  PROVE  \E loop :
           /\ SummarizeTransitions(labels)
                = Append(loop[Len(labels)].runs, Closed(labels, loop[Len(labels)], "none"))
           /\ \A t \in 1..Len(labels) : loop[t] \in Scan(labels)
           /\ loop[1] = FirstRun
           /\ \A t \in 2..Len(labels) : loop[t] = Scanned(labels, t, loop[t - 1])
<1> DEFINE n == Len(labels)
           S == Scan(labels)
           step == [t \in 1..(n - 1) |-> [now \in S |-> Scanned(labels, t + 1, now)]]
           h == CHOOSE loop : IsLoop(labels, loop)
           T == {t \in 0..(n - 1) : h[t + 1] \in S}
<1>1. n \in Nat \ {0} /\ n - 1 \in Nat
  OBVIOUS
<1>2. FirstRun \in S
  <2>1. << >> \in Seq(Runs(labels))
    OBVIOUS
  <2> QED
    BY <1>1, <2>1 DEF FirstRun, Scan
<1>3. \A t \in 1..n, now \in S : Scanned(labels, t, now) \in S
  BY ScanStep
<1>4. \A t \in 1..(n - 1) : t + 1 \in 1..n /\ t \in 0..(n - 1) /\ t - 1 \in 0..(n - 1)
  BY <1>1
<1>5. step \in [1..(n - 1) -> [S -> S]]
  <2> HIDE DEF S, n
  <2> QED
    BY <1>3, <1>4
<1>6. PICK g : Iterated(g, n - 1, S, FirstRun, step)
  <2>1. PICK m \in Nat : m = n - 1
    BY <1>1
  <2> HIDE DEF step, n, S
  <2>2. \E g : Iterated(g, m, S, FirstRun, step)
    BY <1>2, <1>5, <2>1, Iterates
  <2> QED
    BY <2>1, <2>2
<1>7. \A t \in 1..(n - 1) : g[t] = Scanned(labels, t + 1, g[t - 1])
  <2> HIDE DEF S, n
  <2> QED
    BY <1>4, <1>6 DEF Iterated
<1>8. IsLoop(labels, [t \in 1..n |-> g[t - 1]])
  <2> DEFINE f == [t \in 1..n |-> g[t - 1]]
  <2>1. ASSUME NEW t \in 1..n
        PROVE  f[t] = IF t = 1 THEN FirstRun ELSE Scanned(labels, t, f[t - 1])
    <3>1. CASE t = 1
      <4>1. f[t] = g[0]
        BY <3>1
      <4> QED
        BY <1>6, <3>1, <4>1 DEF Iterated
    <3>2. CASE t # 1
      <4>1. t - 1 \in 1..n /\ t - 1 \in 1..(n - 1) /\ (t - 1) + 1 = t
        BY <1>1, <3>2
      <4>2. f[t] = g[t - 1] /\ f[t - 1] = g[(t - 1) - 1]
        BY <4>1
      <4>3. g[t - 1] = Scanned(labels, (t - 1) + 1, g[(t - 1) - 1])
        BY <1>7, <4>1
      <4> HIDE DEF f
      <4> QED
        BY <3>2, <4>1, <4>2, <4>3
    <3> QED
      BY <3>1, <3>2
  <2>2. f = [t \in 1..n |-> f[t]]
    OBVIOUS
  <2> HIDE DEF f
  <2>3. IsLoop(labels, f)
    BY <2>1, <2>2 DEF IsLoop
  <2> QED
    BY <2>3 DEF f
<1>9. IsLoop(labels, h)
  BY <1>8
<1>10. SummarizeTransitions(labels) = Append(h[n].runs, Closed(labels, h[n], "none"))
  BY DEF SummarizeTransitions, IsLoop, FirstRun, Scanned
<1> HIDE DEF h
<1>11. ASSUME NEW t \in 1..n
       PROVE  h[t] = IF t = 1 THEN FirstRun ELSE Scanned(labels, t, h[t - 1])
  <2> DEFINE value == [k \in 1..n |-> IF k = 1 THEN FirstRun ELSE Scanned(labels, k, h[k - 1])]
  <2>1. h = value
    BY <1>9 DEF IsLoop
  <2>2. value[t] = IF t = 1 THEN FirstRun ELSE Scanned(labels, t, h[t - 1])
    OBVIOUS
  <2> HIDE DEF value
  <2> QED
    BY <2>1, <2>2
<1>12. h[1] = FirstRun /\ \A t \in 2..n : h[t] = Scanned(labels, t, h[t - 1])
  <2>1. 1 \in 1..n /\ \A t \in 2..n : t \in 1..n /\ t # 1
    BY <1>1
  <2> QED
    BY <1>11, <2>1
<1>13. 0 \in T
  BY <1>1, <1>2, <1>12
<1>14. ASSUME NEW t \in 1..(n - 1), t - 1 \in T
       PROVE  t \in T
  <2>1. h[t] \in S /\ t + 1 \in 2..n /\ t + 1 \in 1..n /\ t \in 0..(n - 1) /\ (t + 1) - 1 = t
    BY <1>1, <1>14
  <2> HIDE DEF S, n
  <2> QED
    BY <1>3, <1>12, <2>1
<1>15. \A t \in 0..(n - 1) : t \in T
  <2>1. PICK m \in Nat : m = n - 1
    BY <1>1
  <2> HIDE DEF T, n
  <2> QED
    BY <1>13, <1>14, <2>1, Induct
<1>16. ASSUME NEW t \in 1..n
       PROVE  h[t] \in S
  <2>1. t - 1 \in 0..(n - 1) /\ (t - 1) + 1 = t
    BY <1>1
  <2>2. h[(t - 1) + 1] \in S
    BY <1>15, <2>1
  <2> QED
    BY <2>1, <2>2
<1> HIDE DEF n, S
<1> QED
  BY <1>10, <1>12, <1>16 DEF n, S

\* runs that fill a series up to the bar before start, whose label differs from the last of theirs
RunsHold(labels, runs, start) ==
  /\ start \in 1..Len(labels)
  /\ (IF runs = << >> THEN start ELSE runs[1].start) = 1
  /\ \A i \in 1..Len(runs) :
       LET next == IF i = Len(runs) THEN start ELSE runs[i + 1].start
       IN  /\ runs[i].start + runs[i].duration = next
           /\ runs[i].from = labels[runs[i].start]
           /\ \A u \in runs[i].start..(next - 1) : labels[u] = runs[i].from
           /\ runs[i].to = labels[next] /\ runs[i].to # runs[i].from

\* the run the loop is in at bar t
ScanHolds(labels, now, t) ==
  /\ now \in Scan(labels)
  /\ RunsHold(labels, now.runs, now.start)
  /\ now.start + now.duration = t + 1
  /\ \A u \in now.start..t : labels[u] = labels[now.start]

LEMMA RunCloses ==
  ASSUME NEW labels, labels \in Seq(ToSet(labels)), NEW now, NEW t, t \in 2..Len(labels),
         ScanHolds(labels, now, t - 1), labels[t] # labels[now.start]
  PROVE  RunsHold(labels, Append(now.runs, Closed(labels, now, labels[t])), t)
<1> DEFINE runs == now.runs
           run == Closed(labels, now, labels[t])
           longer == Append(runs, run)
           m == Len(runs)
           N(i) == IF i = m THEN now.start ELSE runs[i + 1].start
           After(i) == IF i = m + 1 THEN t ELSE longer[i + 1].start
<1>1. /\ runs \in Seq(Runs(labels)) /\ now.start \in 1..Len(labels) /\ now.duration \in Nat
      /\ m \in Nat /\ RunsHold(labels, runs, now.start)
      /\ now.start + now.duration = t /\ \A u \in now.start..(t - 1) : labels[u] = labels[now.start]
  BY DEF ScanHolds, Scan
<1>2. /\ run.start = now.start /\ run.duration = now.duration /\ run.from = labels[now.start]
      /\ run.to = labels[t]
  BY DEF Closed, Run
<1>3. run \in Runs(labels)
  <2>1. labels[now.start] \in ToSet(labels) /\ labels[t] \in ToSet(labels)
    BY <1>1
  <2> QED
    BY <1>1, <2>1 DEF Closed, Run, Runs
<1> HIDE DEF run
<1>4. /\ Len(longer) = m + 1 /\ longer[m + 1] = run /\ longer # << >>
      /\ \A i \in 1..m : longer[i] = runs[i]
  <2>1. PICK S : S = Runs(labels)
    OBVIOUS
  <2>2. runs \in Seq(S) /\ run \in S
    BY <1>1, <1>3, <2>1
  <2> HIDE DEF runs
  <2> QED
    BY ONLY <2>2, AppendProperties DEF longer, m
<1> HIDE DEF longer
<1>5. longer[1].start = 1
  <2>1. CASE runs = << >>
    <3>1. m = 0 /\ now.start = 1
      BY <1>1, <2>1 DEF RunsHold
    <3> QED
      BY <1>2, <1>4, <3>1
  <2>2. CASE runs # << >>
    <3>1. 1 \in 1..m /\ runs[1].start = 1
      BY <1>1, <2>2 DEF RunsHold
    <3> QED
      BY <1>4, <3>1
  <2> QED
    BY <2>1, <2>2
<1>6. ASSUME NEW i \in 1..(m + 1)
      PROVE  /\ longer[i].start + longer[i].duration = After(i)
             /\ longer[i].from = labels[longer[i].start]
             /\ \A u \in longer[i].start..(After(i) - 1) : labels[u] = longer[i].from
             /\ longer[i].to = labels[After(i)] /\ longer[i].to # longer[i].from
  <2>1. CASE i = m + 1
    <3>1. longer[i] = run /\ After(i) = t
      BY <1>4, <2>1
    <3> HIDE DEF After
    <3> QED
      BY <1>1, <1>2, <3>1
  <2>2. CASE i \in 1..m
    <3>1. longer[i] = runs[i]
      BY <1>4, <2>2
    <3>2. After(i) = N(i)
      <4>1. CASE i = m
        <5>1. After(i) = run.start
          BY <1>1, <1>4, <4>1
        <5> QED
          BY <1>2, <4>1, <5>1
      <4>2. CASE i # m
        <5>1. i + 1 \in 1..m /\ i # m + 1
          BY <1>1, <2>2, <4>2
        <5> QED
          BY <1>4, <4>2, <5>1
      <4> QED
        BY <4>1, <4>2
    <3>3. /\ runs[i].start + runs[i].duration = N(i)
          /\ runs[i].from = labels[runs[i].start]
          /\ \A u \in runs[i].start..(N(i) - 1) : labels[u] = runs[i].from
          /\ runs[i].to = labels[N(i)] /\ runs[i].to # runs[i].from
      BY <1>1, <2>2 DEF RunsHold
    <3> HIDE DEF After, N
    <3> QED
      BY <3>1, <3>2, <3>3
  <2> QED
    BY <1>1, <2>1, <2>2
<1>7. t \in 1..Len(labels)
  OBVIOUS
<1>8. RunsHold(labels, longer, t)
  BY <1>4, <1>5, <1>6, <1>7 DEF RunsHold
<1> QED
  BY <1>8 DEF longer, run

LEMMA ScanKeeps ==
  ASSUME NEW labels, labels \in Seq(ToSet(labels)), NEW now, NEW t, t \in 2..Len(labels),
         ScanHolds(labels, now, t - 1)
  PROVE  ScanHolds(labels, Scanned(labels, t, now), t)
<1> DEFINE next == Scanned(labels, t, now)
<1>1. /\ now.runs \in Seq(Runs(labels)) /\ now.start \in 1..Len(labels) /\ now.duration \in Nat
      /\ RunsHold(labels, now.runs, now.start) /\ now.start + now.duration = t
      /\ \A u \in now.start..(t - 1) : labels[u] = labels[now.start]
  BY DEF ScanHolds, Scan
<1>2. next \in Scan(labels)
  BY ScanStep DEF ScanHolds
<1>3. CASE labels[t] = labels[now.start]
  <2>1. next.runs = now.runs /\ next.start = now.start /\ next.duration = now.duration + 1
    BY <1>3 DEF Scanned, ScanHolds, Scan
  <2> HIDE DEF next
  <2>2. \A u \in now.start..t : u \in now.start..(t - 1) \/ u = t
    BY <1>1
  <2>3. next.start + next.duration = t + 1
    BY <1>1, <2>1
  <2>4. ScanHolds(labels, next, t)
    BY <1>1, <1>2, <1>3, <2>1, <2>2, <2>3 DEF ScanHolds
  <2> QED
    BY <2>4 DEF next
<1>4. CASE labels[t] # labels[now.start]
  <2>1. /\ next.runs = Append(now.runs, Closed(labels, now, labels[t]))
        /\ next.start = t /\ next.duration = 1
    BY <1>4 DEF Scanned, Switch
  <2>2. RunsHold(labels, next.runs, t)
    BY <1>4, <2>1, RunCloses
  <2> HIDE DEF next
  <2>3. \A u \in t..t : u = t
    OBVIOUS
  <2>4. ScanHolds(labels, next, t)
    BY <1>2, <2>1, <2>2, <2>3 DEF ScanHolds
  <2> QED
    BY <2>4 DEF next
<1> QED
  BY <1>3, <1>4

LEMMA RunsCover == AnswersAreComputed => RunsPartition
<1> SUFFICES ASSUME AnswersAreComputed, Asked("regimes")
             PROVE  RunsPartition
  BY DEF RunsPartition
<1> DEFINE labels == question.bars
           n == Len(labels)
           runs == SummarizeTransitions(labels)
<1>1. answer.runs = runs /\ labels \in Seq(ToSet(labels)) /\ n \in Nat
  BY SeriesAssumption DEF AnswersAreComputed
<1>2. CASE labels = << >>
  <2>1. runs = << >>
    BY <1>2 DEF SummarizeTransitions
  <2> QED
    BY <1>1, <1>2, <2>1 DEF RunsPartition
<1>3. CASE labels # << >>
  <2>1. PICK loop :
           /\ runs = Append(loop[n].runs, Closed(labels, loop[n], "none"))
           /\ \A t \in 1..n : loop[t] \in Scan(labels)
           /\ loop[1] = FirstRun
           /\ \A t \in 2..n : loop[t] = Scanned(labels, t, loop[t - 1])
    BY <1>1, <1>3, LoopFacts
  <2> DEFINE T == {t \in 0..(n - 1) : ScanHolds(labels, loop[t + 1], t + 1)}
  <2>2. n \in Nat \ {0} /\ n - 1 \in Nat
    BY <1>1, <1>3
  <2>3. 0 \in T
    <3>1. FirstRun \in Scan(labels)
      BY <2>1, <2>2
    <3>2. RunsHold(labels, << >>, 1)
      BY <2>2 DEF RunsHold
    <3>3. \A u \in 1..1 : u = 1
      OBVIOUS
    <3>4. ScanHolds(labels, FirstRun, 1)
      BY <3>1, <3>2, <3>3 DEF ScanHolds, FirstRun
    <3> QED
      BY <2>1, <2>2, <3>4
  <2>4. ASSUME NEW t \in 1..(n - 1), t - 1 \in T
        PROVE  t \in T
    <3>1. ScanHolds(labels, loop[t], t) /\ t + 1 \in 2..n /\ (t + 1) - 1 = t /\ t \in 0..(n - 1)
      <4>1. (t - 1) + 1 = t
        BY <2>2
      <4> QED
        BY <2>2, <2>4, <4>1
    <3>2. ScanHolds(labels, Scanned(labels, t + 1, loop[t]), t + 1)
      BY <1>1, <3>1, ScanKeeps
    <3>3. loop[t + 1] = Scanned(labels, t + 1, loop[t])
      BY <2>1, <3>1
    <3> QED
      BY <3>1, <3>2, <3>3
  <2>5. \A t \in 0..(n - 1) : t \in T
    <3>1. PICK m \in Nat : m = n - 1
      BY <2>2
    <3> HIDE DEF T, n
    <3> QED
      BY <2>3, <2>4, <3>1, Induct
  <2>6. PICK last : last = loop[n] /\ ScanHolds(labels, last, n)
    <3>1. n - 1 \in 0..(n - 1) /\ (n - 1) + 1 = n
      BY <2>2
    <3>2. ScanHolds(labels, loop[(n - 1) + 1], (n - 1) + 1)
      BY <2>5, <3>1
    <3> QED
      BY <3>1, <3>2
  <2> DEFINE before == last.runs
             m == Len(before)
             final == Closed(labels, last, "none")
             N(i) == IF i = m THEN last.start ELSE before[i + 1].start
  <2>7. /\ before \in Seq(Runs(labels)) /\ m \in Nat /\ RunsHold(labels, before, last.start)
        /\ last.start + last.duration = n + 1 /\ last.start \in 1..n /\ last.duration \in Nat
        /\ \A u \in last.start..n : labels[u] = labels[last.start]
    BY <2>6 DEF ScanHolds, Scan
  <2>8. /\ final.start = last.start /\ final.duration = last.duration /\ final.to = "none"
        /\ final.from = labels[last.start]
    BY DEF Closed, Run
  <2> HIDE DEF final
  <2>9. /\ runs \in Seq(Runs(labels) \cup {final}) /\ Len(runs) = m + 1 /\ runs[m + 1] = final
        /\ \A i \in 1..m : runs[i] = before[i]
    <3>1. PICK S : S = Runs(labels) \cup {final}
      OBVIOUS
    <3>2. before \in Seq(S) /\ final \in S
      BY <2>7, <3>1
    <3>3. runs = Append(before, final)
      BY <2>1, <2>6 DEF final
    <3> HIDE DEF before, runs
    <3>4. /\ Append(before, final) \in Seq(S) /\ Len(Append(before, final)) = m + 1
          /\ Append(before, final)[m + 1] = final
          /\ \A i \in 1..m : Append(before, final)[i] = before[i]
      BY ONLY <3>2, AppendProperties DEF m
    <3> QED
      BY <3>1, <3>3, <3>4
  <2> HIDE DEF runs
  <2>10. runs[1].start = 1
    <3>1. CASE before = << >>
      BY <2>7, <2>8, <2>9, <3>1 DEF RunsHold
    <3>2. CASE before # << >>
      <4>1. 1 \in 1..m /\ before[1].start = 1
        BY <2>7, <3>2 DEF RunsHold
      <4> QED
        BY <2>9, <4>1
    <3> QED
      BY <3>1, <3>2
  <2>11. ASSUME NEW i \in 1..m
         PROVE  /\ N(i) = runs[i + 1].start /\ i + 1 \in 1..(m + 1) /\ N(i) \in 1..n
                /\ runs[i].start + runs[i].duration = N(i)
                /\ \A u \in runs[i].start..(N(i) - 1) : labels[u] = runs[i].from
                /\ runs[i].to = runs[i + 1].from /\ runs[i].to # runs[i].from
    <3>1. /\ before[i].start + before[i].duration = N(i)
          /\ \A u \in before[i].start..(N(i) - 1) : labels[u] = before[i].from
          /\ before[i].to = labels[N(i)] /\ before[i].to # before[i].from
      BY <2>7 DEF RunsHold
    <3>2. CASE i = m
      <4>1. N(i) = last.start /\ i + 1 = m + 1 /\ runs[i + 1] = final
        BY <2>7, <2>9, <3>2
      <4> HIDE DEF N
      <4> QED
        BY <2>7, <2>8, <2>9, <3>1, <4>1
    <3>3. CASE i # m
      <4>1. i + 1 \in 1..m /\ N(i) = before[i + 1].start
        BY <2>7, <3>3
      <4>2. runs[i + 1] = before[i + 1] /\ runs[i] = before[i]
        BY <2>9, <4>1
      <4>3. before[i + 1].from = labels[before[i + 1].start]
        BY <2>7, <4>1 DEF RunsHold
      <4>4. before[i + 1].start \in 1..n
        <5>1. before[i + 1] \in Runs(labels)
          BY <2>7, <4>1
        <5> QED
          BY <5>1 DEF Runs
      <4> HIDE DEF N
      <4> QED
        BY <2>7, <3>1, <4>1, <4>2, <4>3, <4>4
    <3> QED
      BY <3>2, <3>3
  <2>12. ASSUME NEW i \in 1..(m + 1)
         PROVE  LET after == runs[i].start + runs[i].duration
                IN  /\ after <= n + 1
                    /\ \A t \in runs[i].start..(after - 1) : labels[t] = runs[i].from
                    /\ IF i = m + 1 THEN after = n + 1 /\ runs[i].to = "none"
                       ELSE /\ after = runs[i + 1].start /\ runs[i].to = runs[i + 1].from
                            /\ runs[i].to # runs[i].from
    <3>1. CASE i = m + 1
      <4>1. runs[i] = final
        BY <2>9, <3>1
      <4>2. /\ runs[i].start = last.start /\ runs[i].from = labels[last.start]
            /\ runs[i].to = "none" /\ runs[i].start + runs[i].duration = n + 1
        BY <2>7, <2>8, <4>1
      <4>3. (n + 1) - 1 = n /\ n + 1 <= n + 1
        BY <2>2
      <4>4. \A u \in last.start..n : labels[u] = labels[last.start]
        BY <2>7
      <4> HIDE DEF m, n, labels, N
      <4> QED
        BY <3>1, <4>2, <4>3, <4>4
    <3>2. CASE i # m + 1
      <4>1. i \in 1..m
        BY <2>7, <3>2
      <4> HIDE DEF N
      <4> QED
        BY <2>2, <2>11, <3>2, <4>1
    <3> QED
      BY <3>1, <3>2
  <2>13. DOMAIN runs = 1..(m + 1) /\ m + 1 # 0
    BY <2>7, <2>9
  <2> HIDE DEF m
  <2> QED
    BY <1>1, <1>3, <2>9, <2>10, <2>12, <2>13 DEF RunsPartition
<1> QED
  BY <1>2, <1>3

\* What a series of bars is cut into, trades or runs of one regime, covers it in turns, for any
\* bars and strategies and whatever trades cost; out of the market against its position, an
\* account is only after a sale, at rates that leave nothing of one
\* (run_moving_average_backtest of backtesting/engine.py and summarize_transitions of
\* regimes/engine.py).
THEOREM SeriesAreCovered == Spec => []SeriesAreCut
<1>1. AnswersAreComputed => SeriesAreCut
  BY BacktestInTurns, RunsCover DEF SeriesAreCut
<1> QED
  BY <1>1, AnswersInductive, PTL
-----------------------------------------------------------------------------
(* Routing: the model chosen is the best of those that fit *)

\* Calls as they usually are: no more than five hundred dollars for a thousand tokens and
\* five minutes for an answer.  The router bounds neither, and the latency it gives a model
\* without evidence outweighs these.
UsualCost == 500 * 100        \* cents
UsualLatency == 300 * 1000    \* milliseconds

UsualCalls ==
  \A q \in Questions["routing"] :
    /\ \A m \in ToSet(q.registry) : m.cost <= UsualCost
    /\ \A r \in ToSet(q.results) : r.latency <= UsualLatency

LEMMA UsualBounds ==
  UsualCost \in Nat /\ UsualLatency \in Nat /\ UsualCost <= 50000 /\ UsualLatency <= 300000
<1>1. PICK a, b, c, d \in Nat : a = 500 /\ b = 100 /\ c = 300 /\ d = 1000
  OBVIOUS
<1>2. UsualCost = a * b /\ UsualLatency = c * d
  BY <1>1 DEF UsualCost, UsualLatency
<1>3. UsualCost \in Nat /\ UsualLatency \in Nat
  BY <1>2
<1> QED
  BY <1>3 DEF UsualCost, UsualLatency

LatencyIn(results, own, i) == IF i \in own THEN results[i].latency ELSE 0

IsTotal(results, own, upTo) ==
  upTo = [i \in 0..Len(results) |->
            IF i = 0 THEN 0 ELSE upTo[i - 1] + (IF i \in own THEN results[i].latency ELSE 0)]

LEMMA TotalIsBounded ==
  ASSUME NEW results, Len(results) \in Nat, NEW own \in SUBSET (1..Len(results)), NEW most \in Nat,
         \A i \in own : results[i].latency \in 0..most
  PROVE  /\ IsFiniteSet(own)
         /\ TotalLatency(results, own) \in Nat
         /\ TotalLatency(results, own) <= most * Cardinality(own)
<1> DEFINE n == Len(results)
           step == [t \in 1..n |-> [before \in Nat |-> before + LatencyIn(results, own, t)]]
           upTo == CHOOSE f : IsTotal(results, own, f)
           Below(t) == own \cap (1..t)
           T == {t \in 0..n : upTo[t] \in Nat /\ upTo[t] <= most * Cardinality(Below(t))}
<1>1. n \in Nat /\ 0 \in Nat /\ own \subseteq 1..n
  OBVIOUS
<1>2. \A t, before : before \in Nat => before + LatencyIn(results, own, t) \in Nat
  <2>1. ASSUME NEW t
        PROVE  LatencyIn(results, own, t) \in Nat
    <3>1. CASE t \in own
      <4>1. results[t].latency \in 0..most
        BY <3>1
      <4>2. LatencyIn(results, own, t) = results[t].latency
        BY <3>1 DEF LatencyIn
      <4> QED
        BY <4>1, <4>2
    <3>2. CASE t \notin own
      BY <3>2 DEF LatencyIn
    <3> QED
      BY <3>1, <3>2
  <2>2. \A t : LatencyIn(results, own, t) \in Nat
    BY <2>1
  <2> QED
    BY ONLY <2>2
<1>3. step \in [1..n -> [Nat -> Nat]]
  BY <1>2
<1>4. PICK g : Iterated(g, n, Nat, 0, step)
  <2> HIDE DEF step, n
  <2> QED
    BY <1>1, <1>3, Iterates
<1>5. \A t \in 1..n : t - 1 \in 0..n /\ t \in 0..n /\ t # 0
  OBVIOUS
<1>6. \A t \in 1..n : g[t] = g[t - 1] + LatencyIn(results, own, t)
  <2>1. \A t \in 1..n : g[t - 1] \in Nat
    BY <1>4, <1>5 DEF Iterated
  <2> QED
    BY <1>4, <2>1 DEF Iterated
<1>7. IsTotal(results, own, g)
  <2>1. \A t \in 0..n : g[t] = IF t = 0 THEN 0
                               ELSE g[t - 1] + (IF t \in own THEN results[t].latency ELSE 0)
    BY <1>4, <1>6 DEF Iterated, LatencyIn
  <2>2. g = [t \in 0..n |-> g[t]]
    BY <1>4 DEF Iterated
  <2> QED
    BY <2>1, <2>2 DEF IsTotal
<1>8. TotalLatency(results, own) = upTo[n]
  BY DEF TotalLatency, IsTotal
<1>9. IsTotal(results, own, upTo)
  BY <1>7
<1> HIDE DEF upTo
<1>10. upTo[0] = 0 /\ \A t \in 1..n : upTo[t] = upTo[t - 1] + LatencyIn(results, own, t)
  <2>1. ASSUME NEW t \in 0..n
        PROVE  upTo[t] = IF t = 0 THEN 0
                         ELSE upTo[t - 1] + (IF t \in own THEN results[t].latency ELSE 0)
    <3> DEFINE value == [i \in 0..n |-> IF i = 0 THEN 0
                          ELSE upTo[i - 1] + (IF i \in own THEN results[i].latency ELSE 0)]
    <3>1. upTo = value
      BY <1>9 DEF IsTotal
    <3>2. value[t] = IF t = 0 THEN 0
                     ELSE upTo[t - 1] + (IF t \in own THEN results[t].latency ELSE 0)
      OBVIOUS
    <3> HIDE DEF value
    <3> QED
      BY <3>1, <3>2
  <2>2. 0 \in 0..n
    BY <1>1
  <2> QED
    BY <1>5, <2>1, <2>2 DEF LatencyIn
<1>11. IsFiniteSet(own)
  <2>1. IsFiniteSet(1..n)
    <3>1. 1 \in Int /\ n \in Int
      BY <1>1
    <3> HIDE DEF n
    <3> QED
      BY ONLY <3>1, FS_Interval
  <2> QED
    BY <2>1, FS_Subset
<1>12. \A t \in 0..n : IsFiniteSet(Below(t)) /\ Cardinality(Below(t)) \in Nat
  BY <1>11, FS_Subset, FS_CardinalityType
<1>13. 0 \in T
  <2>1. Below(0) = {}
    OBVIOUS
  <2>2. most * 0 = 0 /\ 0 \in 0..n
    BY <1>1
  <2> QED
    BY <1>10, <2>1, <2>2, FS_EmptySet
<1>14. ASSUME NEW t \in 1..n, t - 1 \in T
       PROVE  t \in T
  <2> DEFINE c == Cardinality(Below(t - 1))
  <2>0. 1..t = (1..(t - 1)) \cup {t} /\ t \notin 1..(t - 1)
    OBVIOUS
  <2>1. upTo[t - 1] \in Nat /\ upTo[t - 1] <= most * c /\ c \in Nat /\ IsFiniteSet(Below(t - 1))
    BY <1>5, <1>12, <1>14
  <2>2. upTo[t] = upTo[t - 1] + LatencyIn(results, own, t)
    BY <1>10
  <2>3. CASE t \in own
    <3>1. Below(t) = Below(t - 1) \cup {t} /\ t \notin Below(t - 1)
      BY ONLY <2>0, <2>3
    <3>2. Cardinality(Below(t)) = c + 1
      <4> HIDE DEF Below
      <4> QED
        BY <2>1, <3>1, FS_AddElement
    <3>3. LatencyIn(results, own, t) \in Nat /\ LatencyIn(results, own, t) <= most
      BY <2>3 DEF LatencyIn
    <3>4. most * (c + 1) = most * c + most /\ most * c \in Nat
      BY <2>1
    <3> HIDE DEF c, Below
    <3>5. upTo[t] \in Nat /\ upTo[t] <= most * Cardinality(Below(t))
      BY <2>1, <2>2, <3>2, <3>3, <3>4
    <3> QED
      BY <1>5, <3>5
  <2>4. CASE t \notin own
    <3>1. Below(t) = Below(t - 1)
      BY ONLY <2>0, <2>4
    <3>2. upTo[t] = upTo[t - 1]
      BY <2>1, <2>2, <2>4 DEF LatencyIn
    <3> HIDE DEF Below
    <3> QED
      BY <1>5, <2>1, <3>1, <3>2
  <2> QED
    BY <2>3, <2>4
<1>15. \A t \in 0..n : t \in T
  <2> HIDE DEF T, n
  <2> QED
    BY <1>1, <1>13, <1>14, Induct
<1>16. Below(n) = own /\ n \in 0..n
  <2>1. n \in 0..n
    BY <1>1
  <2>2. Below(n) = own
    BY ONLY own \subseteq 1..n
  <2> QED
    BY <2>1, <2>2
<1> HIDE DEF Below
<1> QED
  BY <1>8, <1>11, <1>15, <1>16
LEMMA PercentOf ==
  ASSUME NEW n \in Nat \ {0}, NEW k \in 0..n
  PROVE  Percent(k, n) \in 0..100
<1>1. 100 * k \in Nat /\ 100 * k <= 100 * n
  OBVIOUS
<1>2. 100 * k = n * Percent(k, n) + ((100 * k) % n) /\ (100 * k) % n \in 0..(n - 1)
      /\ Percent(k, n) \in Nat
  BY <1>1, Divided DEF Percent
<1> DEFINE p == Percent(k, n)
<1> HIDE DEF p
<1>3. CASE p > 100
  <2>1. n * 101 <= n * p
    BY <1>2, <1>3 DEF p
  <2> QED
    BY <1>1, <1>2, <2>1 DEF p
<1> QED
  BY <1>2, <1>3 DEF p

\* What is known of a model at tasks of a type.
Evidenced(evidence, own, most) ==
  /\ evidence.quality \in 0..100 /\ evidence.success \in 0..100
  /\ evidence.structured \in 0..100 /\ evidence.latency \in Nat
  /\ IF own = {} THEN /\ evidence.latency = 1000000 /\ evidence.quality = 0
                      /\ evidence.success = 0 /\ evidence.structured = 0
     ELSE evidence.latency <= most

LEMMA EvidenceFacts ==
  ASSUME NEW results, results \in Seq(ToSet(results)), NEW most \in Nat,
         \A r \in ToSet(results) : r.latency \in 0..most,
         NEW model, NEW type
  PROVE  Evidenced(Evidence(results, model, type), ResultsOf(results, model, type), most)
<1> DEFINE own == ResultsOf(results, model, type)
           n == Cardinality(own)
           total == TotalLatency(results, own)
           succeeded == {i \in own : results[i].success}
           formed == {i \in own : results[i].structured}
           evidence == Evidence(results, model, type)
<1>1. Len(results) \in Nat /\ DOMAIN results = 1..Len(results)
      /\ \A i \in 1..Len(results) : results[i] \in ToSet(results)
  BY DEF ToSet, Range
<1>2. own \in SUBSET (1..Len(results))
  BY <1>1 DEF ResultsOf
<1> HIDE DEF own
<1>3. \A i \in own : results[i].latency \in 0..most
  BY <1>1, <1>2
<1>4. IsFiniteSet(own) /\ total \in Nat /\ total <= most * n
  BY <1>1, <1>2, <1>3, TotalIsBounded
<1>5. evidence = IF own = {} THEN [quality |-> 0, success |-> 0, structured |-> 0, latency |-> 1000000]
                 ELSE [quality    |-> Percent(Cardinality(succeeded), n),
                       success    |-> Percent(Cardinality(succeeded), n),
                       structured |-> Percent(Cardinality(formed), n),
                       latency    |-> total \div n]
  BY DEF Evidence, own
<1>6. CASE own = {}
  <2> HIDE DEF evidence
  <2> QED
    BY <1>5, <1>6 DEF own, evidence, Evidenced
<1>7. CASE own # {}
  <2>1. n \in Nat \ {0}
    BY <1>4, <1>7, FS_CardinalityType, FS_EmptySet
  <2>2. Cardinality(succeeded) \in 0..n /\ Cardinality(formed) \in 0..n
    <3>1. succeeded \subseteq own /\ formed \subseteq own
      OBVIOUS
    <3> HIDE DEF succeeded, formed
    <3>2. /\ IsFiniteSet(succeeded) /\ Cardinality(succeeded) <= n
          /\ IsFiniteSet(formed) /\ Cardinality(formed) <= n
      BY <1>4, <3>1, FS_Subset
    <3> QED
      BY <3>2, FS_CardinalityType
  <2>3. Percent(Cardinality(succeeded), n) \in 0..100 /\ Percent(Cardinality(formed), n) \in 0..100
    <3> HIDE DEF n, succeeded, formed
    <3> QED
      BY <2>1, <2>2, PercentOf
  <2>4. total \div n \in Nat /\ total \div n <= most
    <3> DEFINE q == total \div n
    <3> HIDE DEF n, total
    <3>1. total = n * q + (total % n) /\ total % n \in 0..(n - 1) /\ q \in Nat
      BY <1>4, <2>1, Divided
    <3> HIDE DEF q
    <3>2. q <= most
      <4> SUFFICES ASSUME q > most
                   PROVE  FALSE
        BY <3>1
      <4>1. n * (most + 1) <= n * q
        BY <2>1, <3>1
      <4>2. n * (most + 1) = most * n + n
        BY <2>1
      <4>3. PICK a, b \in Nat : a = n * q /\ b = most * n
        BY <2>1, <3>1
      <4>4. total \in Nat /\ total <= b /\ b + n <= a /\ a <= total
        BY <1>4, <2>1, <3>1, <4>1, <4>2, <4>3
      <4> QED
        BY ONLY <2>1, <4>4, a \in Nat, b \in Nat
    <3> QED
      BY <3>1, <3>2 DEF q
  <2> HIDE DEF evidence, total, n, succeeded, formed
  <2>5. /\ evidence.quality = Percent(Cardinality(succeeded), n)
        /\ evidence.success = Percent(Cardinality(succeeded), n)
        /\ evidence.structured = Percent(Cardinality(formed), n)
        /\ evidence.latency = total \div n
    BY <1>5, <1>7
  <2> QED
    BY <1>7, <2>3, <2>4, <2>5 DEF own, evidence, Evidenced
<1> QED
  BY <1>6, <1>7
\* The results of a question are finitely many, so their latencies have a bound.
LEMMA LatenciesBounded ==
  ASSUME NEW results, results \in Seq(ToSet(results)), \A r \in ToSet(results) : r.latency \in Nat
  PROVE  \E most \in Nat : \A r \in ToSet(results) : r.latency \in 0..most
<1> DEFINE n == Len(results)
           at == [i \in 1..n |-> results[i].latency]
           R == {p \in (1..n) \X (1..n) : at[p[2]] < at[p[1]]}
<1>1. n \in Nat /\ DOMAIN results = 1..n /\ ToSet(results) = {results[i] : i \in 1..n}
  BY DEF ToSet
<1>2. \A i \in 1..n : at[i] \in Nat /\ at[i] = results[i].latency
  BY <1>1
<1>3. \A a, b \in 1..n : <<a, b>> \in R <=> at[b] < at[a]
  OBVIOUS
<1> HIDE DEF at, R
<1>4. CASE n = 0
  <2>1. ToSet(results) = {}
    BY <1>1, <1>4
  <2> QED
    BY <2>1
<1>5. CASE n # 0
  <2>1. PICK m \in 1..n : \A o \in 1..n : <<o, m>> \notin R
    <3>1. \A a \in 1..n : <<a, a>> \notin R
      BY <1>2, <1>3
    <3>2. ASSUME NEW a \in 1..n, NEW b \in 1..n, NEW c \in 1..n, <<a, b>> \in R, <<b, c>> \in R
          PROVE  <<a, c>> \in R
      <4>1. at[a] \in Nat /\ at[b] \in Nat /\ at[c] \in Nat /\ at[b] < at[a] /\ at[c] < at[b]
        BY <1>2, <1>3, <3>2
      <4>2. at[c] < at[a]
        BY <4>1
      <4> QED
        BY <1>3, <4>2
    <3>3. \A a, b, c \in 1..n : <<a, b>> \in R /\ <<b, c>> \in R => <<a, c>> \in R
      BY ONLY <3>2
    <3>4. IsFiniteSet(1..n) /\ 1..n # {}
      <4>1. 1 \in Int /\ n \in Int
        BY <1>1
      <4>2. 1 \in 1..n
        BY <1>1, <1>5
      <4> HIDE DEF n
      <4> QED
        BY ONLY <4>1, <4>2, FS_Interval
    <3> HIDE DEF n
    <3>5. PICK positions : positions = 1..n
      OBVIOUS
    <3>6. /\ IsFiniteSet(positions) /\ positions # {} /\ \A a \in positions : <<a, a>> \notin R
          /\ \A a, b, c \in positions : <<a, b>> \in R /\ <<b, c>> \in R => <<a, c>> \in R
      BY ONLY <3>1, <3>3, <3>4, <3>5
    <3>7. \E m \in positions : \A o \in positions : <<o, m>> \notin R
      BY ONLY <3>6, Unexceeded
    <3> QED
      BY ONLY <3>5, <3>7
  <2>2. \A i \in 1..n : at[i] \in 0..at[m]
    <3> SUFFICES ASSUME NEW i \in 1..n
                 PROVE  at[i] \in 0..at[m]
      OBVIOUS
    <3>1. at[i] \in Nat /\ at[m] \in Nat /\ ~(at[m] < at[i])
      BY <1>2, <1>3, <2>1
    <3> QED
      BY <3>1
  <2>3. at[m] \in Nat /\ \A r \in ToSet(results) : r.latency \in 0..at[m]
    <3>1. \A i \in 1..n : results[i].latency \in 0..at[m]
      BY <1>2, <2>2
    <3> QED
      BY <1>1, <1>2, <3>1
  <2> QED
    BY <2>3
<1> QED
  BY <1>4, <1>5

Worth(evidence, weights, cost) ==
  (10 * weights.quality * (evidence.quality + evidence.success + evidence.structured))
    - ((30 * weights.cost * cost) + (3 * weights.latency * evidence.latency))

LEMMA WorthOfCall ==
  ASSUME NEW evidence, NEW policy \in DOMAIN Weights, NEW cost \in Nat,
         evidence.quality \in Int, evidence.success \in Int, evidence.structured \in Int,
         evidence.latency \in Int
  PROVE  Worth(evidence, Weights[policy], cost) \in Int
<1>1. /\ Weights[policy].quality \in Int /\ Weights[policy].cost \in Int
      /\ Weights[policy].latency \in Int
  BY DEF Weights
<1> QED
  BY <1>1 DEF Worth

LEMMA UtilityIsWhole ==
  ASSUME NEW q \in Questions["routing"], NEW m \in ToSet(q.registry)
  PROVE  Utility(m, q.request, q.results) \in Int
<1> DEFINE results == q.results
           evidence == Evidence(results, m.id, q.request.type)
<1>1. /\ results \in Seq(ToSet(results)) /\ \A r \in ToSet(results) : r.latency \in Nat
      /\ m.cost \in Nat /\ q.request.policy \in DOMAIN Weights
  BY RoutingAssumption
<1> HIDE DEF results
<1>2. PICK most \in Nat : \A r \in ToSet(results) : r.latency \in 0..most
  BY <1>1, LatenciesBounded
<1>3. /\ evidence.quality \in Int /\ evidence.success \in Int /\ evidence.structured \in Int
      /\ evidence.latency \in Int
  <2>1. Evidenced(evidence, ResultsOf(results, m.id, q.request.type), most)
    BY <1>1, <1>2, EvidenceFacts
  <2> HIDE DEF evidence
  <2>2. /\ evidence.quality \in 0..100 /\ evidence.success \in 0..100
        /\ evidence.structured \in 0..100 /\ evidence.latency \in Nat
    BY <2>1 DEF Evidenced
  <2> QED
    BY ONLY <2>2
<1>4. Utility(m, q.request, results) = Worth(evidence, Weights[q.request.policy], m.cost)
  BY DEF Utility, Worth
<1> HIDE DEF evidence
<1> QED
  BY <1>1, <1>3, <1>4, WorthOfCall DEF results

\* The best of some models is one of them, and none of them is worth more.
LEMMA BestIsBest ==
  ASSUME NEW q \in Questions["routing"], NEW models \in SUBSET (DOMAIN q.registry), models # {}
  PROVE  \E i \in models :
           /\ Best(models, q.registry, q.request, q.results) = q.registry[i]
           /\ \A j \in models : Utility(q.registry[j], q.request, q.results)
                                  <= Utility(q.registry[i], q.request, q.results)
<1> DEFINE n == Len(q.registry)
           worth == [i \in models |-> Utility(q.registry[i], q.request, q.results)]
           R == {p \in models \X models :
                   worth[p[2]] < worth[p[1]] \/ (worth[p[1]] = worth[p[2]] /\ p[1] < p[2])}
           IsBest(i) == \A j \in models :
                          LET mine == Utility(q.registry[i], q.request, q.results)
                              other == Utility(q.registry[j], q.request, q.results)
                          IN  mine > other \/ (mine = other /\ i <= j)
<1>1. n \in Nat /\ DOMAIN q.registry = 1..n /\ \A i \in 1..n : q.registry[i] \in ToSet(q.registry)
  BY RoutingAssumption DEF ToSet
<1>2. models \subseteq 1..n
  BY <1>1
<1>3. \A i \in models : worth[i] \in Int /\ worth[i] = Utility(q.registry[i], q.request, q.results)
                        /\ i \in Int
  <2>1. ASSUME NEW i \in models
        PROVE  Utility(q.registry[i], q.request, q.results) \in Int
    BY <1>1, <1>2, UtilityIsWhole
  <2> QED
    BY <1>2, <2>1
<1>4. \A a, b \in models :
        <<a, b>> \in R <=> worth[b] < worth[a] \/ (worth[a] = worth[b] /\ a < b)
  OBVIOUS
<1> HIDE DEF worth, R
<1>5. IsFiniteSet(models)
  <2>1. IsFiniteSet(1..n)
    <3>1. 1 \in Int /\ n \in Int
      BY <1>1
    <3> HIDE DEF n
    <3> QED
      BY ONLY <3>1, FS_Interval
  <2> QED
    BY <1>2, <2>1, FS_Subset
<1>6. PICK m \in models : \A o \in models : <<o, m>> \notin R
  <2>1. \A a \in models : <<a, a>> \notin R
    BY <1>3, <1>4
  <2>2. ASSUME NEW a \in models, NEW b \in models, NEW c \in models, <<a, b>> \in R, <<b, c>> \in R
        PROVE  <<a, c>> \in R
    <3>1. worth[a] \in Int /\ worth[b] \in Int /\ worth[c] \in Int /\ a \in Int /\ b \in Int /\ c \in Int
      BY <1>3
    <3>2. /\ worth[b] < worth[a] \/ (worth[a] = worth[b] /\ a < b)
          /\ worth[c] < worth[b] \/ (worth[b] = worth[c] /\ b < c)
      BY <1>4, <2>2
    <3>3. worth[c] < worth[a] \/ (worth[a] = worth[c] /\ a < c)
      BY <3>1, <3>2
    <3> QED
      BY <1>4, <3>3
  <2>3. \A a, b, c \in models : <<a, b>> \in R /\ <<b, c>> \in R => <<a, c>> \in R
    BY ONLY <2>2
  <2> QED
    BY ONLY <1>5, models # {}, <2>1, <2>3, Unexceeded
<1>7. IsBest(m)
  <2> SUFFICES ASSUME NEW j \in models
               PROVE  worth[m] > worth[j] \/ (worth[m] = worth[j] /\ m <= j)
    BY <1>3
  <2>1. worth[m] \in Int /\ worth[j] \in Int /\ m \in Int /\ j \in Int
    BY <1>3
  <2>2. ~(worth[m] < worth[j] \/ (worth[j] = worth[m] /\ j < m))
    BY <1>4, <1>6
  <2> QED
    BY <2>1, <2>2
<1>8. Best(models, q.registry, q.request, q.results) = q.registry[CHOOSE i \in models : IsBest(i)]
  BY DEF Best
<1>9. PICK i \in models : i = (CHOOSE k \in models : IsBest(k)) /\ IsBest(i)
  BY ONLY <1>7, m \in models
<1>10. \A j \in models : Utility(q.registry[j], q.request, q.results)
                           <= Utility(q.registry[i], q.request, q.results)
  <2> SUFFICES ASSUME NEW j \in models
               PROVE  worth[j] <= worth[i]
    BY <1>3
  <2>1. worth[i] \in Int /\ worth[j] \in Int
    BY <1>3
  <2>2. worth[i] > worth[j] \/ worth[i] = worth[j]
    BY <1>3, <1>9
  <2> QED
    BY <2>1, <2>2
<1> QED
  BY <1>8, <1>9, <1>10
\* A model that was measured is worth more than one that was not.
LEMMA MeasuredOutweighs ==
  ASSUME NEW policy \in DOMAIN Weights, NEW cost \in Nat, NEW other \in Nat,
         cost <= UsualCost, NEW measured, NEW own, own # {},
         Evidenced(measured, own, UsualLatency),
         NEW unknown, Evidenced(unknown, {}, UsualLatency)
  PROVE  Worth(unknown, Weights[policy], other) < Worth(measured, Weights[policy], cost)
<1>1. PICK wq, wc, wl \in Nat :
        /\ wq = Weights[policy].quality /\ wc = Weights[policy].cost /\ wl = Weights[policy].latency
        /\ \/ wq = 20 /\ wc = 45 /\ wl = 35
           \/ wq = 55 /\ wc = 25 /\ wl = 20
           \/ wq = 80 /\ wc = 10 /\ wl = 10
  BY DEF Weights
<1>2. PICK a, b, c, d \in Nat :
        /\ measured.quality = a /\ measured.success = b /\ measured.structured = c
        /\ measured.latency = d /\ d <= UsualLatency
  <2>1. /\ measured.quality \in Nat /\ measured.success \in Nat /\ measured.structured \in Nat
        /\ measured.latency \in Nat /\ measured.latency <= UsualLatency
    BY DEF Evidenced
  <2> QED
    BY ONLY <2>1
<1>3. /\ unknown.quality = 0 /\ unknown.success = 0 /\ unknown.structured = 0
      /\ unknown.latency = 1000000
  BY DEF Evidenced
<1>4. Worth(measured, Weights[policy], cost) =
        (10 * wq * (a + b + c)) - ((30 * wc * cost) + (3 * wl * d))
  BY <1>1, <1>2 DEF Worth
<1>5. Worth(unknown, Weights[policy], other) = (10 * wq * 0) - ((30 * wc * other) + (3 * wl * 1000000))
  BY <1>1, <1>3 DEF Worth
<1>6. (10 * wq * 0) - ((30 * wc * other) + (3 * wl * 1000000))
        < (10 * wq * (a + b + c)) - ((30 * wc * cost) + (3 * wl * d))
  <2>0. cost <= 50000 /\ d <= 300000
    BY <1>2, UsualBounds
  <2>1. CASE wq = 20 /\ wc = 45 /\ wl = 35
    BY <2>0, <2>1
  <2>2. CASE wq = 55 /\ wc = 25 /\ wl = 20
    BY <2>0, <2>2
  <2>3. CASE wq = 80 /\ wc = 10 /\ wl = 10
    BY <2>0, <2>3
  <2> QED
    BY <1>1, <2>1, <2>2, <2>3
<1> QED
  BY <1>4, <1>5, <1>6

\* A chain ends at its first answer, or at its first error that is not for the next to mend.
RunEnds(run, chain, outcome) ==
  LET tried == Len(run.errors)
  IN  /\ \A i \in 1..tried : run.errors[i] = chain[i] /\ outcome[chain[i]] = "retryable"
      /\ IF run.model # NoModel THEN run.model = chain[tried + 1] /\ outcome[run.model] = "answer"
         ELSE tried < Len(chain) => outcome[chain[tried + 1]] = "other"

LEMMA ChainEnds ==
  ASSUME NEW S, NEW chain \in Seq(S), NEW outcome,
         \A i \in 1..Len(chain) : chain[i] # NoModel /\ outcome[chain[i]] \in Outcomes
  PROVE  RunEnds(RunChain(chain, outcome), chain, outcome)
<1> DEFINE n == Len(chain)
           stops == {i \in 1..n : outcome[chain[i]] # "retryable"}
           run == RunChain(chain, outcome)
<1>1. n \in Nat /\ DOMAIN chain = 1..n
  OBVIOUS
<1>2. CASE stops = {}
  <2>1. run = [model |-> NoModel, errors |-> chain]
    BY <1>1, <1>2 DEF RunChain
  <2>2. \A i \in 1..n : outcome[chain[i]] = "retryable"
    BY <1>2
  <2> HIDE DEF run
  <2>3. run.model = NoModel /\ run.errors = chain
    BY <2>1
  <2> QED
    BY <1>1, <2>2, <2>3 DEF RunEnds, run
<1>3. CASE stops # {}
  <2> DEFINE IsFirst(i) == \A j \in stops : i <= j
             last == CHOOSE i \in stops : IsFirst(i)
  <2>1. PICK k : k = last /\ k \in stops /\ IsFirst(k)
    <3>1. stops \in SUBSET Nat
      BY <1>1
    <3>2. \E i \in stops : IsFirst(i)
      BY ONLY <1>3, <3>1, LeastNumber
    <3> QED
      BY ONLY <3>2
  <2>2. k \in 1..n /\ outcome[chain[k]] # "retryable"
    BY <2>1
  <2>3. \A i \in 1..(k - 1) : outcome[chain[i]] = "retryable"
    <3> SUFFICES ASSUME NEW i \in 1..(k - 1)
                 PROVE  outcome[chain[i]] = "retryable"
      OBVIOUS
    <3>1. i \in 1..n /\ ~(k <= i)
      BY <1>1, <2>2
    <3>2. i \notin stops
      BY <2>1, <3>1
    <3> QED
      BY <3>1, <3>2
  <2>4. run = [model |-> IF outcome[chain[k]] = "answer" THEN chain[k] ELSE NoModel,
               errors |-> SubSeq(chain, 1, k - 1)]
    BY <1>1, <1>3, <2>1 DEF RunChain
  <2> HIDE DEF run, last, stops
  <2>5. /\ run.model = IF outcome[chain[k]] = "answer" THEN chain[k] ELSE NoModel
        /\ run.errors = SubSeq(chain, 1, k - 1)
    BY <2>4
  <2>6. Len(run.errors) = k - 1 /\ \A i \in 1..(k - 1) : run.errors[i] = chain[i]
    <3>1. k - 1 \in 0..n
      BY <1>1, <2>2
    <3> HIDE DEF n
    <3> QED
      BY <1>1, <2>5, <3>1, SubSeqProperties DEF n
  <2>7. (k - 1) + 1 = k /\ outcome[chain[k]] \in Outcomes /\ chain[k] # NoModel
    BY <2>2
  <2>8. IF run.model # NoModel THEN run.model = chain[k] /\ outcome[run.model] = "answer"
        ELSE outcome[chain[k]] = "other"
    BY <2>2, <2>5, <2>7 DEF Outcomes
  <2> QED
    BY <2>3, <2>6, <2>7, <2>8 DEF RunEnds, run
<1> QED
  BY <1>2, <1>3
LEMMA MeasuredFirst ==
  ASSUME UsualCalls, NEW q \in Questions["routing"],
         NEW m \in ToSet(q.registry), ResultsOf(q.results, m.id, q.request.type) # {},
         NEW chosen \in ToSet(q.registry),
         Utility(m, q.request, q.results) <= Utility(chosen, q.request, q.results)
  PROVE  ResultsOf(q.results, chosen.id, q.request.type) # {}
<1> SUFFICES ASSUME ResultsOf(q.results, chosen.id, q.request.type) = {}
             PROVE  FALSE
  OBVIOUS
<1>1. PICK results, policy, type, most :
        /\ results = q.results /\ policy = q.request.policy /\ type = q.request.type
        /\ most \in Nat /\ most = UsualLatency
  BY UsualBounds
<1>2. /\ results \in Seq(ToSet(results)) /\ \A r \in ToSet(results) : r.latency \in 0..most
      /\ m.cost \in Nat /\ m.cost <= UsualCost /\ chosen.cost \in Nat /\ policy \in DOMAIN Weights
  <2>1. \A r \in ToSet(q.results) : r.latency \in Nat /\ r.latency <= most
    BY <1>1, RoutingAssumption DEF UsualCalls
  <2> QED
    BY <1>1, <2>1, RoutingAssumption DEF UsualCalls
<1>3. \A id : Evidenced(Evidence(results, id, type), ResultsOf(results, id, type), most)
  BY ONLY <1>1, <1>2, EvidenceFacts
<1>4. PICK measured, unknown, own, cost, other :
        /\ measured = Evidence(results, m.id, type) /\ unknown = Evidence(results, chosen.id, type)
        /\ own = ResultsOf(results, m.id, type) /\ cost = m.cost /\ other = chosen.cost
  OBVIOUS
<1>5. /\ Evidenced(measured, own, UsualLatency) /\ Evidenced(unknown, {}, UsualLatency)
      /\ own # {} /\ cost \in Nat /\ cost <= UsualCost /\ other \in Nat
  BY <1>1, <1>2, <1>3, <1>4
<1>6. Worth(unknown, Weights[policy], other) < Worth(measured, Weights[policy], cost)
  BY ONLY <1>2, <1>5, MeasuredOutweighs
<1>7. /\ Utility(m, q.request, q.results) = Worth(measured, Weights[policy], cost)
      /\ Utility(chosen, q.request, q.results) = Worth(unknown, Weights[policy], other)
  BY <1>1, <1>4 DEF Utility, Worth
<1>8. Utility(m, q.request, q.results) \in Int /\ Utility(chosen, q.request, q.results) \in Int
  BY UtilityIsWhole
<1> QED
  BY <1>6, <1>7, <1>8
LEMMA RoutingHolds ==
  ASSUME UsualCalls
  PROVE  AnswersAreComputed => RoutingKeepsBudget
<1> SUFFICES ASSUME AnswersAreComputed, Asked("routing")
             PROVE  RoutingKeepsBudget
  BY DEF RoutingKeepsBudget
<1> DEFINE q == question
           capable == Compatible(q.registry, q.request)
           feasible == {i \in capable : BudgetAllows(q.registry[i], q.request)}
           able == {q.registry[i] : i \in capable}
           affordable == {m \in able : BudgetAllows(m, q.request)}
           decision == SelectModel(q.registry, q.request, q.results)
           chosen == decision.model
           Value(m) == Utility(m, q.request, q.results)
           Found(m) == ResultsOf(q.results, m.id, q.request.type)
<1>1. /\ q \in Questions["routing"] /\ answer.decision = decision
      /\ answer.run = IF chosen = NoModel THEN None ELSE RunChain(Chain(chosen), q.outcome)
  BY DEF AnswersAreComputed
<1>2. PICK n \in Nat : DOMAIN q.registry = 1..n /\ \A i \in 1..n : q.registry[i] \in ToSet(q.registry)
  <2>1. q.registry \in Seq(ToSet(q.registry))
    BY <1>1, RoutingAssumption
  <2>2. Len(q.registry) \in Nat /\ DOMAIN q.registry = 1..Len(q.registry)
    BY <2>1
  <2> QED
    BY <2>2 DEF ToSet
<1>3. capable \subseteq 1..n /\ feasible \subseteq capable
  BY <1>2 DEF Compatible
<1>4. \A i \in capable : q.registry[i] \in ToSet(q.registry) /\ q.registry[i] # NoModel
  BY <1>1, <1>2, <1>3, RoutingAssumption
<1> HIDE DEF capable
<1>5. affordable = {q.registry[i] : i \in feasible}
  OBVIOUS
<1>7. ASSUME NEW models, models \subseteq capable, models # {}
      PROVE  \E i \in models : /\ Best(models, q.registry, q.request, q.results) = q.registry[i]
                               /\ \A j \in models : Value(q.registry[j]) <= Value(q.registry[i])
  BY <1>1, <1>2, <1>3, <1>7, BestIsBest
<1>8. decision = IF capable = {} \/ (feasible = {} /\ q.request.critical) THEN Refused
                 ELSE IF feasible = {}
                        THEN [model |-> Best(capable, q.registry, q.request, q.results),
                              downgraded |-> TRUE]
                 ELSE [model |-> Best(feasible, q.registry, q.request, q.results),
                       downgraded |-> q.request.remaining # NoModel /\ feasible # capable]
  BY DEF SelectModel, capable
<1> HIDE DEF decision
<1>9. CASE capable = {} \/ (feasible = {} /\ q.request.critical)
  <2>1. chosen = NoModel
    BY <1>8, <1>9 DEF Refused
  <2>2. affordable = {} /\ (able = {} \/ q.request.critical)
    BY <1>3, <1>5, <1>9
  <2> QED
    BY <1>1, <2>1, <2>2 DEF RoutingKeepsBudget, capable
<1>10. CASE ~(capable = {} \/ (feasible = {} /\ q.request.critical))
  <2> DEFINE models == IF feasible # {} THEN feasible ELSE capable
             choice == IF affordable # {} THEN affordable ELSE able
  <2>1. models \subseteq capable /\ models # {}
    BY <1>3, <1>10
  <2>2. chosen = Best(models, q.registry, q.request, q.results)
        /\ (decision.downgraded \/ feasible # {})
    BY <1>8, <1>10
  <2>3. choice = {q.registry[i] : i \in models}
    BY <1>5
  <2>4. PICK i \in models : /\ chosen = q.registry[i]
                            /\ \A j \in models : Value(q.registry[j]) <= Value(q.registry[i])
    BY <1>7, <2>1, <2>2
  <2>5. chosen # NoModel /\ chosen \in ToSet(q.registry)
    BY <1>4, <2>1, <2>4
  <2>6. ~(affordable = {} /\ (able = {} \/ q.request.critical))
    BY <1>5, <1>10
  <2> HIDE DEF models
  <2>7. chosen \in choice /\ \A m \in choice : Value(m) <= Value(chosen) /\ m \in ToSet(q.registry)
    BY <1>4, <2>1, <2>3, <2>4
  <2>8. answer.decision.downgraded \/ affordable # {}
    BY <1>1, <1>5, <2>2
  <2>9. ASSUME NEW m \in choice, Found(m) # {}
        PROVE  Found(chosen) # {}
    BY <1>1, <2>5, <2>7, <2>9, MeasuredFirst
  <2>10. RunEnds(answer.run, Chain(chosen), q.outcome)
    <3>1. /\ chosen.fallbacks \in Seq(ToSet(chosen.fallbacks))
          /\ \A id \in {chosen.id} \cup ToSet(chosen.fallbacks) : id # NoModel /\ q.outcome[id] \in Outcomes
      BY <1>1, <2>5, RoutingAssumption
    <3>2. PICK S : S = {chosen.id} \cup ToSet(chosen.fallbacks)
      OBVIOUS
    <3>3. <<chosen.id>> \in Seq(S) /\ chosen.fallbacks \in Seq(S)
      BY <3>1, <3>2
    <3> DEFINE chain == Chain(chosen)
    <3>4. chain \in Seq(S)
      BY <3>3, ConcatProperties DEF Chain
    <3> HIDE DEF chain
    <3>5. \A k \in 1..Len(chain) : chain[k] # NoModel /\ q.outcome[chain[k]] \in Outcomes
      <4>1. \A k \in 1..Len(chain) : chain[k] \in S
        BY <3>4
      <4> QED
        BY <3>1, <3>2, <4>1
    <3>6. RunEnds(RunChain(chain, q.outcome), chain, q.outcome)
      BY ONLY <3>4, <3>5, ChainEnds
    <3> QED
      BY <1>1, <2>5, <3>6 DEF chain
  <2> HIDE DEF choice, able, affordable, feasible, chosen
  <2> QED
    BY <1>1, <2>5, <2>6, <2>7, <2>8, <2>9, <2>10
       DEF RoutingKeepsBudget, RunEnds, capable, able, affordable, choice, chosen
<1> QED
  BY <1>9, <1>10

\* The router finds the best model that the budget allows, whatever is registered and measured
\* (select of model_routing/service.py), and its chain of fallbacks ends where it should.
THEOREM RoutingIsSound ==
  ASSUME UsualCalls
  PROVE  Spec => []RoutingKeepsBudget
<1>1. AnswersAreComputed => RoutingKeepsBudget
  BY RoutingHolds
<1> QED
  BY <1>1, AnswersInductive, PTL
-----------------------------------------------------------------------------
(* Searches: candidates are picked in order, once, and spread over the grid *)

\* The items at some positions are as many, and each of them is there.
AreTheItems(picked, items, F, n) ==
  \E m \in 0..n, at \in [1..n -> F \cup {0}] :
    /\ m = Cardinality(F) /\ DOMAIN picked = 1..m
    /\ \A k \in 1..m : at[k] \in F /\ picked[k] = items[at[k]]
    /\ \A k, l \in 1..m : at[k] = at[l] => k = l
    /\ \A i \in F : \E k \in 1..m : at[k] = i

LEMMA PickedItems ==
  ASSUME NEW n \in Nat, NEW F \in SUBSET (1..n), NEW items
  PROVE  AreTheItems(Picked(items, F), items, F, n)
<1> DEFINE m == Cardinality(F)
           Upto(i) == F \cap (1..i)
           Is(k, i) == Cardinality(Upto(i)) = k
           at == [k \in 1..n |-> IF k \in 1..m THEN CHOOSE i \in F : Is(k, i) ELSE 0]
<1>1. IsFiniteSet(1..n) /\ Cardinality(1..n) = n
  <2>1. 1 \in Int /\ n \in Int
    OBVIOUS
  <2>2. IsFiniteSet(1..n) /\ Cardinality(1..n) = IF 1 > n THEN 0 ELSE n - 1 + 1
    BY ONLY <2>1, FS_Interval
  <2> QED
    BY <2>2
<1>2. IsFiniteSet(F) /\ m \in 0..n
  <2>1. IsFiniteSet(F) /\ Cardinality(F) <= n
    BY <1>1, FS_Subset
  <2> QED
    BY <2>1, FS_CardinalityType
<1>3. ASSUME NEW i \in F
      PROVE  /\ IsFiniteSet(Upto(i)) /\ Cardinality(Upto(i)) \in 1..m /\ i \in Upto(i)
             /\ \A j \in F : j < i => Cardinality(Upto(j)) < Cardinality(Upto(i))
  <2>1. i \in Upto(i) /\ Upto(i) \subseteq F
    OBVIOUS
  <2> HIDE DEF Upto
  <2>2. IsFiniteSet(Upto(i)) /\ Cardinality(Upto(i)) <= m /\ Cardinality(Upto(i)) \in Nat
    BY <1>2, <2>1, FS_Subset, FS_CardinalityType
  <2>3. Cardinality(Upto(i)) # 0
    BY <2>1, <2>2, FS_EmptySet
  <2>4. ASSUME NEW j \in F, j < i
        PROVE  Cardinality(Upto(j)) < Cardinality(Upto(i))
    <3>1. Upto(j) \subseteq Upto(i) /\ i \notin Upto(j)
      BY <2>4 DEF Upto
    <3>2. /\ Cardinality(Upto(j)) <= Cardinality(Upto(i)) /\ IsFiniteSet(Upto(j))
          /\ Cardinality(Upto(j)) = Cardinality(Upto(i)) => Upto(j) = Upto(i)
      BY <2>2, <3>1, FS_Subset
    <3>3. Cardinality(Upto(j)) # Cardinality(Upto(i))
      BY <2>1, <3>1, <3>2
    <3>4. Cardinality(Upto(j)) \in Nat
      BY <3>2, FS_CardinalityType
    <3> QED
      BY <2>2, <3>2, <3>3, <3>4
  <2> QED
    BY <1>2, <2>1, <2>2, <2>3, <2>4
<1>4. ASSUME NEW i \in F, NEW j \in F, Cardinality(Upto(i)) = Cardinality(Upto(j))
      PROVE  i = j
  <2>1. i \in Nat /\ j \in Nat
    OBVIOUS
  <2>2. ~(i < j) /\ ~(j < i)
    <3> HIDE DEF Upto
    <3>1. Cardinality(Upto(i)) \in Nat /\ Cardinality(Upto(j)) \in Nat
      BY <1>3
    <3> QED
      BY <1>3, <1>4, <3>1
  <2> QED
    BY ONLY <2>1, <2>2
<1>5. ASSUME NEW k \in 1..m
      PROVE  \E i \in F : Is(k, i)
  <2> DEFINE R == {p \in F \X F : p[1] < p[2]}
             Lower(i) == {j \in F : <<j, i>> \in R}
  <2>1. /\ \A x, y \in F : x # y => <<x, y>> \in R \/ <<y, x>> \in R
        /\ \A x \in F : <<x, x>> \notin R
        /\ \A x, y, z \in F : <<x, y>> \in R /\ <<y, z>> \in R => <<x, z>> \in R
    <3>1. \A x, y \in F : x \in Nat /\ y \in Nat /\ (<<x, y>> \in R <=> x < y)
      OBVIOUS
    <3> HIDE DEF R
    <3> QED
      BY <3>1
  <2>2. PICK i \in F : Cardinality(Lower(i)) = k - 1
    <3> HIDE DEF R
    <3>1. \A r \in 1..Cardinality(F) : \E x \in F : Cardinality({y \in F : <<y, x>> \in R}) = r - 1
      BY ONLY <1>2, <2>1, RanksAreTaken, ZenonT(20)
    <3>2. k \in 1..Cardinality(F)
      OBVIOUS
    <3> QED
      BY <3>1, <3>2, ZenonT(20)
  <2>3. Upto(i) = Lower(i) \cup {i} /\ i \notin Lower(i) /\ Lower(i) \subseteq F
    <3>1. \A j \in F : j \in Lower(i) <=> j < i
      OBVIOUS
    <3>2. \A j \in F : j \in 1..i <=> j < i \/ j = i
      OBVIOUS
    <3>3. Lower(i) \subseteq F /\ i \in F /\ ~(i < i)
      OBVIOUS
    <3> HIDE DEF Lower
    <3>4. \A j \in F : j \in 1..i <=> j \in Lower(i) \cup {i}
      BY <3>1, <3>2
    <3>5. i \notin Lower(i)
      BY <3>1, <3>3
    <3> QED
      BY ONLY <3>3, <3>4, <3>5
  <2> HIDE DEF Upto, Lower
  <2>4. IsFiniteSet(Lower(i))
    BY <1>2, <2>3, FS_Subset
  <2>5. Cardinality(Upto(i)) = k - 1 + 1
    BY <2>2, <2>3, <2>4, FS_AddElement
  <2> QED
    BY <1>2, <2>5
<1>6. \A k \in 1..m : at[k] \in F /\ Is(k, at[k])
  <2> SUFFICES ASSUME NEW k \in 1..m
               PROVE  at[k] \in F /\ Is(k, at[k])
    OBVIOUS
  <2>1. k \in 1..n
    BY <1>2
  <2> HIDE DEF Is, m
  <2>2. at[k] = CHOOSE i \in F : Is(k, i)
    BY <2>1
  <2> HIDE DEF at
  <2> QED
    BY <1>5, <2>2
<1>7. at \in [1..n -> F \cup {0}]
  <2>1. \A k \in 1..n : at[k] \in F \cup {0}
    BY <1>2, <1>6
  <2> QED
    BY <2>1
<1>8. DOMAIN Picked(items, F) = 1..m /\ \A k \in 1..m : Picked(items, F)[k] = items[at[k]]
  BY <1>2 DEF Picked
<1> HIDE DEF at, Upto
<1>9. \A k, l \in 1..m : at[k] = at[l] => k = l
  BY <1>6
<1>10. \A i \in F : \E k \in 1..m : at[k] = i
  <2> SUFFICES ASSUME NEW i \in F
               PROVE  \E k \in 1..m : at[k] = i
    OBVIOUS
  <2>1. PICK k \in 1..m : k = Cardinality(Upto(i))
    BY <1>3
  <2>2. at[k] \in F /\ Cardinality(Upto(at[k])) = Cardinality(Upto(i))
    BY <1>6, <2>1
  <2>3. at[k] = i
    BY <1>4, <2>2
  <2> QED
    BY <2>3
<1> QED
  BY <1>2, <1>6, <1>7, <1>8, <1>9, <1>10 DEF AreTheItems

\* What is picked once is every item there is, once; where items are distinct it is all of them.
LEMMA UniqueItems ==
  ASSUME NEW n \in Nat, NEW items, DOMAIN items = 1..n
  PROVE  /\ IsInjective(Unique(items)) /\ ToSet(Unique(items)) = ToSet(items)
         /\ Unique(items) \in Seq(ToSet(items)) /\ Cardinality(ToSet(items)) \in 0..n
         /\ Len(Unique(items)) = Cardinality(ToSet(items))
         /\ IsInjective(items) => /\ Cardinality(ToSet(items)) = n
                                 /\ \A i \in 1..n : Unique(items)[i] = items[i]
<1> DEFINE F == {i \in 1..n : \A j \in 1..(i - 1) : items[j] # items[i]}
           u == Unique(items)
<1>1. u = Picked(items, F)
  BY DEF Unique
<1>2. F \in SUBSET (1..n)
  OBVIOUS
<1>3. \A i \in F, j \in 1..n : j < i => items[j] # items[i]
  OBVIOUS
<1>4. \A v \in ToSet(items) : \E i \in F : items[i] = v
  <2> SUFFICES ASSUME NEW v \in ToSet(items)
               PROVE  \E i \in F : items[i] = v
    OBVIOUS
  <2> DEFINE T == {i \in 1..n : items[i] = v}
  <2>1. T \in SUBSET Nat /\ T # {}
    BY DEF ToSet
  <2>2. PICK i \in T : \A j \in T : i <= j
    <3> HIDE DEF T
    <3> QED
      BY <2>1, LeastNumber
  <2>3. \A j \in 1..(i - 1) : j \in 1..n /\ ~(i <= j)
    OBVIOUS
  <2>4. \A j \in 1..(i - 1) : items[j] # items[i]
    BY <2>2, <2>3
  <2> QED
    BY <2>4
<1> HIDE DEF F, u
<1>5. PICK m \in 0..n, at \in [1..n -> F \cup {0}] :
        /\ m = Cardinality(F) /\ DOMAIN u = 1..m
        /\ \A k \in 1..m : at[k] \in F /\ u[k] = items[at[k]]
        /\ \A k, l \in 1..m : at[k] = at[l] => k = l
        /\ \A i \in F : \E k \in 1..m : at[k] = i
  <2>1. AreTheItems(u, items, F, n)
    BY <1>1, <1>2, PickedItems
  <2> QED
    BY <2>1 DEF AreTheItems
<1>6. \A i, j \in F : items[i] = items[j] => i = j
  <2> SUFFICES ASSUME NEW i \in F, NEW j \in F, items[i] = items[j]
               PROVE  i = j
    OBVIOUS
  <2>1. i \in 1..n /\ j \in 1..n /\ ~(i < j) /\ ~(j < i)
    BY <1>2, <1>3
  <2> QED
    BY ONLY <2>1, n \in Nat
<1>7. IsInjective(u)
  BY <1>5, <1>6 DEF IsInjective
<1>8. ToSet(items) = {items[i] : i \in 1..n} /\ ToSet(u) = {u[k] : k \in 1..m}
  BY <1>5 DEF ToSet
<1>9. ToSet(u) = ToSet(items)
  <2>1. ASSUME NEW v \in ToSet(u)
        PROVE  v \in ToSet(items)
    <3>1. PICK k \in 1..m : v = u[k]
      BY <1>8
    <3>2. at[k] \in 1..n /\ v = items[at[k]]
      BY <1>2, <1>5, <3>1
    <3> QED
      BY <1>8, <3>2
  <2>2. ASSUME NEW v \in ToSet(items)
        PROVE  v \in ToSet(u)
    <3>1. PICK i \in F : items[i] = v
      BY <1>4
    <3>2. PICK k \in 1..m : at[k] = i
      BY <1>5
    <3> QED
      BY <1>5, <1>8, <3>1, <3>2
  <2> QED
    BY <2>1, <2>2
<1>10. m = Cardinality(ToSet(items))
  <2>1. PICK f : f = [k \in 1..m |-> u[k]]
    OBVIOUS
  <2>2. f \in Surjection(1..m, ToSet(items)) /\ f \in Injection(1..m, ToSet(items))
    <3>1. f \in [1..m -> ToSet(items)]
      BY <1>8, <1>9, <2>1
    <3>2. \A v \in ToSet(items) : \E k \in 1..m : f[k] = v
      BY <1>8, <1>9, <2>1
    <3>3. IsInjective(f)
      BY <1>5, <1>7, <2>1 DEF IsInjective
    <3> QED
      BY <3>1, <3>2, <3>3 DEF Surjection, Injection
  <2>3. IsFiniteSet(1..m) /\ Cardinality(1..m) = m
    <3>1. 1 \in Int /\ m \in Int /\ m \in Nat
      OBVIOUS
    <3>2. IsFiniteSet(1..m) /\ Cardinality(1..m) = IF 1 > m THEN 0 ELSE m - 1 + 1
      BY ONLY <3>1, FS_Interval
    <3> QED
      BY <3>1, <3>2
  <2>4. PICK A, B : A = 1..m /\ B = ToSet(items)
    OBVIOUS
  <2>5. f \in Surjection(A, B) /\ f \in Injection(A, B) /\ IsFiniteSet(A)
    BY <2>2, <2>3, <2>4
  <2>6. Cardinality(B) = Cardinality(A)
    BY ONLY <2>5, FS_Surjection
  <2> QED
    BY <2>3, <2>4, <2>6
<1>11. u \in Seq(ToSet(items)) /\ Len(u) = m
  <2>1. u = [k \in 1..m |-> u[k]]
    BY <1>1, <1>5 DEF Picked
  <2>2. PICK S : S = ToSet(items)
    OBVIOUS
  <2>3. \A k \in 1..m : u[k] \in S
    BY <1>8, <1>9, <2>2
  <2>4. u \in [1..m -> S] /\ m \in Nat
    BY <2>1, <2>3
  <2>5. u \in Seq(S)
    BY ONLY <2>4, SeqDef
  <2>6. Len(u) \in Nat /\ DOMAIN u = 1..Len(u)
    BY ONLY <2>5, LenProperties
  <2>7. Len(u) = m
    BY ONLY <1>5, <2>6, m \in Nat
  <2> QED
    BY <2>2, <2>5, <2>7
<1>12. IsInjective(items) => F = 1..n
  BY DEF F, IsInjective
<1>13. IsInjective(items) => m = n
  <2>1. Cardinality(1..n) = n
    <3>1. 1 \in Int /\ n \in Int /\ n \in Nat
      OBVIOUS
    <3>2. Cardinality(1..n) = IF 1 > n THEN 0 ELSE n - 1 + 1
      BY ONLY <3>1, FS_Interval
    <3> QED
      BY <3>1, <3>2
  <2> QED
    BY <1>5, <1>12, <2>1
<1>14. ASSUME IsInjective(items), NEW i \in 1..n
       PROVE  u[i] = items[i]
  <2>1. F = 1..n
    BY <1>12, <1>14
  <2>2. \A k \in 1..n : (1..n) \cap (1..k) = 1..k
    OBVIOUS
  <2>3. \A k \in 0..n : Cardinality(1..k) = k
    <3> SUFFICES ASSUME NEW k \in 0..n
                 PROVE  Cardinality(1..k) = k
      OBVIOUS
    <3>1. 1 \in Int /\ k \in Int /\ k \in Nat
      OBVIOUS
    <3>2. Cardinality(1..k) = IF 1 > k THEN 0 ELSE k - 1 + 1
      BY ONLY <3>1, FS_Interval
    <3> QED
      BY <3>1, <3>2
  <2>4. ASSUME NEW k \in 1..n
        PROVE  Cardinality(F \cap (1..k)) = k
    <3>1. k \in 0..n /\ F \cap (1..k) = 1..k
      BY <2>1, <2>2
    <3> QED
      BY <2>3, <3>1
  <2>5. (CHOOSE k \in F : Cardinality(F \cap (1..k)) = i) = i
    BY <2>1, <2>4
  <2>6. Cardinality(F) = n /\ i \in 1..Cardinality(F)
    BY <2>1, <2>3
  <2> QED
    BY <1>1, <2>5, <2>6 DEF Picked
<1> QED
  BY <1>7, <1>9, <1>10, <1>11, <1>13, <1>14 DEF u

LEMMA AsSequence ==
  ASSUME NEW n \in Nat, NEW S, NEW f \in [1..n -> S]
  PROVE  f \in Seq(S) /\ Len(f) = n
<1>1. f \in Seq(S)
  BY ONLY n \in Nat, f \in [1..n -> S], SeqDef
<1>2. Len(f) \in Nat /\ DOMAIN f = 1..Len(f)
  BY ONLY <1>1, LenProperties
<1>3. DOMAIN f = 1..n
  OBVIOUS
<1>4. Len(f) = n
  BY ONLY <1>2, <1>3, n \in Nat
<1> QED
  BY <1>1, <1>4

LEMMA FirstItems ==
  ASSUME NEW S, NEW items \in Seq(S), NEW most \in Nat
  PROVE  /\ FirstOf(items, most) \in Seq(S)
         /\ Len(FirstOf(items, most)) = IF Len(items) < most THEN Len(items) ELSE most
         /\ Len(FirstOf(items, most)) <= Len(items)
         /\ \A i \in 1..Len(FirstOf(items, most)) : FirstOf(items, most)[i] = items[i]
<1>1. Len(items) \in Nat /\ \A i \in 1..Len(items) : items[i] \in S
  BY LenProperties
<1>2. PICK k : k = IF Len(items) < most THEN Len(items) ELSE most
  OBVIOUS
<1>3. k \in Nat /\ k <= Len(items) /\ 1 \in Int /\ k \in Int /\ \A i \in 1..k : items[i] \in S
  BY <1>1, <1>2
<1>4. FirstOf(items, most) = SubSeq(items, 1, k)
  BY <1>2 DEF FirstOf
<1>5. /\ SubSeq(items, 1, k) \in Seq(S) /\ Len(SubSeq(items, 1, k)) = IF 1 <= k THEN k - 1 + 1 ELSE 0
      /\ \A i \in 1..(k - 1 + 1) : SubSeq(items, 1, k)[i] = items[1 + i - 1]
  BY ONLY <1>3, SubSeqProperties
<1>6. Len(SubSeq(items, 1, k)) = k /\ \A i \in 1..k : SubSeq(items, 1, k)[i] = items[i]
  BY <1>3, <1>5
<1> QED
  BY <1>2, <1>3, <1>4, <1>5, <1>6

\* What is further apart than the divisor is rounded apart.
LEMMA RoundsApart ==
  ASSUME NEW d \in Nat \ {0}, NEW a \in Nat, NEW b \in Nat, a + d < b
  PROVE  RoundHalfEven(a, d) < RoundHalfEven(b, d)
<1>1. PICK q, r, p, s \in Nat :
        /\ a = d * q + r /\ r < d /\ q = a \div d /\ r = a % d
        /\ b = d * p + s /\ s < d /\ p = b \div d /\ s = b % d
  <2>1. /\ a \div d \in Nat /\ a % d \in Nat /\ a % d < d /\ a = d * (a \div d) + (a % d)
        /\ b \div d \in Nat /\ b % d \in Nat /\ b % d < d /\ b = d * (b \div d) + (b % d)
    BY Divided
  <2> QED
    BY ONLY <2>1
<1>2. q + 1 <= p
  <2> SUFFICES ASSUME p <= q
               PROVE  FALSE
    BY <1>1
  <2>1. PICK e \in Nat : q = p + e
    BY <1>1
  <2>2. d * q = d * p + d * e /\ d * e \in Nat /\ d * p \in Nat
    BY <2>1
  <2> QED
    BY <1>1, <2>2
<1>3. /\ RoundHalfEven(a, d) = IF 2 * r > d \/ (2 * r = d /\ q % 2 = 1) THEN q + 1 ELSE q
      /\ RoundHalfEven(b, d) = IF 2 * s > d \/ (2 * s = d /\ p % 2 = 1) THEN p + 1 ELSE p
  BY <1>1 DEF RoundHalfEven
<1>4. CASE p = q + 1
  <2>1. d * p = d * q + d /\ d * q \in Nat
    BY <1>4
  <2>2. r < s
    BY <1>1, <2>1
  <2>3. 2 * r >= d => 2 * s > d
    BY <2>2
  <2> QED
    BY <1>3, <1>4, <2>3
<1>5. CASE p # q + 1
  BY <1>2, <1>3, <1>5
<1> QED
  BY <1>4, <1>5

\* Fewer picks than there are candidates are all different, and reach both ends.
LEMMA PicksSpread ==
  ASSUME NEW n \in Nat, NEW picks \in Nat, picks > 1, picks < n
  PROVE  /\ \A i \in 1..picks : DiversePick(i, n, picks) \in 1..n
         /\ \A i, j \in 1..picks : DiversePick(i, n, picks) = DiversePick(j, n, picks) => i = j
         /\ DiversePick(1, n, picks) = 1 /\ DiversePick(picks, n, picks) = n
<1> DEFINE pick(i) == DiversePick(i, n, picks)
<1>1. PICK c, d \in Nat \ {0} : c = n - 1 /\ d = picks - 1 /\ d < c
  <2>1. n - 1 \in Nat \ {0} /\ picks - 1 \in Nat \ {0} /\ picks - 1 < n - 1
    OBVIOUS
  <2> QED
    BY ONLY <2>1
<1>2. \A i \in 1..picks : pick(i) = RoundHalfEven((i - 1) * c, d) + 1 /\ (i - 1) * c \in Nat
  <2> SUFFICES ASSUME NEW i \in 1..picks
               PROVE  pick(i) = RoundHalfEven((i - 1) * c, d) + 1 /\ (i - 1) * c \in Nat
    OBVIOUS
  <2>1. i - 1 \in Nat
    OBVIOUS
  <2>2. (i - 1) * c \in Nat
    BY ONLY <2>1, c \in Nat
  <2> QED
    BY <1>1, <2>2 DEF DiversePick
<1>3. \A i \in 1..picks : pick(i) \in Int
  <2> SUFFICES ASSUME NEW i \in 1..picks
               PROVE  pick(i) \in Int
    OBVIOUS
  <2>1. PICK a \in Nat : a = (i - 1) * c
    BY <1>2
  <2>2. a \div d \in Nat
    BY Divided
  <2>3. RoundHalfEven(a, d) \in Int
    BY <2>2 DEF RoundHalfEven
  <2> QED
    BY <1>2, <2>1, <2>3
<1>4. ASSUME NEW i \in 1..picks, NEW j \in 1..picks, i < j
      PROVE  pick(i) < pick(j)
  <2>1. PICK a, b \in Nat : a = (i - 1) * c /\ b = (j - 1) * c
    BY <1>2
  <2>2. PICK e \in Nat : e = j - i - 1
    BY <1>4
  <2>3. (j - 1) * c = (i - 1) * c + c + e * c /\ e * c \in Nat
    BY <2>2
  <2>4. a + d < b
    BY <1>1, <2>1, <2>3
  <2>5. RoundHalfEven(a, d) < RoundHalfEven(b, d)
    BY <2>4, RoundsApart
  <2>6. pick(i) = RoundHalfEven(a, d) + 1 /\ pick(j) = RoundHalfEven(b, d) + 1
    BY <1>2, <2>1
  <2> HIDE DEF pick
  <2>7. RoundHalfEven(a, d) \in Int /\ RoundHalfEven(b, d) \in Int
    BY Divided DEF RoundHalfEven
  <2> QED
    BY <2>5, <2>6, <2>7
<1>5. pick(1) = 1 /\ pick(picks) = n
  <2>1. PICK zero, full \in Nat : zero = 0 /\ full = d * c
    OBVIOUS
  <2>2. zero = d * 0 + 0 /\ full = d * c + 0 /\ 0 \in 0..(d - 1)
    BY <2>1
  <2>3. zero \div d = 0 /\ zero % d = 0 /\ full \div d = c /\ full % d = 0
    BY <2>2, Quotient
  <2>4. RoundHalfEven(zero, d) = 0 /\ RoundHalfEven(full, d) = c
    BY <2>3 DEF RoundHalfEven
  <2>5. 1 \in 1..picks /\ picks \in 1..picks /\ (1 - 1) * c = zero /\ (picks - 1) * c = full
    BY <1>1, <2>1
  <2>6. pick(1) = RoundHalfEven(zero, d) + 1 /\ pick(picks) = RoundHalfEven(full, d) + 1
    BY <1>2, <2>5
  <2> QED
    BY <1>1, <2>4, <2>6
<1> HIDE DEF pick
<1>6. ASSUME NEW i \in 1..picks
      PROVE  pick(i) \in 1..n
  <2>1. 1 \in 1..picks /\ picks \in 1..picks
    OBVIOUS
  <2>2. (i = 1 \/ pick(1) < pick(i)) /\ (i = picks \/ pick(i) < pick(picks))
    BY <1>4, <2>1
  <2> QED
    BY <1>3, <1>5, <2>2
<1>7. ASSUME NEW i \in 1..picks, NEW j \in 1..picks, pick(i) = pick(j)
      PROVE  i = j
  <2>1. ~(i < j) /\ ~(j < i)
    BY <1>3, <1>4, <1>7
  <2> QED
    BY <2>1
<1> QED
  BY <1>5, <1>6, <1>7 DEF pick
\* A spread has as many candidates as it may, no candidate more often than the list, and
\* both ends of it.
LEMMA SpreadItems ==
  ASSUME NEW S, NEW items \in Seq(S), NEW most \in Nat
  PROVE  LET spread == DiverseCandidates(items, most)
         IN  /\ spread \in Seq(S)
             /\ Len(spread) = IF Len(items) < most THEN Len(items) ELSE most
             /\ \A i \in 1..Len(spread) : \E j \in 1..Len(items) : spread[i] = items[j]
             /\ IsInjective(items) => IsInjective(spread)
             /\ Len(spread) > 1 => /\ spread[1] = items[1]
                                  /\ spread[Len(spread)] = items[Len(items)]
<1> DEFINE spread == DiverseCandidates(items, most)
<1>1. PICK n \in Nat : n = Len(items)
  BY LenProperties
<1>2. DOMAIN items = 1..n /\ \A i \in 1..n : items[i] \in S
  BY <1>1, LenProperties
<1>3. CASE n <= most
  <2>1. spread = items
    BY <1>1, <1>3 DEF DiverseCandidates
  <2>2. Len(items) = IF Len(items) < most THEN Len(items) ELSE most
    BY <1>1, <1>3
  <2>3. \A i \in 1..Len(items) : \E j \in 1..Len(items) : items[i] = items[j]
    OBVIOUS
  <2> HIDE DEF spread
  <2> QED
    BY ONLY <2>1, <2>2, <2>3, items \in Seq(S) DEF spread
<1>4. CASE n > most /\ most = 1
  <2>1. spread = <<items[1]>>
    BY <1>1, <1>4 DEF DiverseCandidates
  <2>2. items[1] \in S /\ 1 \in 1..Len(items)
    BY <1>1, <1>2, <1>4
  <2> HIDE DEF spread
  <2>3. spread \in Seq(S) /\ Len(spread) = 1 /\ spread[1] = items[1] /\ DOMAIN spread = {1}
    BY ONLY <2>1, <2>2
  <2>4. IsInjective(spread)
    BY <2>3 DEF IsInjective
  <2> QED
    BY <1>1, <1>4, <2>2, <2>3, <2>4 DEF spread
<1>5. CASE n > most /\ most # 1
  <2> DEFINE at(i) == DiversePick(i, n, most)
  <2>1. spread = [i \in 1..most |-> items[at(i)]]
    BY <1>1, <1>5 DEF DiverseCandidates
  <2>2. /\ \A i \in 1..most : at(i) \in 1..n
        /\ \A i, j \in 1..most : at(i) = at(j) => i = j
        /\ most > 1 => at(1) = 1 /\ at(most) = n
    BY <1>5, PicksSpread
  <2> HIDE DEF at, spread
  <2>3. spread \in [1..most -> S]
    BY <1>2, <2>1, <2>2
  <2>4. spread \in Seq(S) /\ Len(spread) = most
    BY ONLY <2>3, most \in Nat, AsSequence
  <2>5. \A i \in 1..most : spread[i] = items[at(i)]
    BY <2>1
  <2>6. \A i \in 1..Len(spread) : \E j \in 1..Len(items) : spread[i] = items[j]
    BY <1>1, <2>2, <2>4, <2>5
  <2>7. IsInjective(items) => IsInjective(spread)
    BY <1>2, <2>2, <2>3, <2>5 DEF IsInjective
  <2>8. most > 1 => spread[1] = items[1] /\ spread[most] = items[n]
    BY <2>2, <2>5
  <2> QED
    BY <1>1, <1>5, <2>4, <2>6, <2>7, <2>8 DEF spread
<1> QED
  BY <1>1, <1>3, <1>4, <1>5

\* The place of an item in a table read row by row.
LEMMA RowAndColumn ==
  ASSUME NEW a \in Nat, NEW b \in Nat, NEW k \in 1..(a * b)
  PROVE  /\ ((k - 1) \div b) + 1 \in 1..a /\ ((k - 1) % b) + 1 \in 1..b
         /\ k = b * ((k - 1) \div b) + ((k - 1) % b) + 1
<1>1. b \in Nat \ {0}
  <2>1. b = 0 => a * b = 0
    OBVIOUS
  <2> QED
    BY <2>1
<1>2. PICK c \in Nat : c = k - 1 /\ c < a * b
  OBVIOUS
<1>3. c \div b \in Nat /\ c % b \in 0..(b - 1) /\ c = b * (c \div b) + (c % b)
  BY <1>1, Divided
<1>4. PICK q, r : q = c \div b /\ r = c % b
  OBVIOUS
<1>5. q \in Nat /\ r \in 0..(b - 1) /\ c = b * q + r
  BY ONLY <1>3, <1>4
<1>6. q < a
  <2> SUFFICES ASSUME a <= q
               PROVE  FALSE
    BY <1>5
  <2>1. PICK e \in Nat : q = a + e
    BY <1>5
  <2>2. b * q = a * b + b * e
    BY <2>1
  <2>3. PICK x, y, z \in Nat : x = a * b /\ y = b * e /\ z = b * q
    BY <1>5
  <2>4. c < x /\ c = z + r /\ z = x + y
    BY <1>2, <1>5, <2>2, <2>3
  <2> QED
    BY ONLY <1>2, <1>5, <2>3, <2>4
<1>7. q + 1 \in 1..a /\ r + 1 \in 1..b /\ k = c + 1
  BY <1>2, <1>5, <1>6
<1> QED
  BY ONLY <1>2, <1>4, <1>5, <1>7

\* The product of the values of some parameters is a list of rows.
LEMMA ProductIsList ==
  ASSUME NEW space, Len(space) \in Nat, NEW U,
         \A i \in 1..Len(space) : space[i].values \in Seq(U)
  PROVE  Product(space) \in Seq(Seq(U))
<1> DEFINE n == Len(space)
           Tables == Seq(Seq(U))
           After(table, i) ==
             [k \in 1..(Len(table) * Len(space[i].values)) |->
                Append(table[((k - 1) \div Len(space[i].values)) + 1],
                       space[i].values[((k - 1) % Len(space[i].values)) + 1])]
           step == [t \in 1..n |-> [table \in Tables |-> After(table, t)]]
           IsUpTo(f) == f = [i \in 0..n |-> IF i = 0 THEN << << >> >> ELSE After(f[i - 1], i)]
           upTo == CHOOSE f : IsUpTo(f)
<1>1. n \in Nat /\ << << >> >> \in Tables
  OBVIOUS
<1>2. ASSUME NEW i \in 1..n, NEW table \in Tables
      PROVE  After(table, i) \in Tables
  <2>1. PICK values \in Seq(U) : values = space[i].values
    OBVIOUS
  <2>2. PICK a, b \in Nat : a = Len(table) /\ b = Len(values)
    BY LenProperties
  <2>3. ASSUME NEW k \in 1..(a * b)
        PROVE  Append(table[((k - 1) \div b) + 1], values[((k - 1) % b) + 1]) \in Seq(U)
    <3>1. PICK i1, j1 : i1 = ((k - 1) \div b) + 1 /\ j1 = ((k - 1) % b) + 1
      OBVIOUS
    <3>2. i1 \in 1..a /\ j1 \in 1..b
      BY <3>1, RowAndColumn
    <3>3. table[i1] \in Seq(U) /\ values[j1] \in U
      BY <2>2, <3>2
    <3>4. Append(table[i1], values[j1]) \in Seq(U)
      BY <3>3
    <3> QED
      BY <3>1, <3>4
  <2>4. a * b \in Nat
    BY <2>2
  <2>5. PICK l \in Nat : l = a * b
    BY <2>4
  <2>6. After(table, i) \in [1..l -> Seq(U)]
    BY <2>1, <2>2, <2>3, <2>5
  <2> HIDE DEF After
  <2> QED
    BY <2>6, AsSequence
<1> HIDE DEF After
<1>3. step \in [1..n -> [Tables -> Tables]]
  BY <1>2
<1>4. PICK g : Iterated(g, n, Tables, << << >> >>, step)
  <2> HIDE DEF step, n, Tables
  <2> QED
    BY <1>1, <1>3, Iterates
<1>5. \A t \in 1..n : t - 1 \in 0..n /\ t \in 0..n /\ t # 0
  OBVIOUS
<1>6. g \in [0..n -> Tables] /\ g[0] = << << >> >> /\ \A t \in 1..n : g[t] = After(g[t - 1], t)
  <2>1. \A t \in 1..n : g[t - 1] \in Tables
    BY <1>4, <1>5 DEF Iterated
  <2> QED
    BY <1>4, <2>1 DEF Iterated
<1>7. IsUpTo(g)
  <2>1. g = [t \in 0..n |-> g[t]]
    BY <1>6
  <2>2. ASSUME NEW t \in 0..n
        PROVE  g[t] = IF t = 0 THEN << << >> >> ELSE After(g[t - 1], t)
    <3>1. t = 0 \/ t \in 1..n
      BY <1>1
    <3>2. CASE t = 0
      BY <1>6, <3>2
    <3>3. CASE t \in 1..n
      BY ONLY <1>5, <1>6, <3>3
    <3> QED
      BY <3>1, <3>2, <3>3
  <2> QED
    BY <2>1, <2>2
<1>8. Product(space) = upTo[n]
  BY DEF Product, After
<1>9. IsUpTo(upTo)
  BY <1>7
<1> HIDE DEF upTo
<1>10. ASSUME NEW t \in 0..n
       PROVE  upTo[t] = IF t = 0 THEN << << >> >> ELSE After(upTo[t - 1], t)
  <2> DEFINE value == [i \in 0..n |-> IF i = 0 THEN << << >> >> ELSE After(upTo[i - 1], i)]
  <2>1. upTo = value
    BY <1>9
  <2>2. value[t] = IF t = 0 THEN << << >> >> ELSE After(upTo[t - 1], t)
    OBVIOUS
  <2> HIDE DEF value
  <2> QED
    BY <2>1, <2>2
<1> HIDE DEF IsUpTo, n, Tables
<1>11. upTo[0] \in Tables
  <2>1. 0 \in 0..n
    BY <1>1
  <2> QED
    BY <1>1, <1>10, <2>1
<1>12. \A t \in 1..n : upTo[t - 1] \in Tables => upTo[t] \in Tables
  BY <1>2, <1>5, <1>10
<1>13. \A t \in 0..n : upTo[t] \in Tables
  <2> DEFINE T == {t \in 0..n : upTo[t] \in Tables}
  <2>1. 0 \in T
    BY <1>1, <1>11
  <2>2. \A t \in 1..n : t - 1 \in T => t \in T
    BY <1>5, <1>12
  <2>3. \A t \in 0..n : t \in T
    <3> HIDE DEF T
    <3> QED
      BY <1>1, <2>1, <2>2, Induct
  <2> QED
    BY <2>3
<1>14. upTo[n] \in Tables
  BY <1>1, <1>13
<1> QED
  BY <1>8, <1>14 DEF Tables
\* What is chosen from a list of candidates: the first of its different ones.
AreFirst(chosen, items, n, S, most) ==
  LET different == Cardinality(ToSet(items))
  IN  /\ chosen \in Seq(S) /\ IsInjective(chosen) /\ different \in Nat
      /\ Len(chosen) = IF different < most THEN different ELSE most
      /\ IsInjective(items) => different = n /\ \A i \in 1..Len(chosen) : chosen[i] = items[i]

LEMMA FirstOfUnique ==
  ASSUME NEW n \in Nat, NEW S, NEW items \in [1..n -> S], NEW most \in Nat
  PROVE  AreFirst(FirstOf(Unique(items), most), items, n, S, most)
<1> DEFINE T == ToSet(items)
           unique == Unique(items)
           chosen == FirstOf(unique, most)
<1>1. DOMAIN items = 1..n /\ T \subseteq S
  BY DEF ToSet
<1>2. /\ IsInjective(unique) /\ unique \in Seq(T) /\ Len(unique) = Cardinality(T)
      /\ Cardinality(T) \in 0..n
      /\ IsInjective(items) => Cardinality(T) = n /\ \A i \in 1..n : unique[i] = items[i]
  BY <1>1, UniqueItems
<1> HIDE DEF T, unique
<1>3. unique \in Seq(S)
  BY <1>1, <1>2
<1>4. /\ chosen \in Seq(S) /\ Len(chosen) = IF Len(unique) < most THEN Len(unique) ELSE most
      /\ Len(chosen) <= Len(unique)
      /\ \A i \in 1..Len(chosen) : chosen[i] = unique[i]
  BY <1>3, FirstItems
<1> HIDE DEF chosen
<1>5. /\ Len(chosen) \in Nat /\ DOMAIN chosen = 1..Len(chosen)
      /\ Len(unique) \in Nat /\ DOMAIN unique = 1..Len(unique)
  BY <1>3, <1>4, LenProperties
<1>6. IsInjective(chosen)
  <2>1. \A i \in 1..Len(chosen) : i \in 1..Len(unique)
    BY <1>4, <1>5
  <2> QED
    BY <1>2, <1>4, <1>5, <2>1 DEF IsInjective
<1>7. ASSUME IsInjective(items), NEW i \in 1..Len(chosen)
      PROVE  chosen[i] = items[i]
  <2>1. i \in 1..n
    BY <1>2, <1>4, <1>5, <1>7
  <2> QED
    BY <1>2, <1>4, <1>7, <2>1
<1>8. Cardinality(T) \in Nat
  BY <1>2
<1> QED
  BY <1>2, <1>4, <1>6, <1>7, <1>8 DEF T, chosen, unique, AreFirst

\* The grid is a list of candidates that no constraint rejects.
GridIsSound(grid, constraints) ==
  /\ Len(grid) \in Nat /\ DOMAIN grid = 1..Len(grid) /\ grid \in Seq(ToSet(grid))
  /\ \A c \in ToSet(grid) : ~Rejected(c, constraints)

LEMMA GridHolds ==
  ASSUME NEW space, NEW constraints, space \in Seq(ToSet(space)),
         \A p \in ToSet(space) : p.values \in Seq(ToSet(p.values))
  PROVE  GridIsSound(GridCandidates(space, constraints), constraints)
<1> DEFINE grid == GridCandidates(space, constraints)
           all == Product(space)
           candidate == [i \in 1..Len(all) |-> Named(space, all[i])]
           F == {i \in 1..Len(all) : ~Rejected(candidate[i], constraints)}
           U == UNION {ToSet(p.values) : p \in ToSet(space)}
<1>1. Len(space) \in Nat /\ \A i \in 1..Len(space) : space[i] \in ToSet(space)
  <2>1. PICK S : S = ToSet(space)
    OBVIOUS
  <2>2. Len(space) \in Nat /\ \A i \in 1..Len(space) : space[i] \in S
    BY ONLY <2>1, space \in Seq(ToSet(space))
  <2> QED
    BY <2>1, <2>2
<1>2. ASSUME NEW i \in 1..Len(space)
      PROVE  space[i].values \in Seq(U)
  <2>1. PICK V : V = ToSet(space[i].values)
    OBVIOUS
  <2>2. V \subseteq U /\ space[i].values \in Seq(V)
    BY <1>1, <2>1
  <2> QED
    BY ONLY <2>2
<1>3. all \in Seq(Seq(U))
  <2>1. PICK V : V = U
    OBVIOUS
  <2>2. \A i \in 1..Len(space) : space[i].values \in Seq(V)
    BY <1>2, <2>1
  <2>3. Product(space) \in Seq(Seq(V))
    BY ONLY <1>1, <2>2, ProductIsList
  <2> QED
    BY <2>1, <2>3
<1>4. PICK n \in Nat : n = Len(all)
  BY <1>3
<1>5. grid = Picked(candidate, F) /\ F \in SUBSET (1..n)
  BY <1>4 DEF GridCandidates
<1>6. \A i \in F : ~Rejected(candidate[i], constraints)
  OBVIOUS
<1> HIDE DEF candidate, F, grid, U
<1>7. PICK m \in 0..n, at \in [1..n -> F \cup {0}] :
        /\ m = Cardinality(F) /\ DOMAIN grid = 1..m
        /\ \A k \in 1..m : at[k] \in F /\ grid[k] = candidate[at[k]]
  <2>1. AreTheItems(grid, candidate, F, n)
    BY <1>5, PickedItems
  <2> QED
    BY <2>1 DEF AreTheItems
<1>8. m \in Nat /\ grid = [k \in 1..m |-> grid[k]]
  BY <1>5, <1>7 DEF Picked
<1>9. PICK S : S = ToSet(grid)
  OBVIOUS
<1>10. \A k \in 1..m : grid[k] \in S
  BY <1>7, <1>9 DEF ToSet
<1>11. grid \in [1..m -> S]
  BY <1>8, <1>10
<1>12. grid \in Seq(S) /\ Len(grid) = m
  BY <1>8, <1>11, AsSequence
<1>13. \A c \in ToSet(grid) : ~Rejected(c, constraints)
  BY <1>6, <1>7 DEF ToSet
<1> QED
  BY <1>7, <1>8, <1>9, <1>12, <1>13 DEF GridIsSound, grid
\* What a search chooses: no candidate twice, all from the grid, as many as it may while there
\* are more, both ends of a grid without repeats when it spreads over it.
IsChosen(chosen, grid, method, most) ==
  LET different == Cardinality(ToSet(grid))
      enough == IF different < most THEN different ELSE most
  IN  /\ chosen \in Seq(ToSet(grid)) /\ IsInjective(chosen)
      /\ Len(chosen) \in Nat /\ DOMAIN chosen = 1..Len(chosen) /\ Len(chosen) <= most
      /\ method \in {"grid", "random"} \/ (method = "spread" /\ IsInjective(grid)) => Len(chosen) = enough
      /\ method = "spread" /\ IsInjective(grid) /\ Len(chosen) > 1 =>
           chosen[1] = grid[1] /\ chosen[Len(chosen)] = grid[Len(grid)]

LEMMA VariantsAreChosen ==
  ASSUME NEW space, NEW constraints, NEW most \in Nat,
         NEW method \in {"grid", "random", "spread", "bayesian"},
         GridIsSound(GridCandidates(space, constraints), constraints),
         NEW chosen \in Variants(space, constraints, method, most)
  PROVE  IsChosen(chosen, GridCandidates(space, constraints), method, most)
<1> DEFINE found == GridCandidates(space, constraints)
           proposals == UNION {[1..k -> ToSet(found)] : k \in 0..most}
<1>1. PICK grid : grid = found
  OBVIOUS
<1>2. PICK S, n : S = ToSet(grid) /\ n = Len(grid) /\ n \in Nat
  BY <1>1 DEF GridIsSound
<1>3. DOMAIN grid = 1..n /\ grid \in Seq(S) /\ grid \in [1..n -> S]
  <2>1. grid \in Seq(S) /\ DOMAIN grid = 1..n
    BY <1>1, <1>2 DEF GridIsSound
  <2> QED
    BY <1>2, <2>1
<1>4. /\ method = "grid" => chosen = FirstOf(Unique(grid), most)
      /\ method = "random" =>
           chosen \in [DOMAIN FirstOf(Unique(grid), most) -> S] /\ IsInjective(chosen)
      /\ method = "spread" => chosen = FirstOf(Unique(DiverseCandidates(grid, most)), most)
      /\ method = "bayesian" =>
           \E k \in 0..most : \E p \in [1..k -> S] : chosen = FirstOf(Unique(p), most)
  <2> HIDE DEF found
  <2>1. chosen \in CASE method = "grid"     -> {FirstOf(Unique(grid), most)}
                     [] method = "random"   -> {p \in [DOMAIN FirstOf(Unique(grid), most) -> S] :
                                                  IsInjective(p)}
                     [] method = "spread"   -> {FirstOf(Unique(DiverseCandidates(grid, most)), most)}
                     [] method = "bayesian" ->
                          {FirstOf(Unique(p), most) : p \in UNION {[1..k -> S] : k \in 0..most}}
    BY <1>1, <1>2 DEF Variants, found
  <2>2. CASE method = "grid"
    BY <2>1, <2>2
  <2>3. CASE method = "random"
    BY <2>1, <2>3
  <2>4. CASE method = "spread"
    BY <2>1, <2>4
  <2>5. CASE method = "bayesian"
    <3>1. PICK p \in UNION {[1..k -> S] : k \in 0..most} : chosen = FirstOf(Unique(p), most)
      BY <2>1, <2>5
    <3> QED
      BY <2>5, <3>1
  <2> QED
    BY <2>2, <2>3, <2>4, <2>5
<1> HIDE DEF found, proposals
<1>5. PICK different : different = Cardinality(S)
  OBVIOUS
<1> DEFINE enough == IF different < most THEN different ELSE most
           first == FirstOf(Unique(grid), most)
<1>6. /\ first \in Seq(S) /\ IsInjective(first) /\ different \in Nat /\ Len(first) = enough
      /\ IsInjective(grid) => different = n
  <2>1. AreFirst(first, grid, n, S, most)
    BY <1>2, <1>3, FirstOfUnique
  <2> HIDE DEF first
  <2> QED
    BY <1>2, <1>5, <2>1 DEF AreFirst
<1>7. enough \in Nat /\ enough <= most
  BY <1>6
<1> HIDE DEF first, enough
<1> SUFFICES /\ chosen \in Seq(S) /\ IsInjective(chosen) /\ Len(chosen) <= most
             /\ method \in {"grid", "random"} \/ (method = "spread" /\ IsInjective(grid)) =>
                  Len(chosen) = enough
             /\ method = "spread" /\ IsInjective(grid) /\ Len(chosen) > 1 =>
                  chosen[1] = grid[1] /\ chosen[Len(chosen)] = grid[n]
  <2>1. chosen \in Seq(S) => Len(chosen) \in Nat /\ DOMAIN chosen = 1..Len(chosen)
    BY LenProperties
  <2> QED
    <3>1. IsChosen(chosen, grid, method, most)
      BY <1>2, <1>5, <2>1, ZenonT(20) DEF IsChosen, enough
    <3> QED
      BY <1>1, <3>1 DEF found
<1>8. CASE method = "grid"
  BY <1>4, <1>6, <1>7, <1>8 DEF first
<1>9. CASE method = "random"
  <2>1. PICK m \in Nat : m = Len(first) /\ DOMAIN first = 1..m
    BY <1>6, LenProperties
  <2>2. chosen \in [1..m -> S] /\ IsInjective(chosen)
    BY <1>4, <1>9, <2>1 DEF first
  <2>3. chosen \in Seq(S) /\ Len(chosen) = m
    BY <2>2, AsSequence
  <2> QED
    BY <1>6, <1>7, <1>9, <2>1, <2>2, <2>3
<1>10. CASE method = "spread"
  <2>1. PICK spread : spread = DiverseCandidates(grid, most)
    OBVIOUS
  <2>2. /\ spread \in Seq(S) /\ Len(spread) = IF n < most THEN n ELSE most
        /\ IsInjective(grid) => IsInjective(spread)
        /\ Len(spread) > 1 => spread[1] = grid[1] /\ spread[Len(spread)] = grid[n]
    BY <1>2, <1>3, <2>1, SpreadItems
  <2>3. PICK m \in Nat : m = Len(spread) /\ spread \in [1..m -> S]
    BY <2>2, LenProperties
  <2>4. LET other == Cardinality(ToSet(spread))
        IN  /\ chosen \in Seq(S) /\ IsInjective(chosen) /\ other \in Nat
            /\ Len(chosen) = IF other < most THEN other ELSE most
            /\ IsInjective(spread) => other = m /\ \A i \in 1..Len(chosen) : chosen[i] = spread[i]
    <3>1. AreFirst(FirstOf(Unique(spread), most), spread, m, S, most)
      BY <2>3, FirstOfUnique
    <3>2. chosen = FirstOf(Unique(spread), most)
      BY <1>4, <1>10, <2>1
    <3> QED
      BY ONLY <3>1, <3>2 DEF AreFirst
  <2>5. Len(chosen) <= most
    BY <2>4
  <2>6. ASSUME IsInjective(grid)
        PROVE  Len(chosen) = m /\ m = enough /\ \A i \in 1..m : chosen[i] = spread[i]
    <3>1. m = enough /\ m <= most
      BY <1>6, <2>2, <2>3, <2>6 DEF enough
    <3> QED
      BY <2>2, <2>4, <2>6, <3>1
  <2>7. ASSUME IsInjective(grid), m > 1
        PROVE  chosen[1] = grid[1] /\ chosen[m] = grid[n]
    <3>1. 1 \in 1..m /\ m \in 1..m
      BY <2>7
    <3> QED
      BY <2>2, <2>3, <2>6, <2>7, <3>1
  <2> QED
    BY <1>10, <2>4, <2>5, <2>6, <2>7
<1>11. CASE method = "bayesian"
  <2>1. PICK k \in 0..most : \E p \in [1..k -> S] : chosen = FirstOf(Unique(p), most)
    BY <1>4, <1>11
  <2>2. PICK p \in [1..k -> S] : chosen = FirstOf(Unique(p), most)
    BY <2>1
  <2>3. k \in Nat
    OBVIOUS
  <2>4. LET other == Cardinality(ToSet(p))
        IN  /\ chosen \in Seq(S) /\ IsInjective(chosen) /\ other \in Nat
            /\ Len(chosen) = IF other < most THEN other ELSE most
    <3>1. AreFirst(FirstOf(Unique(p), most), p, k, S, most)
      BY <2>3, FirstOfUnique
    <3> QED
      BY ONLY <2>2, <3>1 DEF AreFirst
  <2> QED
    BY <1>11, <2>4
<1> QED
  BY <1>8, <1>9, <1>10, <1>11

\* The plan of a campaign keeps to its experiments, and finishes each symbol before the next.
IsPlan(plan, symbols, variants, experiments) ==
  /\ Len(plan) <= experiments
  /\ IsInjective(symbols) => IsInjective(plan)
  /\ \A i \in DOMAIN plan : i > 1 /\ plan[i].symbol # plan[i - 1].symbol =>
       \A v \in ToSet(variants) : \E j \in 1..(i - 1) :
         plan[j] = [symbol |-> plan[i - 1].symbol, parameters |-> v]

LEMMA PlanHolds ==
  ASSUME NEW budget, budget.experiments \in Nat, NEW Y, NEW symbols \in Seq(Y),
         NEW S, NEW variants \in Seq(S), IsInjective(variants)
  PROVE  IsPlan(PlanCampaign(symbols, variants, budget), symbols, variants, budget.experiments)
<1>1. PICK m, n \in Nat : m = Len(symbols) /\ n = Len(variants)
  BY LenProperties
<1>2. /\ symbols \in [1..m -> Y] /\ DOMAIN symbols = 1..m
      /\ variants \in [1..n -> S] /\ DOMAIN variants = 1..n
  BY <1>1, LenProperties
<1> DEFINE RowOf(k) == ((k - 1) \div n) + 1
           ColumnOf(k) == ((k - 1) % n) + 1
           R == [symbol : Y, parameters : S]
           all == [k \in 1..(m * n) |->
                     [symbol |-> symbols[RowOf(k)], parameters |-> variants[ColumnOf(k)]]]
           plan == FirstOf(all, budget.experiments)
<1>3. PlanCampaign(symbols, variants, budget) = plan
  BY <1>1 DEF PlanCampaign
<1>4. PICK l \in Nat : l = m * n
  <2>1. m * n \in Nat
    OBVIOUS
  <2> QED
    BY <2>1
<1>5. \A k \in 1..l : /\ RowOf(k) \in 1..m /\ ColumnOf(k) \in 1..n
                      /\ k = n * ((k - 1) \div n) + ((k - 1) % n) + 1
  BY <1>4, RowAndColumn
<1>6. \A k \in 1..l : k = n * (RowOf(k) - 1) + ColumnOf(k)
  <2> SUFFICES ASSUME NEW k \in 1..l
               PROVE  k = n * (RowOf(k) - 1) + ColumnOf(k)
    OBVIOUS
  <2>1. PICK q, r : q = (k - 1) \div n /\ r = (k - 1) % n
    OBVIOUS
  <2>2. (k - 1) \div n \in Int /\ (k - 1) % n \in Int
    <3>1. n \in Nat \ {0} /\ k - 1 \in Nat
      BY <1>5
    <3> QED
      BY ONLY <3>1, Divided
  <2>3. q \in Int /\ r \in Int /\ k = n * q + r + 1 /\ RowOf(k) = q + 1 /\ ColumnOf(k) = r + 1
    BY <1>5, <2>1, <2>2
  <2> HIDE DEF RowOf, ColumnOf
  <2> QED
    BY ONLY <2>3, n \in Nat
<1> HIDE DEF RowOf, ColumnOf
<1>7. \A k \in 1..l : /\ all[k].symbol = symbols[RowOf(k)] /\ all[k].parameters = variants[ColumnOf(k)]
                      /\ all[k] = [symbol |-> symbols[RowOf(k)], parameters |-> variants[ColumnOf(k)]]
  BY <1>4
<1>8. all \in [1..l -> R]
  <2>1. \A k \in 1..l : symbols[RowOf(k)] \in Y /\ variants[ColumnOf(k)] \in S
    BY <1>2, <1>5
  <2> QED
    BY <1>4, <2>1
<1> HIDE DEF all, R
<1>9. all \in Seq(R) /\ Len(all) = l
  BY <1>8, AsSequence
<1>10. /\ plan \in Seq(R) /\ Len(plan) <= l /\ Len(plan) <= budget.experiments
       /\ \A i \in 1..Len(plan) : plan[i] = all[i]
  <2>1. /\ plan \in Seq(R) /\ Len(plan) <= Len(all)
        /\ Len(plan) = IF Len(all) < budget.experiments THEN Len(all) ELSE budget.experiments
        /\ \A i \in 1..Len(plan) : plan[i] = all[i]
    BY <1>9, FirstItems
  <2> QED
    BY <1>9, <2>1
<1> HIDE DEF plan
<1>11. PICK p \in Nat : p = Len(plan) /\ DOMAIN plan = 1..p /\ p <= l /\ \A i \in 1..p : i \in 1..l
  BY <1>10, LenProperties
<1>12. \A i \in 1..p : /\ plan[i].symbol = symbols[RowOf(i)] /\ plan[i].parameters = variants[ColumnOf(i)]
                       /\ plan[i] = [symbol |-> symbols[RowOf(i)], parameters |-> variants[ColumnOf(i)]]
  BY <1>7, <1>10, <1>11
<1>13. ASSUME IsInjective(symbols)
       PROVE  IsInjective(plan)
  <2> SUFFICES ASSUME NEW i \in 1..p, NEW j \in 1..p, plan[i] = plan[j]
               PROVE  i = j
    BY <1>11 DEF IsInjective
  <2>1. symbols[RowOf(i)] = symbols[RowOf(j)] /\ variants[ColumnOf(i)] = variants[ColumnOf(j)]
    BY <1>12
  <2>2. RowOf(i) = RowOf(j) /\ ColumnOf(i) = ColumnOf(j)
    BY <1>2, <1>5, <1>11, <1>13, <2>1 DEF IsInjective
  <2> QED
    BY <1>6, <1>11, <2>2
<1>14. ASSUME NEW i \in 1..p, i > 1, plan[i].symbol # plan[i - 1].symbol, NEW v \in ToSet(variants)
       PROVE  \E j \in 1..(i - 1) : plan[j] = [symbol |-> plan[i - 1].symbol, parameters |-> v]
  <2>1. PICK c \in 1..n : variants[c] = v
    BY <1>2 DEF ToSet
  <2>2. i - 1 \in 1..p /\ i \in 1..l /\ i - 1 \in 1..l
    BY <1>11, <1>14
  <2>3. RowOf(i) # RowOf(i - 1)
    BY <1>12, <1>14, <2>2
  <2>4. PICK r, s \in 1..m, a, b \in 1..n :
          r = RowOf(i - 1) /\ s = RowOf(i) /\ a = ColumnOf(i - 1) /\ b = ColumnOf(i)
    BY <1>5, <2>2
  <2>5. i - 1 = n * (r - 1) + a /\ i = n * (s - 1) + b /\ r # s
    BY <1>6, <2>2, <2>3, <2>4
  <2>6. a = n
    <3>1. CASE s < r
      <4>1. PICK e \in Nat : r = s + 1 + e
        BY <3>1
      <4>2. n * (r - 1) = n * (s - 1) + n + n * e /\ n * e \in Nat /\ n * (s - 1) \in Nat
        BY <4>1
      <4> QED
        BY <2>5, <4>2
    <3>2. CASE r < s
      <4>1. PICK e \in Nat : s = r + 1 + e
        BY <3>2
      <4>2. n * (s - 1) = n * (r - 1) + n + n * e /\ n * e \in Nat /\ n * (r - 1) \in Nat
        BY <4>1
      <4> QED
        BY <2>5, <4>2
    <3> QED
      BY <2>5, <3>1, <3>2
  <2>7. PICK x \in Nat : x = n * (r - 1)
    <3>1. n * (r - 1) \in Nat
      OBVIOUS
    <3> QED
      BY <3>1
  <2>8. PICK j \in 1..(i - 1) : j = x + c
    BY <2>5, <2>6, <2>7
  <2>9. RowOf(j) = r /\ ColumnOf(j) = c
    <3>1. j - 1 = n * (r - 1) + (c - 1) /\ j - 1 \in Nat /\ r - 1 \in Nat /\ c - 1 \in 0..(n - 1)
          /\ n \in Nat \ {0}
      BY <2>7, <2>8
    <3>2. (j - 1) \div n = r - 1 /\ (j - 1) % n = c - 1
      BY ONLY <3>1, Quotient
    <3> QED
      BY <3>2 DEF RowOf, ColumnOf
  <2>10. j \in 1..p
    BY <2>8, <1>11
  <2>11. plan[j] = [symbol |-> symbols[r], parameters |-> variants[c]]
    BY <1>12, <2>9, <2>10
  <2>12. plan[i - 1].symbol = symbols[r]
    BY <1>12, <2>2, <2>4
  <2> QED
    BY <2>1, <2>11, <2>12
<1> QED
  BY <1>3, <1>10, <1>11, <1>13, <1>14 DEF IsPlan
LEMMA SearchHolds == AnswersAreComputed => SearchStaysInBudget
<1> SUFFICES ASSUME AnswersAreComputed, Asked("search")
             PROVE  SearchStaysInBudget
  BY DEF SearchStaysInBudget
<1> DEFINE q == question
           grid == GridCandidates(q.space, q.constraints)
           most == PlannedVariants(q.budget)
<1>1. q \in Questions["search"]
  BY DEF AnswersAreComputed
<1>2. PICK chosen \in Variants(q.space, q.constraints, q.method, most) :
        answer = [variants |-> chosen, plan |-> PlanCampaign(q.symbols, chosen, q.budget)]
  BY DEF AnswersAreComputed
<1>3. PICK plan : plan = PlanCampaign(q.symbols, chosen, q.budget)
  OBVIOUS
<1>4. answer.variants = chosen /\ answer.plan = plan
  BY <1>2, <1>3
<1>5. /\ q.space \in Seq(ToSet(q.space)) /\ q.symbols \in Seq(ToSet(q.symbols))
      /\ \A p \in ToSet(q.space) : p.values \in Seq(ToSet(p.values))
      /\ q.budget.experiments \in Nat /\ q.budget.trials \in Nat
      /\ q.method \in {"grid", "random", "spread", "bayesian"}
  BY <1>1, SearchAssumption
<1>6. most \in Nat
  BY <1>5 DEF PlannedVariants
<1>7. GridIsSound(grid, q.constraints)
  BY <1>5, GridHolds
<1>8. IsChosen(chosen, grid, q.method, most)
  <2> HIDE DEF most
  <2> QED
    BY <1>2, <1>5, <1>6, <1>7, VariantsAreChosen
<1> HIDE DEF grid, most
<1>9. PICK S : S = ToSet(grid)
  OBVIOUS
<1>10. chosen \in Seq(S) /\ IsInjective(chosen) /\ DOMAIN chosen = 1..Len(chosen)
  BY <1>8, <1>9 DEF IsChosen
<1>11. IsPlan(plan, q.symbols, chosen, q.budget.experiments)
  <2>1. PICK Y : Y = ToSet(q.symbols)
    OBVIOUS
  <2>2. q.symbols \in Seq(Y)
    BY <1>5, <2>1
  <2> QED
    BY <1>3, <1>5, <1>10, <2>2, PlanHolds
<1>12. ToSet(chosen) \subseteq S
  <2>1. \A i \in 1..Len(chosen) : chosen[i] \in S
    BY ONLY <1>10
  <2> QED
    BY <1>10, <2>1 DEF ToSet
<1>13. \A c \in ToSet(chosen) : ~Rejected(c, q.constraints)
  BY <1>7, <1>9, <1>12 DEF GridIsSound
<1>14. /\ IsInjective(chosen) /\ ToSet(chosen) \subseteq ToSet(grid) /\ Len(chosen) <= most
       /\ q.method \in {"grid", "random"} \/ (q.method = "spread" /\ IsInjective(grid)) =>
            Len(chosen) = IF Cardinality(ToSet(grid)) < most THEN Cardinality(ToSet(grid)) ELSE most
       /\ q.method = "spread" /\ IsInjective(grid) /\ Len(chosen) > 1 =>
            chosen[1] = Head(grid) /\ chosen[Len(chosen)] = Last(grid)
  <2>1. /\ IsInjective(chosen) /\ Len(chosen) <= most
        /\ q.method \in {"grid", "random"} \/ (q.method = "spread" /\ IsInjective(grid)) =>
             Len(chosen) = IF Cardinality(ToSet(grid)) < most THEN Cardinality(ToSet(grid)) ELSE most
    BY <1>8, ZenonT(20) DEF IsChosen
  <2>2. Head(grid) = grid[1] /\ Last(grid) = grid[Len(grid)]
    BY <1>7 DEF Last, GridIsSound
  <2>3. q.method = "spread" /\ IsInjective(grid) /\ Len(chosen) > 1 =>
          chosen[1] = grid[1] /\ chosen[Len(chosen)] = grid[Len(grid)]
    BY <1>8 DEF IsChosen
  <2> HIDE DEF q
  <2> QED
    BY <1>9, <1>12, <2>1, <2>2, <2>3, ZenonT(20)
<1>15. SearchStaysInBudget <=>
         /\ IsInjective(chosen) /\ ToSet(chosen) \subseteq ToSet(grid) /\ Len(chosen) <= most
         /\ \A c \in ToSet(chosen) : ~Rejected(c, q.constraints)
         /\ q.method \in {"grid", "random"} \/ (q.method = "spread" /\ IsInjective(grid)) =>
              Len(chosen) = IF Cardinality(ToSet(grid)) < most THEN Cardinality(ToSet(grid)) ELSE most
         /\ q.method = "spread" /\ IsInjective(grid) /\ Len(chosen) > 1 =>
              chosen[1] = Head(grid) /\ chosen[Len(chosen)] = Last(grid)
         /\ Len(plan) <= q.budget.experiments
         /\ IsInjective(q.symbols) => IsInjective(plan)
         /\ \A i \in DOMAIN plan : i > 1 /\ plan[i].symbol # plan[i - 1].symbol =>
              \A v \in ToSet(chosen) : \E j \in 1..(i - 1) :
                plan[j] = [symbol |-> plan[i - 1].symbol, parameters |-> v]
  BY <1>4, ZenonT(30) DEF SearchStaysInBudget, grid, most
<1> HIDE DEF q
<1> QED
  BY <1>11, <1>13, <1>14, <1>15, ZenonT(30) DEF IsPlan

\* Whatever the space, the constraints and the method: a search returns candidates of the grid,
\* none twice, none a constraint rejects, as many as its budget and the grid allow, and the plan
\* of a campaign keeps to its experiments and finishes each symbol before the next
\* (campaigns/optimization.py, _plan_campaign of campaigns/service.py).
THEOREM SearchIsSound == Spec => []SearchStaysInBudget
<1>1. AnswersAreComputed => SearchStaysInBudget
  BY SearchHolds
<1> QED
  BY <1>1, AnswersInductive, PTL
-----------------------------------------------------------------------------
(* Weights: sums of many parts, ranks, quantiles and neutral sectors *)

Adds(g, values, n) ==
  g \in [0..n -> Int] /\ g[0] = 0 /\ \A t \in 1..n : g[t] = g[t - 1] + values[t]

\* A total is reached part by part.
LEMMA TotalSteps ==
  ASSUME NEW values \in Seq(Int)
  PROVE  \E g : Adds(g, values, Len(values)) /\ Total(values) = g[Len(values)]
<1> DEFINE n == Len(values)
           step == [t \in 1..n |-> [before \in Int |-> before + values[t]]]
           IsUpTo(f) == f = [i \in 0..n |-> IF i = 0 THEN 0 ELSE f[i - 1] + values[i]]
           upTo == CHOOSE f : IsUpTo(f)
<1>1. n \in Nat /\ 0 \in Int /\ \A t \in 1..n : values[t] \in Int
  BY LenProperties
<1>2. step \in [1..n -> [Int -> Int]]
  BY <1>1
<1>3. PICK g : Iterated(g, n, Int, 0, step)
  <2> HIDE DEF step, n
  <2> QED
    BY <1>1, <1>2, Iterates
<1>4. \A t \in 1..n : t - 1 \in 0..n /\ t \in 0..n /\ t # 0
  OBVIOUS
<1>5. Adds(g, values, n)
  <2>1. \A t \in 1..n : g[t - 1] \in Int
    BY <1>3, <1>4 DEF Iterated
  <2>2. \A t \in 1..n : g[t] = g[t - 1] + values[t]
    BY <1>3, <2>1 DEF Iterated
  <2> QED
    BY <1>3, <2>2 DEF Adds, Iterated
<1>6. IsUpTo(g)
  <2>1. g = [t \in 0..n |-> g[t]]
    BY <1>5 DEF Adds
  <2>2. \A t \in 0..n : g[t] = IF t = 0 THEN 0 ELSE g[t - 1] + values[t]
    BY <1>1, <1>5 DEF Adds
  <2> QED
    BY <2>1, <2>2
<1>7. Total(values) = upTo[n]
  BY DEF Total
<1>8. IsUpTo(upTo)
  BY <1>6
<1> HIDE DEF upTo
<1>9. ASSUME NEW t \in 0..n
      PROVE  upTo[t] = IF t = 0 THEN 0 ELSE upTo[t - 1] + values[t]
  <2> DEFINE value == [i \in 0..n |-> IF i = 0 THEN 0 ELSE upTo[i - 1] + values[i]]
  <2>1. upTo = value
    BY <1>8
  <2>2. value[t] = IF t = 0 THEN 0 ELSE upTo[t - 1] + values[t]
    OBVIOUS
  <2> HIDE DEF value
  <2> QED
    BY <2>1, <2>2
<1> HIDE DEF IsUpTo, n
<1>10. \A t \in 0..n : upTo[t] = g[t]
  <2> DEFINE T == {t \in 0..n : upTo[t] = g[t]}
  <2>1. 0 \in T
    BY <1>1, <1>5, <1>9 DEF Adds
  <2>2. ASSUME NEW t \in 1..n, t - 1 \in T
        PROVE  t \in T
    <3>1. t - 1 \in 0..n /\ t \in 0..n /\ t # 0 /\ upTo[t - 1] = g[t - 1]
      BY <1>4, <2>2
    <3> QED
      BY <1>5, <1>9, <3>1 DEF Adds
  <2>3. \A t \in 0..n : t \in T
    <3> HIDE DEF T
    <3> QED
      BY <1>1, <2>1, <2>2, Induct
  <2> QED
    BY <2>3
<1>11. n \in 0..n
  BY <1>1
<1> QED
  BY <1>5, <1>7, <1>10, <1>11 DEF n

LEMMA TotalIsReached ==
  ASSUME NEW n \in Nat, NEW values \in [1..n -> Int]
  PROVE  \E g : Adds(g, values, n) /\ Total(values) = g[n] /\ Total(values) \in Int
<1>1. values \in Seq(Int) /\ Len(values) = n
  BY AsSequence
<1>2. PICK g : Adds(g, values, n) /\ Total(values) = g[n]
  BY <1>1, TotalSteps
<1>3. n \in 0..n
  OBVIOUS
<1>4. g[n] \in Int
  BY <1>2, <1>3 DEF Adds
<1> QED
  BY <1>2, <1>4

\* Parts that are no smaller, and one that is larger, have the larger total.
LEMMA TotalGrows ==
  ASSUME NEW n \in Nat, NEW u \in [1..n -> Int], NEW v \in [1..n -> Int],
         \A i \in 1..n : u[i] >= v[i], NEW k \in 1..n, u[k] > v[k]
  PROVE  Total(u) > Total(v)
<1>1. PICK g : Adds(g, u, n) /\ Total(u) = g[n]
  BY TotalIsReached
<1>2. PICK h : Adds(h, v, n) /\ Total(v) = h[n]
  BY TotalIsReached
<1> DEFINE T == {t \in 0..n : g[t] >= h[t] /\ (k <= t => g[t] > h[t])}
<1>3. 0 \in T
  BY <1>1, <1>2 DEF Adds
<1>4. ASSUME NEW t \in 1..n, t - 1 \in T
      PROVE  t \in T
  <2>1. /\ t - 1 \in 0..n /\ t \in 0..n /\ g[t - 1] >= h[t - 1]
        /\ k <= t - 1 => g[t - 1] > h[t - 1]
    BY <1>4
  <2>2. PICK a, b, x, y \in Int : a = g[t - 1] /\ b = h[t - 1] /\ x = u[t] /\ y = v[t]
    BY <1>1, <1>2, <2>1 DEF Adds
  <2>3. g[t] = a + x /\ h[t] = b + y /\ x >= y /\ a >= b /\ (k <= t - 1 => a > b) /\ (k = t => x > y)
    BY <1>1, <1>2, <2>1, <2>2 DEF Adds
  <2>4. g[t] >= h[t]
    BY ONLY <2>3, a \in Int, b \in Int, x \in Int, y \in Int
  <2>5. k <= t => g[t] > h[t]
    <3>1. k <= t => k <= t - 1 \/ k = t
      OBVIOUS
    <3> QED
      BY ONLY <2>3, <3>1, a \in Int, b \in Int, x \in Int, y \in Int
  <2> QED
    BY <2>1, <2>4, <2>5
<1>5. \A t \in 0..n : t \in T
  <2> HIDE DEF T
  <2> QED
    BY <1>3, <1>4, Induct
<1>6. n \in 0..n /\ k <= n
  OBVIOUS
<1> QED
  BY <1>1, <1>2, <1>5, <1>6

\* A total is linear in its parts.
AreDifferences(w, c, u, s, v, n) == \A i \in 1..n : w[i] = c * u[i] - s * v[i]
IsDifference(w, c, u, s, v) == Total(w) = c * Total(u) - s * Total(v)

LEMMA TotalIsLinear ==
  ASSUME NEW n \in Nat, NEW u \in [1..n -> Int], NEW v \in [1..n -> Int], NEW w \in [1..n -> Int],
         NEW c \in Int, NEW s \in Int, AreDifferences(w, c, u, s, v, n)
  PROVE  IsDifference(w, c, u, s, v)
<1>1. PICK g : Adds(g, u, n) /\ Total(u) = g[n]
  BY TotalIsReached
<1>2. PICK h : Adds(h, v, n) /\ Total(v) = h[n]
  BY TotalIsReached
<1>3. PICK f : Adds(f, w, n) /\ Total(w) = f[n]
  BY TotalIsReached
<1> DEFINE T == {t \in 0..n : f[t] = c * g[t] - s * h[t]}
<1>4. 0 \in T
  BY <1>1, <1>2, <1>3 DEF Adds
<1>5. ASSUME NEW t \in 1..n, t - 1 \in T
      PROVE  t \in T
  <2>1. t - 1 \in 0..n /\ t \in 0..n /\ f[t - 1] = c * g[t - 1] - s * h[t - 1]
    BY <1>5
  <2>2. PICK a, b, x, y \in Int : a = g[t - 1] /\ b = h[t - 1] /\ x = u[t] /\ y = v[t]
    BY <1>1, <1>2, <2>1 DEF Adds
  <2>3. g[t] = a + x /\ h[t] = b + y /\ f[t] = (c * a - s * b) + (c * x - s * y)
    BY <1>1, <1>2, <1>3, <2>1, <2>2 DEF Adds, AreDifferences
  <2>4. c * (a + x) - s * (b + y) = (c * a - s * b) + (c * x - s * y)
    OBVIOUS
  <2> QED
    BY <2>1, <2>3, <2>4
<1>6. \A t \in 0..n : t \in T
  <2> HIDE DEF T
  <2> QED
    BY <1>4, <1>5, Induct
<1>7. n \in 0..n
  OBVIOUS
<1> QED
  BY <1>1, <1>2, <1>3, <1>6, <1>7 DEF IsDifference

\* A total of ones counts them.
LEMMA TotalCounts ==
  ASSUME NEW n \in Nat, NEW F \in SUBSET (1..n)
  PROVE  Total([i \in 1..n |-> IF i \in F THEN 1 ELSE 0]) = Cardinality(F)
<1>1. PICK v \in [1..n -> Int] : v = [i \in 1..n |-> IF i \in F THEN 1 ELSE 0]
  <2>1. [i \in 1..n |-> IF i \in F THEN 1 ELSE 0] \in [1..n -> Int]
    OBVIOUS
  <2> QED
    BY ONLY <2>1
<1>2. PICK g : Adds(g, v, n) /\ Total(v) = g[n]
  BY TotalIsReached
<1> DEFINE Upto(t) == F \cap (1..t)
           T == {t \in 0..n : g[t] = Cardinality(Upto(t)) /\ IsFiniteSet(Upto(t))}
<1>3. 0 \in T
  <2>1. Upto(0) = {}
    OBVIOUS
  <2> QED
    BY <1>2, <2>1, FS_EmptySet DEF Adds
<1>4. ASSUME NEW t \in 1..n, t - 1 \in T
      PROVE  t \in T
  <2>1. t - 1 \in 0..n /\ t \in 0..n /\ g[t - 1] = Cardinality(Upto(t - 1)) /\ IsFiniteSet(Upto(t - 1))
    BY <1>4
  <2>2. g[t] = g[t - 1] + v[t] /\ v[t] = IF t \in F THEN 1 ELSE 0
    BY <1>1, <1>2 DEF Adds
  <2>3. /\ t \in F => Upto(t) = Upto(t - 1) \cup {t} /\ t \notin Upto(t - 1)
        /\ t \notin F => Upto(t) = Upto(t - 1)
    OBVIOUS
  <2> HIDE DEF Upto
  <2>4. Cardinality(Upto(t - 1)) \in Nat
    BY <2>1, FS_CardinalityType
  <2>5. CASE t \in F
    <3>1. Cardinality(Upto(t)) = Cardinality(Upto(t - 1)) + 1 /\ IsFiniteSet(Upto(t))
      BY <2>1, <2>3, <2>5, FS_AddElement
    <3> QED
      BY <2>1, <2>2, <2>5, <3>1
  <2>6. CASE t \notin F
    BY <2>1, <2>2, <2>3, <2>4, <2>6
  <2> QED
    BY <2>5, <2>6
<1>5. \A t \in 0..n : t \in T
  <2> HIDE DEF T
  <2> QED
    BY <1>3, <1>4, Induct
<1>6. n \in 0..n
  OBVIOUS
<1>7. Upto(n) = F
  OBVIOUS
<1>8. g[n] = Cardinality(F)
  BY <1>5, <1>6, <1>7
<1> HIDE DEF Upto, T
<1> QED
  BY ONLY <1>1, <1>2, <1>8

\* As many long positions as short ones cancel out.
LEMMA LongsAndShorts ==
  ASSUME NEW n \in Nat, NEW v \in [1..(2 * n) -> Int],
         \A i \in 1..(2 * n) : v[i] = IF i <= n THEN 1 ELSE -1
  PROVE  Total(v) = 0
<1>1. PICK m \in Nat : m = 2 * n
  OBVIOUS
<1>2. PICK g : Adds(g, v, m) /\ Total(v) = g[m]
  BY <1>1, TotalIsReached
<1> DEFINE T == {t \in 0..m : g[t] = IF t <= n THEN t ELSE m - t}
<1>3. 0 \in T
  BY <1>2 DEF Adds
<1>4. ASSUME NEW t \in 1..m, t - 1 \in T
      PROVE  t \in T
  <2>1. t - 1 \in 0..m /\ t \in 0..m /\ g[t - 1] = IF t - 1 <= n THEN t - 1 ELSE m - (t - 1)
    BY <1>4
  <2>2. g[t] = g[t - 1] + v[t] /\ v[t] = IF t <= n THEN 1 ELSE -1
    BY <1>1, <1>2 DEF Adds
  <2> QED
    BY <1>1, <2>1, <2>2
<1>5. \A t \in 0..m : t \in T
  <2> HIDE DEF T
  <2> QED
    BY <1>3, <1>4, Induct
<1>6. m \in 0..m /\ g[m] = 0
  BY <1>1, <1>5
<1> QED
  BY <1>2, <1>6

LEMMA EmptySums ==
  ASSUME NEW P
  PROVE  SumAt(<< >>, P) = 0
<1>1. PICK v \in [1..0 -> Int] : v = [i \in 1..0 |-> IF i \in P THEN << >>[i].weight ELSE 0]
  <2>1. 1..0 = {}
    OBVIOUS
  <2>2. [i \in 1..0 |-> IF i \in P THEN << >>[i].weight ELSE 0] \in [1..0 -> Int]
    BY <2>1
  <2> QED
    BY <2>2
<1>2. PICK g : Adds(g, v, 0) /\ Total(v) = g[0]
  BY TotalIsReached
<1>3. SumAt(<< >>, P) = Total(v)
  BY <1>1 DEF SumAt
<1> QED
  BY <1>2, <1>3 DEF Adds

\* A ranking names every scored asset once, and the ones that outrank others first.
AreRanked(ranked, section) ==
  \E m \in Nat :
    /\ ranked \in [1..m -> Scored(section)]
    /\ \A i, j \in 1..m : ranked[i] = ranked[j] => i = j
    /\ \A a \in Scored(section) : \E i \in 1..m : ranked[i] = a
    /\ \A i, j \in 1..m : Outranks(section, ranked[i], ranked[j]) => i < j

LEMMA RanksAreSound ==
  ASSUME NEW section, IsFiniteSet(DOMAIN section), DOMAIN section \subseteq Int,
         \A a \in DOMAIN section : section[a] \in Int \cup {NoScore}
  PROVE  AreRanked(RankScores(section), section)
<1> DEFINE S == Scored(section)
           R == {p \in S \X S : Outranks(section, p[1], p[2])}
           Ahead(x) == {y \in S : <<y, x>> \in R}
           m == Cardinality(S)
           ranked == RankScores(section)
<1>1. \A a \in S : a \in Int /\ section[a] \in Int
  BY DEF Scored
<1>2. IsFiniteSet(S) /\ m \in Nat
  <2>1. S \subseteq DOMAIN section
    BY DEF Scored
  <2>2. IsFiniteSet(S)
    BY ONLY <2>1, IsFiniteSet(DOMAIN section), FS_Subset
  <2> QED
    BY <2>2, FS_CardinalityType
<1>3. \A x, y \in S : <<x, y>> \in R <=> Outranks(section, x, y)
  OBVIOUS
<1> HIDE DEF R
<1>5. /\ \A x, y \in S : x # y => <<x, y>> \in R \/ <<y, x>> \in R
      /\ \A x \in S : <<x, x>> \notin R
      /\ \A x, y, z \in S : <<x, y>> \in R /\ <<y, z>> \in R => <<x, z>> \in R
  <2> HIDE DEF S
  <2>1. \A x, y \in S : x # y => <<x, y>> \in R \/ <<y, x>> \in R
    BY <1>1, <1>3 DEF Outranks
  <2>2. \A x \in S : <<x, x>> \notin R
    BY <1>1, <1>3 DEF Outranks
  <2>3. ASSUME NEW x \in S, NEW y \in S, NEW z \in S, <<x, y>> \in R, <<y, z>> \in R
        PROVE  <<x, z>> \in R
    BY <1>1, <1>3, <2>3 DEF Outranks
  <2> QED
    BY <2>1, <2>2, <2>3
<1> HIDE DEF S
<1>6. \A k \in 1..m : \E x \in S : Cardinality(Ahead(x)) = k - 1
  <2>1. IsFiniteSet(S)
    BY <1>2
  <2>2. \A k \in 1..Cardinality(S) : \E x \in S : Cardinality({y \in S : <<y, x>> \in R}) = k - 1
    BY ONLY <1>5, <2>1, RanksAreTaken
  <2> QED
    BY <2>2
<1>7. ASSUME NEW x \in S
      PROVE  Ahead(x) \subseteq S /\ x \notin Ahead(x) /\ IsFiniteSet(Ahead(x)) /\ Cardinality(Ahead(x)) \in 0..(m - 1)
  <2>1. Ahead(x) \subseteq S /\ x \notin Ahead(x)
    BY <1>5
  <2> HIDE DEF Ahead
  <2>2. IsFiniteSet(Ahead(x)) /\ Cardinality(Ahead(x)) <= m
        /\ (Cardinality(Ahead(x)) = m => Ahead(x) = S)
    BY <1>2, <2>1, FS_Subset
  <2>3. Cardinality(Ahead(x)) \in Nat
    BY <2>2, FS_CardinalityType
  <2>4. Cardinality(Ahead(x)) # m
    BY <2>1, <2>2
  <2> QED
    BY <1>2, <2>1, <2>2, <2>3, <2>4
<1>8. ASSUME NEW x \in S, NEW y \in S, <<x, y>> \in R
      PROVE  Cardinality(Ahead(x)) < Cardinality(Ahead(y))
  <2>1. Ahead(x) \subseteq Ahead(y) /\ x \in Ahead(y) /\ x \notin Ahead(x)
    BY <1>5, <1>8
  <2> HIDE DEF Ahead
  <2>2. /\ IsFiniteSet(Ahead(y)) /\ Cardinality(Ahead(x)) \in Nat /\ Cardinality(Ahead(y)) \in Nat
    BY <1>7
  <2>3. /\ Cardinality(Ahead(x)) <= Cardinality(Ahead(y))
        /\ Cardinality(Ahead(x)) = Cardinality(Ahead(y)) => Ahead(x) = Ahead(y)
    BY <2>1, <2>2, FS_Subset
  <2> QED
    BY <2>1, <2>2, <2>3
<1>9. ranked = [rank \in 1..m |-> CHOOSE a \in S : Cardinality(Ahead(a)) = rank - 1]
  <2>1. \A a \in S : {b \in S : Outranks(section, b, a)} = Ahead(a)
    BY <1>3
  <2>2. ranked = [rank \in 1..m |->
                    CHOOSE a \in S : Cardinality({b \in S : Outranks(section, b, a)}) = rank - 1]
    BY DEF RankScores, S
  <2> HIDE DEF Ahead, ranked
  <2>3. \A rank \in 1..m :
          (CHOOSE a \in S : Cardinality({b \in S : Outranks(section, b, a)}) = rank - 1)
          = (CHOOSE a \in S : Cardinality(Ahead(a)) = rank - 1)
    <3> SUFFICES ASSUME NEW rank \in 1..m
                 PROVE  (CHOOSE a \in S : Cardinality({b \in S : Outranks(section, b, a)}) = rank - 1)
                        = (CHOOSE a \in S : Cardinality(Ahead(a)) = rank - 1)
      OBVIOUS
    <3>1. \A a : (a \in S /\ Cardinality({b \in S : Outranks(section, b, a)}) = rank - 1)
                 <=> (a \in S /\ Cardinality(Ahead(a)) = rank - 1)
      BY <2>1
    <3> QED
      BY <3>1, ZenonT(20)
  <2> DEFINE first(rank) == CHOOSE a \in S : Cardinality({b \in S : Outranks(section, b, a)}) = rank - 1
             second(rank) == CHOOSE a \in S : Cardinality(Ahead(a)) = rank - 1
  <2>4. ranked = [rank \in 1..m |-> first(rank)] /\ \A rank \in 1..m : first(rank) = second(rank)
    BY <2>2, <2>3
  <2> HIDE DEF first, second, m
  <2>5. ranked = [rank \in 1..m |-> second(rank)]
    BY <2>4
  <2> QED
    BY <2>5 DEF second
<1> HIDE DEF Ahead, ranked
<1>10. \A k \in 1..m : ranked[k] \in S /\ Cardinality(Ahead(ranked[k])) = k - 1
  BY <1>6, <1>9
<1>11. ranked \in [1..m -> S]
  <2>1. ranked = [k \in 1..m |-> ranked[k]]
    BY <1>9
  <2> QED
    BY <1>10, <2>1
<1>12. ASSUME NEW i \in 1..m, NEW j \in 1..m, ranked[i] = ranked[j]
       PROVE  i = j
  BY <1>10, <1>12
<1>13. ASSUME NEW a \in S
       PROVE  \E i \in 1..m : ranked[i] = a
  <2>1. PICK i \in 1..m : i = Cardinality(Ahead(a)) + 1
    BY <1>2, <1>7
  <2>2. PICK b \in S : b = ranked[i] /\ Cardinality(Ahead(b)) = Cardinality(Ahead(a))
    BY <1>2, <1>7, <1>10, <2>1
  <2>3. <<a, b>> \notin R /\ <<b, a>> \notin R
    <3>1. Cardinality(Ahead(a)) \in Nat
      BY <1>7
    <3> QED
      BY <1>8, <2>2, <3>1
  <2>4. a = b
    BY <1>5, <2>3
  <2> QED
    BY <2>2, <2>4
<1>14. ASSUME NEW i \in 1..m, NEW j \in 1..m, Outranks(section, ranked[i], ranked[j])
       PROVE  i < j
  <2>1. Cardinality(Ahead(ranked[i])) < Cardinality(Ahead(ranked[j]))
    BY <1>3, <1>8, <1>10, <1>14
  <2> QED
    BY <1>10, <2>1
<1>15. m \in Nat
  BY <1>2
<1> HIDE DEF m
<1> QED
  BY <1>11, <1>12, <1>13, <1>14, <1>15 DEF AreRanked, S, ranked

LEMMA QuotientGrows ==
  ASSUME NEW d \in Nat \ {0}, NEW a \in Nat, NEW b \in Nat, a <= b
  PROVE  a \div d <= b \div d
<1>1. /\ a \div d \in Nat /\ a % d \in 0..(d - 1) /\ a = d * (a \div d) + (a % d)
      /\ b \div d \in Nat /\ b % d \in 0..(d - 1) /\ b = d * (b \div d) + (b % d)
  BY Divided
<1>2. PICK q, r, p, s : q = a \div d /\ r = a % d /\ p = b \div d /\ s = b % d
  OBVIOUS
<1>3. /\ q \in Nat /\ r \in 0..(d - 1) /\ a = d * q + r
      /\ p \in Nat /\ s \in 0..(d - 1) /\ b = d * p + s
  BY ONLY <1>1, <1>2
<1>4. q <= p
  <2> SUFFICES ASSUME p < q
               PROVE  FALSE
    BY <1>3
  <2>1. PICK e \in Nat : q = p + 1 + e
    BY <1>3
  <2>2. d * q = d * p + d + d * e /\ d * e \in Nat /\ d * p \in Nat
    BY <1>3, <2>1
  <2> QED
    BY <1>3, <2>2
<1> QED
  BY ONLY <1>2, <1>4

\* Quantiles follow the ranks, and none is empty while there are as many assets.
LEMMA QuantilesCover ==
  ASSUME NEW n \in Nat, NEW k \in Nat \ {0}
  PROVE  /\ \A i \in 1..n : QuantileOf(i, n, k) \in 1..k
         /\ \A i \in 2..n : QuantileOf(i - 1, n, k) <= QuantileOf(i, n, k)
         /\ n >= k => \A q \in 1..k : \E i \in 1..n : QuantileOf(i, n, k) = q
<1> DEFINE part(i) == ((i - 1) * k) \div n
<1>1. \A i \in 1..n : (i - 1) * k \in Nat /\ part(i) \in Nat
  <2> SUFFICES ASSUME NEW i \in 1..n
               PROVE  (i - 1) * k \in Nat /\ part(i) \in Nat
    OBVIOUS
  <2>1. (i - 1) * k \in Nat /\ n \in Nat \ {0}
    OBVIOUS
  <2> QED
    BY <2>1, Divided
<1>2. \A i \in 1..n : QuantileOf(i, n, k) = IF part(i) + 1 < k THEN part(i) + 1 ELSE k
  BY DEF QuantileOf
<1>3. \A i \in 1..n : QuantileOf(i, n, k) \in 1..k
  <2> HIDE DEF part
  <2> QED
    BY <1>1, <1>2
<1>4. ASSUME NEW i \in 2..n
      PROVE  QuantileOf(i - 1, n, k) <= QuantileOf(i, n, k)
  <2>1. i \in 1..n /\ i - 1 \in 1..n /\ n \in Nat \ {0}
    OBVIOUS
  <2>2. PICK a, b \in Nat : a = (i - 1 - 1) * k /\ b = (i - 1) * k
    BY <1>1, <2>1
  <2>3. b = a + k
    BY <2>2
  <2>4. a \div n <= b \div n
    BY <2>1, <2>3, QuotientGrows
  <2>5. part(i - 1) <= part(i)
    BY <2>2, <2>4
  <2> HIDE DEF part
  <2> QED
    BY <1>1, <1>2, <2>1, <2>5
<1>5. ASSUME n >= k, NEW q \in 1..k
      PROVE  \E i \in 1..n : QuantileOf(i, n, k) = q
  <2>1. PICK p \in Nat : p = q - 1 /\ p < k
    OBVIOUS
  <2>2. PICK c \in Nat : c = n * p
    <3>1. n * p \in Nat
      OBVIOUS
    <3> QED
      BY <3>1
  <2>3. c \div k \in Nat /\ c % k \in 0..(k - 1) /\ c = k * (c \div k) + (c % k)
    BY Divided
  <2>4. PICK e \in Nat, r \in 0..(k - 1) : c = k * e + r
    BY ONLY <2>3
  <2>5. PICK j \in Nat, x \in 0..(n - 1) : j * k = n * p + x
    <3>1. CASE r = 0
      <4>1. e * k = n * p + 0 /\ 0 \in 0..(n - 1)
        BY <1>5, <2>2, <2>4, <3>1
      <4> QED
        BY <4>1
    <3>2. CASE r # 0
      <4>1. (e + 1) * k = n * p + (k - r) /\ k - r \in 0..(n - 1) /\ e + 1 \in Nat
        BY <1>5, <2>2, <2>4, <3>2
      <4> QED
        BY <4>1
    <3> QED
      BY <3>1, <3>2
  <2>6. j < n
    <3> SUFFICES ASSUME n <= j
                 PROVE  FALSE
      OBVIOUS
    <3>1. PICK f \in Nat : j = n + f
      OBVIOUS
    <3>2. PICK g \in Nat : k = p + 1 + g
      BY <2>1
    <3>3. j * k = n * k + f * k /\ n * k = n * p + n + n * g /\ f * k \in Nat /\ n * g \in Nat
          /\ n * p \in Nat
      BY <3>1, <3>2
    <3> QED
      BY <2>5, <3>3
  <2>7. PICK i \in 1..n : i - 1 = j
    <3>1. j + 1 \in 1..n /\ (j + 1) - 1 = j
      BY <2>6
    <3> QED
      BY <3>1
  <2>8. (j * k) \div n = p
    <3>1. n \in Nat \ {0} /\ j * k \in Nat
      BY <1>5
    <3> QED
      BY <2>5, <3>1, Quotient
  <2>9. part(i) = p
    BY <2>7, <2>8
  <2> HIDE DEF part
  <2> QED
    BY <1>2, <2>1, <2>9
<1> QED
  BY <1>3, <1>4, <1>5

\* The composite of some factors: the assets they all score, by their weighted sums.
IsComposite(section, factors, weights) ==
  /\ IsFiniteSet(DOMAIN section) /\ DOMAIN section \subseteq Int /\ Scored(section) = DOMAIN section
  /\ DOMAIN section = {a \in DOMAIN factors[1] :
                         \A f \in DOMAIN factors : a \in DOMAIN factors[f] /\ factors[f][a] # NoScore}
  /\ \A a \in DOMAIN section :
       section[a] \in Int /\ section[a] = Total([f \in 1..Len(factors) |-> factors[f][a] * weights[f]])

LEMMA CompositeHolds ==
  ASSUME NEW factors, factors \in Seq(ToSet(factors)), factors # << >>, NEW weights,
         \A f \in DOMAIN factors :
           /\ IsFiniteSet(DOMAIN factors[f]) /\ DOMAIN factors[f] \subseteq Int
           /\ \A a \in DOMAIN factors[f] : factors[f][a] \in Int \cup {NoScore}
           /\ weights[f] \in Int
  PROVE  IsComposite(CombineScores(factors, weights), factors, weights)
<1> DEFINE section == CombineScores(factors, weights)
           all == {a \in UNION {DOMAIN factors[f] : f \in DOMAIN factors} :
                     \A f \in DOMAIN factors : a \in DOMAIN factors[f] /\ factors[f][a] # NoScore}
           PartsOf(a) == [f \in 1..Len(factors) |-> factors[f][a] * weights[f]]
<1>1. PICK n \in Nat \ {0} : n = Len(factors) /\ DOMAIN factors = 1..n
  <2>1. PICK S : S = ToSet(factors)
    OBVIOUS
  <2>2. factors \in Seq(S)
    BY <2>1
  <2>3. Len(factors) \in Nat /\ DOMAIN factors = 1..Len(factors) /\ Len(factors) # 0
    BY ONLY <2>2, factors # << >>, LenProperties, EmptySeq
  <2> QED
    BY <2>3
<1>2. section = [a \in all |-> Total(PartsOf(a))]
  BY DEF CombineScores
<1>3. all = {a \in DOMAIN factors[1] :
               \A f \in DOMAIN factors : a \in DOMAIN factors[f] /\ factors[f][a] # NoScore}
  <2>1. 1 \in DOMAIN factors
    BY <1>1
  <2> QED
    BY <2>1
<1>4. all \subseteq DOMAIN factors[1] /\ IsFiniteSet(DOMAIN factors[1]) /\ DOMAIN factors[1] \subseteq Int
  BY <1>1, <1>3
<1>5. IsFiniteSet(all)
  BY ONLY <1>4, FS_Subset
<1>6. ASSUME NEW a \in all
      PROVE  Total(PartsOf(a)) \in Int
  <2>1. \A f \in 1..n : factors[f][a] \in Int /\ weights[f] \in Int
    BY <1>1, <1>6
  <2>2. \A f \in 1..n : factors[f][a] * weights[f] \in Int
    BY <2>1
  <2>3. PartsOf(a) \in [1..n -> Int]
    BY <1>1, <2>2
  <2> HIDE DEF PartsOf
  <2> QED
    BY <2>3, TotalIsReached
<1> HIDE DEF section, all
<1>7. DOMAIN section = all /\ \A a \in all : section[a] = Total(PartsOf(a)) /\ section[a] \in Int
  BY <1>2, <1>6
<1>8. Scored(section) = all
  BY <1>7, NoScoreAssumption DEF Scored
<1> QED
  BY <1>3, <1>4, <1>5, <1>7, <1>8 DEF IsComposite, section

\* An asset with the better parts outranks the other.
LEMMA DominantOutranks ==
  ASSUME NEW factors, NEW weights, NEW section, IsComposite(section, factors, weights),
         Len(factors) \in Nat, DOMAIN factors = 1..Len(factors),
         \A f \in DOMAIN factors :
           /\ \A a \in DOMAIN factors[f] : factors[f][a] \in Int \cup {NoScore}
           /\ weights[f] \in Int,
         NEW a \in DOMAIN section, NEW b \in DOMAIN section,
         \A f \in DOMAIN factors : factors[f][a] * weights[f] >= factors[f][b] * weights[f],
         \E f \in DOMAIN factors : factors[f][a] * weights[f] > factors[f][b] * weights[f]
  PROVE  Outranks(section, a, b)
<1>1. PICK n \in Nat : n = Len(factors)
  BY ONLY Len(factors) \in Nat
<1> DEFINE PartsOf(c) == [f \in 1..n |-> factors[f][c] * weights[f]]
<1>2. ASSUME NEW c \in DOMAIN section
      PROVE  PartsOf(c) \in [1..n -> Int] /\ section[c] = Total(PartsOf(c)) /\ section[c] \in Int
  <2>1. \A f \in 1..n : factors[f][c] \in Int /\ weights[f] \in Int
    BY <1>1, <1>2 DEF IsComposite
  <2>2. \A f \in 1..n : factors[f][c] * weights[f] \in Int
    BY <2>1
  <2> QED
    BY <1>1, <2>2 DEF IsComposite
<1>3. PICK u, v \in [1..n -> Int] : u = PartsOf(a) /\ v = PartsOf(b)
  BY <1>2
<1>4. \A f \in 1..n : u[f] = factors[f][a] * weights[f] /\ v[f] = factors[f][b] * weights[f]
  BY <1>3
<1>5. (\A f \in 1..n : u[f] >= v[f]) /\ (\E k \in 1..n : u[k] > v[k])
  BY <1>1, <1>4
<1>6. Total(u) > Total(v)
  BY ONLY <1>5, n \in Nat, u \in [1..n -> Int], v \in [1..n -> Int], TotalGrows
<1>7. section[a] = Total(u) /\ section[b] = Total(v)
  BY <1>2, <1>3
<1> QED
  BY <1>6, <1>7 DEF Outranks

\* Selected are some positions, long or short by one; as many as asked for when they are the
\* first, and as many longs as shorts when they are two buckets.
AreSelected(chosen, ranked, selection) ==
  \E l \in Nat \ {0} :
    /\ DOMAIN chosen = 1..l /\ Len(chosen) = l
    /\ \A i \in 1..l : chosen[i].weight \in Int
    /\ selection.kind = "top_n" =>
         l = IF selection.top < Len(ranked) THEN selection.top ELSE Len(ranked)
    /\ selection.kind = "top_bottom_quantile" =>
         \E n \in Nat : l = 2 * n /\ \A i \in 1..l : chosen[i].weight = IF i <= n THEN 1 ELSE -1

LEMMA SelectedHolds ==
  ASSUME NEW ranked, Len(ranked) \in Nat \ {0}, NEW selection,
         selection.kind \in {"top_n", "top_bottom_quantile"},
         selection.kind = "top_n" => selection.top \in Nat \ {0},
         selection.kind = "top_bottom_quantile" =>
           /\ selection.quantile.num \in Nat \ {0} /\ selection.quantile.den \in Nat
           /\ 2 * selection.quantile.num <= selection.quantile.den
  PROVE  AreSelected(Selected(ranked, selection), ranked, selection)
<1> DEFINE count == Len(ranked)
           chosen == Selected(ranked, selection)
<1>1. CASE selection.kind = "top_n"
  <2>1. PICK l \in Nat \ {0} : l = IF selection.top < count THEN selection.top ELSE count
    BY <1>1
  <2>2. chosen = [i \in 1..l |-> [asset |-> ranked[i], weight |-> 1]]
    BY <1>1, <2>1 DEF Selected, Position
  <2> HIDE DEF chosen
  <2>3. chosen \in [1..l -> {chosen[i] : i \in 1..l}]
    BY <2>2
  <2>4. Len(chosen) = l
    BY <2>3, AsSequence
  <2>5. DOMAIN chosen = 1..l /\ \A i \in 1..l : chosen[i].weight = 1
    BY <2>2
  <2> QED
    BY <1>1, <2>1, <2>4, <2>5 DEF AreSelected, chosen
<1>2. CASE selection.kind = "top_bottom_quantile"
  <2>1. PICK d, e \in Nat : d = selection.quantile.den /\ e = count * selection.quantile.num + d - 1 /\ d # 0
    <3>1. PICK num, den \in Nat : num = selection.quantile.num /\ den = selection.quantile.den /\ den # 0
      BY <1>2
    <3>2. PICK c \in Nat : c = count
      OBVIOUS
    <3>3. PICK e \in Nat : e = c * num + den - 1
      <4>1. PICK x \in Nat : x = c * num
        <5>1. c * num \in Nat
          OBVIOUS
        <5> QED
          BY ONLY <5>1
      <4>2. x + den - 1 \in Nat
        BY <3>1
      <4> QED
        BY ONLY <4>1, <4>2
    <3> QED
      BY ONLY <3>1, <3>2, <3>3, den \in Nat
  <2>2. e \div d \in Nat
    BY <2>1, Divided
  <2>3. PICK n \in Nat \ {0} : n = BucketSize(count, selection.quantile)
    <3>1. BucketSize(count, selection.quantile) = IF e \div d > 1 THEN e \div d ELSE 1
      BY <2>1 DEF BucketSize, CeilingOf
    <3> QED
      BY <2>2, <3>1
  <2>4. PICK l \in Nat \ {0} : l = 2 * n
    OBVIOUS
  <2>5. chosen = [i \in 1..l |-> IF i <= n THEN [asset |-> ranked[i], weight |-> 1]
                                 ELSE [asset |-> ranked[count - 2 * n + i], weight |-> -1]]
    BY <1>2, <2>3, <2>4 DEF Selected, Position
  <2> HIDE DEF chosen
  <2>6. chosen \in [1..l -> {chosen[i] : i \in 1..l}]
    BY <2>5
  <2>7. Len(chosen) = l
    BY <2>6, AsSequence
  <2>8. DOMAIN chosen = 1..l /\ \A i \in 1..l : chosen[i].weight = IF i <= n THEN 1 ELSE -1
    BY <2>5
  <2>9. \A i \in 1..l : chosen[i].weight \in Int
    BY <2>8
  <2> QED
    BY <1>2, <2>4, <2>7, <2>8, <2>9 DEF AreSelected, chosen
<1> QED
  BY <1>1, <1>2

\* The positions of a sector add up to nothing once they are neutralized.
IsNeutralAt(positions, sector, l, s) ==
  /\ DOMAIN positions = 1..l
  /\ SumAt(positions, {i \in DOMAIN positions : sector[positions[i].asset] = s}) = 0

LEMMA SectorsAreNeutral ==
  ASSUME NEW l \in Nat, NEW chosen, DOMAIN chosen = 1..l, Len(chosen) = l,
         \A i \in 1..l : chosen[i].weight \in Int, NEW sector, NEW s
  PROVE  IsNeutralAt(NeutralizeSectors(chosen, sector), sector, l, s)
<1> DEFINE positions == NeutralizeSectors(chosen, sector)
           Peers(i) == {j \in 1..l : sector[chosen[j].asset] = sector[chosen[i].asset]}
           F == {i \in 1..l : sector[chosen[i].asset] = s}
           u == [i \in 1..l |-> IF i \in F THEN chosen[i].weight ELSE 0]
           v == [i \in 1..l |-> IF i \in F THEN 1 ELSE 0]
           w == [i \in 1..l |-> IF i \in F THEN positions[i].weight ELSE 0]
<1>1. positions = [i \in 1..l |->
                     [asset |-> chosen[i].asset,
                      weight |-> chosen[i].weight * Cardinality(Peers(i)) - SumAt(chosen, Peers(i))]]
  BY DEF NeutralizeSectors, Position
<1>2. \A i \in F : Peers(i) = F
  OBVIOUS
<1> HIDE DEF Peers, positions
<1>3. /\ DOMAIN positions = 1..l
      /\ \A i \in 1..l :
           /\ positions[i].asset = chosen[i].asset
           /\ positions[i].weight = chosen[i].weight * Cardinality(Peers(i)) - SumAt(chosen, Peers(i))
  BY <1>1
<1>4. F = {i \in DOMAIN positions : sector[positions[i].asset] = s}
  BY <1>3
<1>5. Len(positions) = l
  <2>1. positions \in [1..l -> {positions[i] : i \in 1..l}]
    BY <1>1
  <2> QED
    BY <2>1, AsSequence
<1>6. SumAt(chosen, F) = Total(u) /\ SumAt(positions, F) = Total(w)
  BY <1>5 DEF SumAt
<1>7. F \in SUBSET (1..l)
  OBVIOUS
<1>8. Cardinality(F) = Total(v)
  <2> HIDE DEF F
  <2> QED
    BY <1>7, TotalCounts
<1>9. u \in [1..l -> Int] /\ v \in [1..l -> Int]
  OBVIOUS
<1>10. PICK c, t \in Int : c = Total(v) /\ t = Total(u)
  <2> HIDE DEF u, v
  <2>1. Total(u) \in Int /\ Total(v) \in Int
    BY <1>9, TotalIsReached
  <2> QED
    BY <2>1
<1>11. \A i \in F : positions[i].weight = chosen[i].weight * c - t
  <2> HIDE DEF u, v
  <2> QED
    BY <1>2, <1>3, <1>6, <1>7, <1>8, <1>10
<1>12. ASSUME NEW i \in 1..l
       PROVE  w[i] \in Int /\ w[i] = c * u[i] - t * v[i]
  <2>1. CASE i \in F
    <3>1. PICK x \in Int : x = chosen[i].weight
      OBVIOUS
    <3>2. w[i] = x * c - t /\ u[i] = x /\ v[i] = 1
      BY <1>11, <2>1, <3>1
    <3>3. x * c - t \in Int /\ x * c - t = c * x - t * 1
      OBVIOUS
    <3> QED
      BY <3>2, <3>3
  <2>2. CASE i \notin F
    <3>1. w[i] = 0 /\ u[i] = 0 /\ v[i] = 0
      BY <2>2
    <3> QED
      BY <3>1
  <2> QED
    BY <2>1, <2>2
<1>13. w \in [1..l -> Int]
  BY <1>12
<1>14. Total(w) = c * Total(u) - t * Total(v)
  <2> HIDE DEF u, v, w
  <2>1. AreDifferences(w, c, u, t, v, l)
    BY <1>12 DEF AreDifferences
  <2>2. IsDifference(w, c, u, t, v)
    BY ONLY <1>9, <1>13, <2>1, l \in Nat, c \in Int, t \in Int, TotalIsLinear
  <2> QED
    BY ONLY <2>2 DEF IsDifference
<1>15. c * t - t * c = 0
  OBVIOUS
<1>16. Total(w) = 0
  BY <1>10, <1>14, <1>15
<1> HIDE DEF F, w
<1> QED
  BY <1>3, <1>4, <1>6, <1>16 DEF positions, IsNeutralAt

LEMMA WeightsHold == AnswersAreComputed => WeightsAreBalanced
<1> SUFFICES ASSUME AnswersAreComputed, Asked("weights")
             PROVE  WeightsAreBalanced
  BY DEF WeightsAreBalanced
<1> DEFINE q == question
           F == DOMAIN q.factors
           Part(f, a) == q.factors[f][a] * q.weights[f]
           Dominates(a, b) ==
             (\A f \in F : Part(f, a) >= Part(f, b)) /\ (\E f \in F : Part(f, a) > Part(f, b))
<1>1. PICK section, ranked, positions :
        /\ section = CombineScores(q.factors, q.weights) /\ ranked = RankScores(section)
        /\ positions = ConstructWeights(section, q.selection, q.sector)
  OBVIOUS
<1>2. /\ q \in Questions["weights"]
      /\ answer.ranked = ranked /\ answer.weights = positions
      /\ answer.quantiles = [i \in 1..Len(ranked) |-> QuantileOf(i, Len(ranked), q.quantiles)]
  <2>1. answer = [ranked  |-> ranked, weights |-> positions,
                  quantiles |-> [i \in 1..Len(ranked) |-> QuantileOf(i, Len(ranked), q.quantiles)]]
    BY <1>1 DEF AnswersAreComputed
  <2> QED
    BY <2>1 DEF AnswersAreComputed
<1>3. /\ q.factors \in Seq(ToSet(q.factors)) /\ q.factors # << >>
      /\ \A f \in F :
           /\ IsFiniteSet(DOMAIN q.factors[f]) /\ DOMAIN q.factors[f] \subseteq Int
           /\ \A a \in DOMAIN q.factors[f] : q.factors[f][a] \in Int \cup {NoScore}
           /\ q.weights[f] \in Int
      /\ q.quantiles \in Nat \ {0}
      /\ q.selection.kind \in {"top_n", "top_bottom_quantile"}
      /\ q.selection.kind = "top_n" => q.selection.top \in Nat \ {0}
      /\ q.selection.kind = "top_bottom_quantile" =>
           /\ q.selection.quantile.num \in Nat \ {0} /\ q.selection.quantile.den \in Nat
           /\ 2 * q.selection.quantile.num <= q.selection.quantile.den
  BY <1>2, WeightsAssumption
<1>4. Len(q.factors) \in Nat /\ F = 1..Len(q.factors)
  <2>1. PICK S : S = ToSet(q.factors)
    OBVIOUS
  <2>2. q.factors \in Seq(S)
    BY <1>3, <2>1
  <2> QED
    BY ONLY <2>2, LenProperties
<1>5. IsComposite(section, q.factors, q.weights)
  BY <1>1, <1>3, CompositeHolds
<1>6. Scored(section) = DOMAIN section
  BY <1>5 DEF IsComposite
<1>7. PICK m \in Nat :
        /\ ranked \in [1..m -> DOMAIN section]
        /\ \A i, j \in 1..m : ranked[i] = ranked[j] => i = j
        /\ \A a \in DOMAIN section : \E i \in 1..m : ranked[i] = a
        /\ \A i, j \in 1..m : Outranks(section, ranked[i], ranked[j]) => i < j
  <2>1. /\ IsFiniteSet(DOMAIN section) /\ DOMAIN section \subseteq Int
        /\ \A a \in DOMAIN section : section[a] \in Int \cup {NoScore}
    BY <1>5 DEF IsComposite
  <2>2. AreRanked(ranked, section)
    BY <1>1, <2>1, RanksAreSound
  <2> QED
    BY <1>6, <2>2 DEF AreRanked
<1>8. PICK D : D = DOMAIN section
  OBVIOUS
<1>9. ranked \in Seq(D) /\ Len(ranked) = m /\ DOMAIN ranked = 1..m
  BY <1>7, <1>8, AsSequence
<1>10. IsInjective(ranked)
  BY <1>7, <1>9 DEF IsInjective
<1>11. ToSet(ranked) = {a \in DOMAIN q.factors[1] :
                          \A f \in F : a \in DOMAIN q.factors[f] /\ q.factors[f][a] # NoScore}
  <2>1. ToSet(ranked) = D
    <3>1. ToSet(ranked) = {ranked[i] : i \in 1..m}
      BY <1>9 DEF ToSet
    <3>2. \A i \in 1..m : ranked[i] \in D
      BY <1>7, <1>8
    <3>3. \A a \in D : \E i \in 1..m : ranked[i] = a
      BY <1>7, <1>8
    <3> QED
      BY ONLY <3>1, <3>2, <3>3
  <2> QED
    BY <1>5, <1>8, <2>1 DEF IsComposite
<1>12. ASSUME NEW i \in 1..m, NEW j \in 1..m, Dominates(ranked[i], ranked[j])
       PROVE  i < j
  <2>1. PICK a, b \in DOMAIN section : a = ranked[i] /\ b = ranked[j]
    BY <1>7
  <2>2. /\ \A f \in F : q.factors[f][a] * q.weights[f] >= q.factors[f][b] * q.weights[f]
        /\ \E f \in F : q.factors[f][a] * q.weights[f] > q.factors[f][b] * q.weights[f]
    BY <1>12, <2>1
  <2>3. Outranks(section, a, b)
    BY <1>3, <1>4, <1>5, <2>2, DominantOutranks
  <2> QED
    BY <1>7, <2>1, <2>3
<1> HIDE DEF Dominates
<1>13. /\ \A i \in 1..m : answer.quantiles[i] \in 1..q.quantiles
       /\ \A i \in 1..m : i > 1 => answer.quantiles[i - 1] <= answer.quantiles[i]
       /\ m >= q.quantiles => ToSet(answer.quantiles) = 1..q.quantiles
  <2>1. PICK k \in Nat \ {0} : k = q.quantiles
    BY <1>3
  <2>2. PICK quantiles : quantiles = answer.quantiles
    OBVIOUS
  <2>3. DOMAIN quantiles = 1..m /\ \A i \in 1..m : quantiles[i] = QuantileOf(i, m, k)
    BY <1>2, <1>9, <2>1, <2>2
  <2>4. /\ \A i \in 1..m : QuantileOf(i, m, k) \in 1..k
        /\ \A i \in 2..m : QuantileOf(i - 1, m, k) <= QuantileOf(i, m, k)
        /\ m >= k => \A p \in 1..k : \E i \in 1..m : QuantileOf(i, m, k) = p
    BY QuantilesCover
  <2>5. \A i \in 1..m : i > 1 => i \in 2..m /\ i - 1 \in 1..m
    OBVIOUS
  <2>6. \A i \in 1..m : i > 1 => quantiles[i - 1] <= quantiles[i]
    BY <2>3, <2>4, <2>5
  <2>7. ASSUME m >= k
        PROVE  ToSet(quantiles) = 1..k
    <3>1. ToSet(quantiles) = {quantiles[i] : i \in 1..m}
      BY <2>3 DEF ToSet
    <3>2. \A i \in 1..m : quantiles[i] \in 1..k
      BY <2>3, <2>4
    <3>3. \A p \in 1..k : \E i \in 1..m : quantiles[i] = p
      BY <2>3, <2>4, <2>7
    <3> QED
      BY ONLY <3>1, <3>2, <3>3
  <2> QED
    BY <2>1, <2>2, <2>3, <2>4, <2>6, <2>7
<1>14. m = 0 => ranked = << >> /\ positions = << >>
  <2>1. m = 0 => ranked = << >>
    BY ONLY <1>9, EmptySeq
  <2> QED
    BY <1>1, <2>1 DEF ConstructWeights
<1>15. ASSUME m # 0
       PROVE  /\ ranked # << >> /\ positions # << >>
              /\ ~q.selection.neutral =>
                   /\ q.selection.kind = "top_n" =>
                        Len(positions) = Len(FirstOf(ranked, q.selection.top))
                   /\ q.selection.kind = "top_bottom_quantile" => SumOf(positions) = 0
              /\ q.selection.neutral =>
                   \A s : SumAt(positions, {i \in DOMAIN positions : q.sector[positions[i].asset] = s}) = 0
  <2>1. ranked # << >> /\ Len(ranked) \in Nat \ {0}
    BY <1>9, <1>15
  <2>2. PICK chosen : chosen = Selected(ranked, q.selection)
    OBVIOUS
  <2>3. positions = IF q.selection.neutral THEN NeutralizeSectors(chosen, q.sector) ELSE chosen
    BY <1>1, <2>1, <2>2 DEF ConstructWeights
  <2>4. AreSelected(chosen, ranked, q.selection)
    BY <1>3, <2>1, <2>2, SelectedHolds
  <2>5. PICK l \in Nat \ {0} :
          /\ DOMAIN chosen = 1..l /\ Len(chosen) = l
          /\ \A i \in 1..l : chosen[i].weight \in Int
          /\ q.selection.kind = "top_n" =>
               l = IF q.selection.top < Len(ranked) THEN q.selection.top ELSE Len(ranked)
          /\ q.selection.kind = "top_bottom_quantile" =>
               \E n \in Nat : l = 2 * n /\ \A i \in 1..l : chosen[i].weight = IF i <= n THEN 1 ELSE -1
    BY <2>4 DEF AreSelected
  <2>6. CASE q.selection.neutral
    <3>1. \A s : /\ DOMAIN positions = 1..l
                 /\ SumAt(positions, {i \in DOMAIN positions : q.sector[positions[i].asset] = s}) = 0
      <4> SUFFICES ASSUME NEW s
                   PROVE  /\ DOMAIN positions = 1..l
                          /\ SumAt(positions, {i \in DOMAIN positions : q.sector[positions[i].asset] = s}) = 0
        OBVIOUS
      <4>1. PICK sector : sector = q.sector
        OBVIOUS
      <4>2. positions = NeutralizeSectors(chosen, sector)
        BY <2>3, <2>6, <4>1
      <4>3. IsNeutralAt(NeutralizeSectors(chosen, sector), sector, l, s)
        BY <2>5, SectorsAreNeutral
      <4>4. IsNeutralAt(positions, q.sector, l, s)
        BY <4>1, <4>2, <4>3
      <4> HIDE DEF q
      <4> QED
        BY <4>4 DEF IsNeutralAt
    <3>2. DOMAIN positions # {}
      BY <3>1
    <3>3. positions # << >>
      <4>1. DOMAIN << >> = {}
        OBVIOUS
      <4> QED
        BY ONLY <3>2, <4>1
    <3> HIDE DEF q
    <3> QED
      BY ONLY <2>1, <2>6, <3>1, <3>3
  <2>7. CASE ~q.selection.neutral
    <3>1. positions = chosen
      BY <2>3, <2>7
    <3>2. positions # << >>
      BY <2>5, <3>1
    <3>3. ASSUME q.selection.kind = "top_n"
          PROVE  Len(positions) = Len(FirstOf(ranked, q.selection.top))
      <4>1. q.selection.top \in Nat
        BY <1>3, <3>3
      <4>2. Len(FirstOf(ranked, q.selection.top))
              = IF Len(ranked) < q.selection.top THEN Len(ranked) ELSE q.selection.top
        BY <1>9, <4>1, FirstItems
      <4> QED
        BY <1>9, <2>5, <3>1, <3>3, <4>1, <4>2
    <3>4. ASSUME q.selection.kind = "top_bottom_quantile"
          PROVE  SumOf(positions) = 0
      <4>1. PICK n \in Nat : l = 2 * n /\ \A i \in 1..l : chosen[i].weight = IF i <= n THEN 1 ELSE -1
        BY <2>5, <3>4
      <4>2. PICK v \in [1..l -> Int] : v = [i \in 1..l |-> IF i \in 1..l THEN chosen[i].weight ELSE 0]
        BY <2>5
      <4>3. \A i \in 1..l : v[i] = IF i <= n THEN 1 ELSE -1
        BY <4>1, <4>2
      <4>4. SumOf(positions) = Total(v)
        BY <2>5, <3>1, <4>2 DEF SumOf, SumAt
      <4>5. Total(v) = 0
        BY <4>1, <4>3, LongsAndShorts
      <4> QED
        BY <4>4, <4>5
    <3> QED
      BY <2>1, <2>7, <3>2, <3>3, <3>4
  <2> QED
    BY <2>6, <2>7
<1>16. ASSUME m = 0, q.selection.neutral, NEW s
       PROVE  SumAt(positions, {i \in DOMAIN positions : q.sector[positions[i].asset] = s}) = 0
  <2>1. PICK P : P = {i \in DOMAIN positions : q.sector[positions[i].asset] = s}
    OBVIOUS
  <2>2. SumAt(positions, P) = 0
    BY <1>14, <1>16, EmptySums
  <2> QED
    BY <2>1, <2>2
<1>17. ASSUME m = 0
       PROVE  /\ SumOf(positions) = 0
              /\ q.selection.kind = "top_n" => Len(positions) = Len(FirstOf(ranked, q.selection.top))
  <2>1. SumOf(positions) = 0
    BY <1>14, <1>17, EmptySums DEF SumOf
  <2>2. ASSUME q.selection.kind = "top_n"
        PROVE  Len(positions) = Len(FirstOf(ranked, q.selection.top))
    <3>1. q.selection.top \in Nat /\ Len(positions) = 0
      BY <1>3, <1>14, <1>17, <2>2
    <3>2. Len(FirstOf(ranked, q.selection.top))
            = IF Len(ranked) < q.selection.top THEN Len(ranked) ELSE q.selection.top
      BY <1>9, <3>1, FirstItems
    <3> QED
      BY <1>3, <1>9, <1>17, <2>2, <3>1, <3>2
  <2> QED
    BY <2>1, <2>2
<1>18. /\ ranked = << >> <=> positions = << >>
       /\ ~q.selection.neutral =>
            /\ q.selection.kind = "top_n" =>
                 Len(positions) = Len(FirstOf(ranked, q.selection.top))
            /\ q.selection.kind = "top_bottom_quantile" => SumOf(positions) = 0
       /\ q.selection.neutral =>
            \A s \in {q.sector[a] : a \in DOMAIN q.sector} :
              SumAt(positions, {i \in DOMAIN positions : q.sector[positions[i].asset] = s}) = 0
  <2> HIDE DEF q
  <2> QED
    BY <1>14, <1>15, <1>16, <1>17
<1>19. \A i, j \in DOMAIN ranked : Dominates(ranked[i], ranked[j]) => i < j
  BY <1>9, <1>12
<1>20. /\ \A i \in DOMAIN ranked :
            /\ answer.quantiles[i] \in 1..q.quantiles
            /\ i > 1 => answer.quantiles[i - 1] <= answer.quantiles[i]
       /\ Len(ranked) >= q.quantiles => ToSet(answer.quantiles) = 1..q.quantiles
  BY <1>9, <1>13
<1>21. answer.ranked = ranked /\ answer.weights = positions
  BY <1>2
<1> QED
  BY ONLY <1>10, <1>11, <1>18, <1>19, <1>20, <1>21, ZenonT(60) DEF WeightsAreBalanced, Dominates

\* Whatever the factors, scores and weights: every asset that all factors score is ranked once
\* and before what it is better than, quantiles follow the ranks and are all there, a universe
\* with scores gets the positions asked for, and longs and shorts, or the positions of a
\* neutralized sector, cancel out (rank_scores, combine_scores, construct_weights and the
\* quantiles of evaluate_factor in factor_research/engine.py).
THEOREM WeightsAreSound == Spec => []WeightsAreBalanced
<1>1. AnswersAreComputed => WeightsAreBalanced
  BY WeightsHold
<1> QED
  BY <1>1, AnswersInductive, PTL
=============================================================================
