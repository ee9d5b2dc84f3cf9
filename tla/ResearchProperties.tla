--------------------------- MODULE ResearchProperties ---------------------------
(* What a researcher relies on in the answers of the research desk. *)
EXTENDS ResearchDesk

Asked(t) == topic = t /\ question # None

-----------------------------------------------------------------------------
(* The test split of a campaign stays out of the research: the periods do not overlap and
   are in order, the rows a model is fitted to are in neither of the later periods and known
   before them, and no walk-forward window that the validation uses touches the test period;
   the windows of one campaign do not test twice on one day.
   (campaigns/splits.py, walk_forward.py and the walk-forward of a campaign job.) *)
TestStaysLocked ==
  Asked("splits") /\ answer.split # None =>
    LET split == answer.split
        observed == {row \in {[at |-> d, available |-> d + early, target |-> d + ahead] :
                               d \in question.start .. question.end, early \in -1..1, ahead \in 0..1} :
                       PointInTime(row)}
        Days(period) == period.start .. (period.end - 1)
    IN  /\ TrainingRows(observed, split) \cap
             (InPeriod(observed, split.validation) \cup InPeriod(observed, split.test)) = {}
        /\ \A row \in TrainingRows(observed, split) : row.available < split.validation.start
        /\ \A w \in answer.windows :
             /\ (Days(w.train) \cup Days(w.test)) \cap Days(split.test) = {}
             /\ w.train.end = w.test.start /\ question.start <= w.train.start
             /\ Cardinality(Days(w.train)) > question.longWindow
             /\ Cardinality(Days(w.test)) > question.longWindow
             /\ \A v \in answer.windows \ {w} : Days(v.test) \cap Days(w.test) = {}

-----------------------------------------------------------------------------
(* Releases, positions, scores, regimes, rebalances and stressed paths do not use the future.
   A release is found only once it is available, and none that comes later changes what was
   found; a position does not depend on the bar it is held over nor on any after it; a score
   and a regime are those the bars so far would have given; the weights a rebalance set come
   from earlier periods alone; and a stressed path charges what was traded by then, a sampled
   one keeps the order of days within a block.  The weights a portfolio starts with, which are
   all of a static one, are left out: they come from the whole sample (portfolio/engine.py:80),
   although the policy stored with them says otherwise (portfolio/engine.py:59).
   (alternative_data/alignment.py, strategy_dsl/compiler.py, factor_research/engine.py,
   regimes/engine.py, portfolio/engine.py, stress_testing/engine.py.) *)
ReleasesInTime ==
  Asked("releases") =>
    /\ answer = AlignAsOf({r \in question.releases : r.available <= question.target},
                          question.target, question.policy)
    /\ answer.release # None => answer.release.available <= question.target
    /\ answer.status = "available" /\ question.policy.stale > 0 =>
         question.target - answer.release.of <= question.policy.stale

SignalsInTime ==
  Asked("signals") =>
    \A t \in DOMAIN question.bars, close \in 1..3 :
      LET seen == Append(SubSeq(question.bars, 1, t - 1), close)
      IN  EvaluatePositions(question.spec, seen)[t] = answer.positions[t]

ScoresInTime ==
  Asked("factor") =>
    \A t \in DOMAIN answer :
      LET before == PriceFactor(SubSeq(question.prices, 1, t), question.lookback)
      IN  t \in DOMAIN before /\ before[t] = answer[t]

RegimesInTime ==
  Asked("regimes") =>
    \A t \in DOMAIN question.bars :
      ClassifyRegimes(SubSeq(question.bars, 1, t), question.lookback)[t] = answer.labels[t]

WeightsInTime ==
  Asked("portfolio") =>
    \A i \in DOMAIN answer :
      answer[i].at > 0 => /\ answer[i].at <= i
                          /\ question.dynamic => answer[i].weights \subseteq 1..(answer[i].at - 1)

StressInTime ==
  Asked("stress") =>
    LET n == Len(question.returns)
    IN  /\ \A t \in 1..n :
             LET seen == SubSeq(question.returns, 1, t)
                 trades == {d \in question.trades : d <= t}
             IN  ApplyScenario(seen, trades, question.scenario)[t] = answer.path[t]
        /\ \A i \in 1..(n - 1) :
             answer.sample[i + 1] = (answer.sample[i] % n) + 1 \/ i % question.size = 0
        /\ \A t \in 1..n : question.returns[t] > 0 =>
             answer.top # 0 /\ question.returns[t] <= question.returns[answer.top]

NothingLooksAhead ==
  ReleasesInTime /\ SignalsInTime /\ ScoresInTime /\ RegimesInTime /\ WeightsInTime
  /\ StressInTime

-----------------------------------------------------------------------------
\* the cost of a sale stays below what it sells; the requests bound neither rate
UsualCosts(costs) == costs.fee < 100 /\ costs.slippage < 100

\* a sale takes cash from the account: one of fee and slippage is over all it sells
SaleLoses(costs) ==
  \/ costs.fee > 100 /\ costs.slippage < 100
  \/ costs.fee < 100 /\ costs.slippage > 100

\* A backtest is in or out of the market as its positions say: its trades start with a
\* purchase, alternate, and no two are on one bar; it never holds shares while it should not,
\* and holds them whenever it should as long as fee and slippage are below the whole of what
\* is sold, also when rounding leaves some cash behind a purchase.  At rates from there on, it
\* can be out while it should be in, but only after a sale and without cash, and for good
\* after the first one if sales lose money.
\* (backtesting/engine.py and native/engine.cpp.)
TradesAlternate ==
  Asked("signals") =>
    \A t \in 1..Len(answer.positions) :
      LET account == answer.account[t]
          trades  == account.trades
          long    == answer.positions[t] > 0
      IN  /\ account.shares => long
          /\ long /\ ~account.shares =>
               ~account.cash /\ ~UsualCosts(question.costs) /\ Len(trades) >= 2
          /\ SaleLoses(question.costs) => Len(trades) <= 2
          /\ account.shares <=> Len(trades) % 2 = 1
          /\ \A i \in DOMAIN trades :
               /\ trades[i].side = IF i % 2 = 1 THEN "BUY" ELSE "SELL"
               /\ i > 1 => trades[i - 1].bar < trades[i].bar

\* The runs of equal labels are a partition of the series: the first starts with it, each
\* starts where the one before it ends its count and with another label, and its labels are
\* those it names.
\* (regimes/engine.py, summarize_transitions.)
RunsPartition ==
  Asked("regimes") =>
    LET runs == answer.runs
        n == Len(runs)
        After(i) == runs[i].start + runs[i].duration
    IN  /\ n = 0 <=> question.bars = << >>
        /\ n > 0 => runs[1].start = 1
        /\ \A i \in 1..n :
             /\ After(i) <= Len(question.bars) + 1
             /\ \A t \in runs[i].start .. (After(i) - 1) : question.bars[t] = runs[i].from
             /\ IF i = n THEN After(i) = Len(question.bars) + 1 /\ runs[i].to = "none"
                ELSE /\ After(i) = runs[i + 1].start /\ runs[i].to = runs[i + 1].from
                     /\ runs[i].to # runs[i].from

(* What cuts a series of bars, its trades or its changes of regime, cuts it in turns and
   nothing is on both sides; the runs of a regime leave no bar out, and the trades none that
   the account had the cash for. *)
SeriesAreCut == TradesAlternate /\ RunsPartition

-----------------------------------------------------------------------------
(* A search proposes distinct candidates that break no constraint, no more than its budget,
   and fewer only when there are no more (but for the optimizer, which may repeat itself, and
   for a spread over a grid that does); a spread reaches both ends of the grid.  The plan of
   a campaign keeps to its experiments, tests nothing twice unless a symbol is asked for
   twice, and starts no symbol before the one before it has every variant.
   (campaigns/optimization.py and the planning of campaigns/service.py.) *)
SearchStaysInBudget ==
  Asked("search") =>
    LET grid == GridCandidates(question.space, question.constraints)
        chosen == answer.variants
        most == PlannedVariants(question.budget)
        enough == IF Cardinality(ToSet(grid)) < most THEN Cardinality(ToSet(grid)) ELSE most
        plan == answer.plan
    IN  /\ IsInjective(chosen) /\ ToSet(chosen) \subseteq ToSet(grid) /\ Len(chosen) <= most
        /\ \A c \in ToSet(chosen) : ~Rejected(c, question.constraints)
        /\ question.method \in {"grid", "random"} \/ (question.method = "spread" /\ IsInjective(grid)) =>
             Len(chosen) = enough
        /\ question.method = "spread" /\ IsInjective(grid) /\ Len(chosen) > 1 =>
             chosen[1] = Head(grid) /\ chosen[Len(chosen)] = Last(grid)
        /\ Len(plan) <= question.budget.experiments
        /\ IsInjective(question.symbols) => IsInjective(plan)
        /\ \A i \in DOMAIN plan : i > 1 /\ plan[i].symbol # plan[i - 1].symbol =>
             \A v \in ToSet(chosen) : \E j \in 1..(i - 1) :
               plan[j] = [symbol |-> plan[i - 1].symbol, parameters |-> v]

-----------------------------------------------------------------------------
(* The composite of several factors ranks every asset that all of them score, once, and an
   asset that some factor finds better, and none worse, before the other (a negative weight
   turns a factor round); its quantiles follow the ranks and none is empty while there are
   assets enough; a scored universe always gets positions, as many as were asked for and are
   there.  Of equal weights, long and short, and the positions of a neutralized sector, cancel
   out; weights by score or by inverse volatility need not, and are left out.
   (factor_research/engine.py.) *)
WeightsAreBalanced ==
  Asked("weights") =>
    LET ranked == answer.ranked
        positions == answer.weights
        factors == question.factors
        F == DOMAIN factors
        Part(f, a) == factors[f][a] * question.weights[f]
        Dominates(a, b) ==
          (\A f \in F : Part(f, a) >= Part(f, b)) /\ (\E f \in F : Part(f, a) > Part(f, b))
        Of(s) == {i \in DOMAIN positions : question.sector[positions[i].asset] = s}
    IN  /\ IsInjective(ranked)
        /\ ToSet(ranked) = {a \in DOMAIN factors[1] :
                              \A f \in F : a \in DOMAIN factors[f] /\ factors[f][a] # NoScore}
        /\ \A i, j \in DOMAIN ranked : Dominates(ranked[i], ranked[j]) => i < j
        /\ \A i \in DOMAIN ranked :
             /\ answer.quantiles[i] \in 1..question.quantiles
             /\ i > 1 => answer.quantiles[i - 1] <= answer.quantiles[i]
        /\ Len(ranked) >= question.quantiles => ToSet(answer.quantiles) = 1..question.quantiles
        /\ ranked = << >> <=> positions = << >>
        /\ ~question.selection.neutral =>
             /\ question.selection.kind = "top_n" =>
                  Len(positions) = Len(FirstOf(ranked, question.selection.top))
             /\ question.selection.kind = "top_bottom_quantile" => SumOf(positions) = 0
        /\ question.selection.neutral =>
             \A s \in {question.sector[a] : a \in DOMAIN question.sector} : SumAt(positions, Of(s)) = 0

-----------------------------------------------------------------------------
(* An evolution never loses what it found: the champion it tracks is the one the endpoint
   reports, one that replaced another was better and failed in no regime, and on unchanged
   market rows no generation is worse than the one before it.  Every candidate after the
   first generation repeats one of the generation before or is a valid mutant of one.
   (evolution/service.py, fitness.py, mutation.py.) *)
BestOf(g) == {i \in DOMAIN candidates : candidates[i].generation = g}

EvolutionKeepsBest ==
  /\ ReportedChampion = champion
  /\ \A i \in DOMAIN candidates :
       /\ ValidSpecification(candidates[i].spec)
       /\ candidates[i].generation > 0 =>
            \E p \in BestOf(candidates[i].generation - 1) :
              IF candidates[i].mutated
                THEN candidates[i].parents = {p} /\ candidates[i].spec.long = candidates[p].spec.long
                ELSE candidates[i].parents = candidates[p].parents
                     /\ candidates[i].spec = candidates[p].spec
       /\ candidates[i].status = "promote" =>
            \A j \in 1..(i - 1) : candidates[j].status = "promote" =>
              /\ candidates[j].fitness.score < candidates[i].fitness.score
              /\ candidates[i].fitness.flags \cap Blocking = {}
  /\ \A g \in 0..(generation - 2) :
       Cardinality({candidates[i].rows : i \in BestOf(g) \cup BestOf(g + 1)}) = 1 =>
         \A i \in BestOf(g) : \E j \in BestOf(g + 1) :
           candidates[j].fitness.score >= candidates[i].fitness.score

-----------------------------------------------------------------------------
(* A production simulation never goes back to a version it retired, unless the request lists
   one more than once: each version is promoted once and the one deployed is the only one not
   retired.  Whatever is listed, the champion was known by the end of the research window, is
   never expected to do worse than the one before it, and better when it is another version;
   and deployments of one cadence do not overlap when the cadence is no shorter than a
   deployment.  (production_simulation/service.py.) *)
ChampionsNeverReturn ==
  LET At(version, state) ==
        {i \in DOMAIN lifecycle : lifecycle[i].version = version /\ lifecycle[i].state = state}
      versions == {lifecycle[i].version : i \in DOMAIN lifecycle}
      listedOnce == \A c, d \in Manifest(request) : c.version = d.version => c = d
  IN  /\ listedOnce =>
           \A v \in versions :
             /\ Cardinality(At(v, "PROMOTED")) = 1
             /\ At(v, "RETIRED") = {} <=> v = deployed.version
             /\ \A i \in At(v, "RETIRED"), j \in At(v, "ACTIVE") : j < i
      /\ \A i \in DOMAIN timeline :
           LET cycle == timeline[i]
               previous == timeline[i - 1]
           IN  /\ cycle.champion.promoted /\ cycle.champion.asOf <= cycle.research.end
               /\ i > 1 =>
                    /\ previous.champion.sharpe <= cycle.champion.sharpe
                    /\ cycle.champion.version # previous.champion.version =>
                         previous.champion.sharpe < cycle.champion.sharpe
                    /\ request.cadence >= request.deployment =>
                         previous.deployment.end <= cycle.deployment.start
      /\ \A i \in 1..(Len(timeline) - 1) : timeline[i].flagged => ~request.stop

-----------------------------------------------------------------------------
(* The model of a task fits it and, whenever some model does, its budget; a critical task
   never goes over the budget, and an answer that does, for want of a choice, says so.  Of
   the models that fit none is worth more, and, as long as costs and latencies are the usual
   ones, one that was never measured is taken for lack of a measured one only.  A chain of
   fallbacks ends at its first answer.
   (model_routing/service.py, evidence.py, execution.py.) *)
RoutingKeepsBudget ==
  Asked("routing") =>
    LET able == {question.registry[i] : i \in Compatible(question.registry, question.request)}
        affordable == {m \in able : BudgetAllows(m, question.request)}
        chosen == answer.decision.model
        Worth(m) == Utility(m, question.request, question.results)
        Measured(m) == ResultsOf(question.results, m.id, question.request.type) # {}
        chain == Chain(chosen)
        run == answer.run
        tried == Len(run.errors)
    IN  /\ chosen = NoModel <=> affordable = {} /\ (able = {} \/ question.request.critical)
        /\ chosen # NoModel =>
             LET choice == IF affordable # {} THEN affordable ELSE able
             IN  /\ chosen \in choice
                 /\ \A m \in choice : Worth(m) <= Worth(chosen) /\ (Measured(m) => Measured(chosen))
                 /\ answer.decision.downgraded \/ affordable # {}
                 /\ \A i \in 1..tried : run.errors[i] = chain[i] /\ question.outcome[chain[i]] = "retryable"
                 /\ IF run.model # NoModel
                      THEN run.model = chain[tried + 1] /\ question.outcome[run.model] = "answer"
                      ELSE tried < Len(chain) => question.outcome[chain[tried + 1]] = "other"

=============================================================================
