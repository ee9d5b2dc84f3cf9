------------------------------ MODULE ResearchDesk ------------------------------
(***************************************************************************)
(* The research services together: the ones that answer a request by a     *)
(* computation on its data (one question and its answer), and the ones     *)
(* that run in steps: a strategy evolution, a production simulation, the   *)
(* promotion of workflow versions, and research with its evidence.  A      *)
(* behaviour is about one of them.                                         *)
(***************************************************************************)
EXTENDS TemporalSplit, StrategyRules, Portfolio, ParameterSearch, FactorResearch, Evolution,
        ProductionSimulation, WorkflowPromotion, ResearchEvidence, ModelRouting, StressPaths

CONSTANT Questions   \* for each topic, the questions that may be asked

\* the dates of a campaign are days, and its long moving average is over a number of them
ASSUME SplitsAssumption ==
  \A q \in Questions["splits"] :
    /\ q.start \in Int /\ q.end \in Int /\ q.longWindow \in Nat
    /\ q.given # None =>
         \A part \in {q.given.train, q.given.validation, q.given.test} :
           part.start \in Int /\ part.end \in Int

\* there are finitely many releases, and their times and the staleness bound are numbers
ASSUME ReleasesAssumption ==
  \A q \in Questions["releases"] :
    /\ IsFiniteSet(q.releases) /\ q.target \in Int /\ q.policy.stale \in Int
    /\ \A r \in q.releases : r.of \in Int /\ r.available \in Int

\* Closes come bar by bar, and an indicator is an average over a number of them; fees and
\* slippage are not negative, and the bars whose purchase leaves cash are any.
ASSUME SignalsAssumption ==
  \A q \in Questions["signals"] :
    /\ q.bars \in Seq(Int)
    /\ q.costs \in [fee : Nat, slippage : Nat, residue : SUBSET Nat]
    /\ \A n \in DOMAIN q.spec.indicators : q.spec.indicators[n] \in Int

\* the other series come bar by bar too, and what looks back at them looks at a number of bars
ASSUME SeriesAssumption ==
  /\ \A q \in Questions["factor"] : q.prices \in Seq(Int) /\ q.lookback \in Nat
  /\ \A q \in Questions["regimes"] : q.bars \in Seq(ToSet(q.bars)) /\ q.lookback \in Nat \ {0}
  /\ \A q \in Questions["portfolio"] : q.dates \in Seq(Int) /\ q.lookback \in Nat

\* a scenario is one of those there are; the blocks of a sample are no longer than the path
\* and start on its days
ASSUME StressAssumption ==
  \A q \in Questions["stress"] :
    /\ q.returns \in Seq(Int) /\ q.trades \subseteq Int
    /\ q.scenario.type \in {"transaction_cost", "slippage", "delayed_execution", "volatility",
                           "return_shift"}
    /\ q.scenario.type = "delayed_execution" => q.scenario.bars \in Nat
    /\ q.size \in 1..Len(q.returns)
    /\ q.starts \in [1..BlockCount(Len(q.returns), q.size) -> 1..Len(q.returns)]

\* a space is a list of parameters with a list of values each; a budget is a number
ASSUME SearchAssumption ==
  \A q \in Questions["search"] :
    /\ q.space \in Seq(ToSet(q.space)) /\ q.symbols \in Seq(ToSet(q.symbols))
    /\ \A p \in ToSet(q.space) : p.values \in Seq(ToSet(p.values))
    /\ q.budget.experiments \in Nat /\ q.budget.trials \in Nat
    /\ q.method \in {"grid", "random", "spread", "bayesian"}

\* Factors are a list, and an asset scores a number or nothing; a bucket holds half of the
\* assets at most.
ASSUME WeightsAssumption ==
  \A q \in Questions["weights"] :
    /\ q.factors \in Seq(ToSet(q.factors)) /\ q.factors # << >>
    /\ \A f \in DOMAIN q.factors :
         /\ IsFiniteSet(DOMAIN q.factors[f]) /\ DOMAIN q.factors[f] \subseteq Int
         /\ \A a \in DOMAIN q.factors[f] : q.factors[f][a] \in Int \cup {NoScore}
         /\ q.weights[f] \in Int
    /\ \E f \in DOMAIN q.factors : q.weights[f] # 0
    /\ q.quantiles \in Nat \ {0}
    /\ q.selection.kind \in {"top_n", "top_bottom_quantile"}
    /\ q.selection.kind = "top_n" => q.selection.top \in Nat \ {0}
    /\ q.selection.kind = "top_bottom_quantile" =>
         /\ q.selection.quantile.num \in Nat \ {0} /\ q.selection.quantile.den \in Nat
         /\ 2 * q.selection.quantile.num <= q.selection.quantile.den

\* models come in the order of their registration, results one by one
ASSUME RoutingAssumption ==
  \A q \in Questions["routing"] :
    /\ q.registry \in Seq(ToSet(q.registry)) /\ q.results \in Seq(ToSet(q.results))
    /\ \A m \in ToSet(q.registry) :
         /\ m # NoModel /\ m.cost \in Nat /\ m.fallbacks \in Seq(ToSet(m.fallbacks))
         /\ \A id \in {m.id} \cup ToSet(m.fallbacks) : id # NoModel /\ q.outcome[id] \in Outcomes
    /\ \A r \in ToSet(q.results) : r.latency \in Nat
    /\ q.request.policy \in DOMAIN Weights

VARIABLES
  topic,      \* the service of the behaviour
  question,   \* the request, None before it
  answer      \* what came of it

deskVars ==
  <<topic, question, answer, evolutionVars, simulationVars, promotionVars, evidenceVars>>

Searches == {"evolution", "simulation", "promotion", "evidence"}

Init ==
  /\ topic \in DOMAIN Questions \cup Searches
  /\ question = None /\ answer = None
  /\ EvolutionInit /\ SimulationInit /\ PromotionInit /\ EvidenceInit
  /\ topic # "simulation" => request = CHOOSE r \in Requests : TRUE

\* a topic has one question
Asks(t) == topic = t /\ question = None

Answered(q, a) ==
  /\ question' = q /\ answer' = a
  /\ UNCHANGED <<topic, evolutionVars, simulationVars, promotionVars, evidenceVars>>

\* the split of a new campaign and, when it is accepted, its walk-forward windows
AskSplits ==
  /\ Asks("splits")
  /\ \E q \in Questions["splits"] :
       LET split == BuildSplit(q.start, q.end, q.given)
       IN  Answered(q, [split |-> split,
                        windows |-> IF split = None THEN {}
                                    ELSE CampaignWindows(q.start, split, q.longWindow)])

\* an external series as it was known at a time
AskReleases ==
  /\ Asks("releases")
  /\ \E q \in Questions["releases"] : Answered(q, AlignAsOf(q.releases, q.target, q.policy))

\* the backtest of a strategy
AskSignals ==
  /\ Asks("signals")
  /\ \E q \in Questions["signals"] :
       LET positions == EvaluatePositions(q.spec, q.bars)
       IN  /\ ValidStrategy(q.spec)
           /\ Answered(q, [positions |-> positions, account |-> RunBacktest(positions, q.costs)])

\* the portfolio of some strategies
AskPortfolio ==
  /\ Asks("portfolio")
  /\ \E q \in Questions["portfolio"] : Answered(q, ConstructPortfolio(q))

\* the regimes of a series of bars, the runs of equal labels
AskRegimes ==
  /\ Asks("regimes")
  /\ \E q \in Questions["regimes"] :
       Answered(q, [labels |-> ClassifyRegimes(q.bars, q.lookback),
                    runs |-> SummarizeTransitions(q.bars)])

\* the variants of a search, and the plan of a campaign that tests them
AskSearch ==
  /\ Asks("search")
  /\ \E q \in Questions["search"] :
       \E variants \in Variants(q.space, q.constraints, q.method, PlannedVariants(q.budget)) :
         Answered(q, [variants |-> variants, plan |-> PlanCampaign(q.symbols, variants, q.budget)])

\* the scores of a price factor
AskFactor ==
  /\ Asks("factor")
  /\ \E q \in Questions["factor"] : Answered(q, PriceFactor(q.prices, q.lookback))

\* the weights of a composite of factors on one date
AskWeights ==
  /\ Asks("weights")
  /\ \E q \in Questions["weights"] :
       LET section == CombineScores(q.factors, q.weights)
       IN  Answered(q, [ranked  |-> RankScores(section),
                        weights |-> ConstructWeights(section, q.selection, q.sector),
                        quantiles |-> LET n == Len(RankScores(section))
                                      IN  [i \in 1..n |-> QuantileOf(i, n, q.quantiles)]])

\* the model of a research task, and the chain of its fallbacks
AskRouting ==
  /\ Asks("routing")
  /\ \E q \in Questions["routing"] :
       LET decision == SelectModel(q.registry, q.request, q.results)
       IN  Answered(q, [decision |-> decision,
                        run |-> IF decision.model = NoModel THEN None
                                ELSE RunChain(Chain(decision.model), q.outcome)])

\* a return path under a scenario, and a path sampled from it
AskStress ==
  /\ Asks("stress")
  /\ \E q \in Questions["stress"] :
       Answered(q, [path |-> ApplyScenario(q.returns, q.trades, q.scenario),
                    sample |-> BootstrapDays(Len(q.returns), q.size, q.starts),
                    top |-> TopDay(q.returns)])

Evolve ==
  /\ topic = "evolution" /\ EvolutionNext
  /\ UNCHANGED <<topic, question, answer, simulationVars, promotionVars, evidenceVars>>

Simulation ==
  /\ topic = "simulation" /\ SimulationNext
  /\ UNCHANGED <<topic, question, answer, evolutionVars, promotionVars, evidenceVars>>

Promote ==
  /\ topic = "promotion" /\ PromotionNext
  /\ UNCHANGED <<topic, question, answer, evolutionVars, simulationVars, evidenceVars>>

Research ==
  /\ topic = "evidence" /\ EvidenceNext
  /\ UNCHANGED <<topic, question, answer, evolutionVars, simulationVars, promotionVars>>

Next ==
  \/ AskSplits \/ AskReleases \/ AskSignals \/ AskPortfolio \/ AskRegimes \/ AskSearch
  \/ AskFactor \/ AskWeights \/ AskRouting \/ AskStress
  \/ Evolve \/ Simulation \/ Promote \/ Research

Spec == Init /\ [][Next]_deskVars
=============================================================================
