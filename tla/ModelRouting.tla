----------------------------- MODULE ModelRouting -----------------------------
(***************************************************************************)
(* The choice of a model for a research task (app/model_routing): evidence *)
(* of the models from the benchmark results, their utility under a policy, *)
(* the budget of the request, and the chain of fallbacks.  Scores and      *)
(* rates are percentages, costs and latencies whole numbers.               *)
(***************************************************************************)
EXTENDS Integers, FiniteSets, SequencesExt

CONSTANT NoModel

-----------------------------------------------------------------------------
(* Evidence *)

Percent(n, m) == (100 * n) \div m

\* where the results of completed evaluations are the model's at tasks of the type
ResultsOf(results, model, type) ==
  {i \in DOMAIN results : results[i].model = model /\ results[i].type = type}

TotalLatency(results, own) ==
  LET upTo[i \in 0..Len(results)] ==
        IF i = 0 THEN 0 ELSE upTo[i - 1] + (IF i \in own THEN results[i].latency ELSE 0)
  IN  upTo[Len(results)]

\* without a result there is no credit, and a latency that outweighs any
Evidence(results, model, type) ==
  LET own == ResultsOf(results, model, type)
      n == Cardinality(own)
      successes == Percent(Cardinality({i \in own : results[i].success}), n)
  IN  IF own = {} THEN [quality |-> 0, success |-> 0, structured |-> 0, latency |-> 1000000]
      ELSE [quality    |-> successes,
            success    |-> successes,
            structured |-> Percent(Cardinality({i \in own : results[i].structured}), n),
            latency    |-> TotalLatency(results, own) \div n]

-----------------------------------------------------------------------------
(* Routing.  A model is meant by its position in the registry. *)

\* weights of quality, cost and latency, in percent
Weights ==
  [fast         |-> [quality |-> 20, cost |-> 45, latency |-> 35],
   balanced     |-> [quality |-> 55, cost |-> 25, latency |-> 20],
   high_quality |-> [quality |-> 80, cost |-> 10, latency |-> 10]]

\* three hundred thousand times the utility of the code, a cost being in cents
Utility(model, request, results) ==
  LET evidence == Evidence(results, model.id, request.type)
      weights  == Weights[request.policy]
      quality  == evidence.quality + evidence.success + evidence.structured
  IN  (10 * weights.quality * quality)
        - ((30 * weights.cost * model.cost) + (3 * weights.latency * evidence.latency))

Compatible(registry, request) ==
  {i \in DOMAIN registry :
     /\ registry[i].enabled /\ request.type \in registry[i].types
     /\ request.structured => registry[i].structured
     /\ request.tools => registry[i].tools}

\* a limit of NoModel is none
BudgetAllows(model, request) ==
  /\ request.maxCost = NoModel \/ model.cost <= request.maxCost
  /\ request.remaining = NoModel \/ model.cost <= request.remaining
  /\ request.calls = NoModel \/ request.calls > 0

\* the first of the best
Best(models, registry, request, results) ==
  registry[CHOOSE i \in models : \A j \in models :
    LET mine == Utility(registry[i], request, results)
        other == Utility(registry[j], request, results)
    IN  mine > other \/ (mine = other /\ i <= j)]

Refused == [model |-> NoModel, downgraded |-> FALSE]

\* The faulty SelectModel of a mutant: the best is taken first and its cost looked at after.
SelectBestFirst(registry, request, results) ==
  LET candidates == Compatible(registry, request)
      best == Best(candidates, registry, request, results)
  IN  IF candidates = {} \/ (request.critical /\ ~BudgetAllows(best, request)) THEN Refused
      ELSE [model |-> best, downgraded |-> ~BudgetAllows(best, request)]

SelectModel(registry, request, results) ==
  LET candidates == Compatible(registry, request)
      feasible   == {i \in candidates : BudgetAllows(registry[i], request)}
  IN  IF candidates = {} \/ (feasible = {} /\ request.critical) THEN Refused
      ELSE IF feasible = {}
             THEN [model |-> Best(candidates, registry, request, results), downgraded |-> TRUE]
      ELSE [model |-> Best(feasible, registry, request, results),
            downgraded |-> request.remaining # NoModel /\ feasible # candidates]

-----------------------------------------------------------------------------
(* Execution *)

\* what a call of a model comes to: an answer, an error the chain goes on from, or another one
Outcomes == {"answer", "retryable", "other"}

\* the chain is tried in order until a model answers; an error of another kind ends it
RunChain(chain, outcome) ==
  LET stops == {i \in DOMAIN chain : outcome[chain[i]] # "retryable"}
      last  == CHOOSE i \in stops : \A j \in stops : i <= j
  IN  IF stops = {} THEN [model |-> NoModel, errors |-> chain]
      ELSE [model  |-> IF outcome[chain[last]] = "answer" THEN chain[last] ELSE NoModel,
            errors |-> SubSeq(chain, 1, last - 1)]

\* the model selected, then its fallbacks
Chain(model) == <<model.id>> \o model.fallbacks
=============================================================================
