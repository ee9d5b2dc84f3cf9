------------------------------- MODULE Evolution -------------------------------
(***************************************************************************)
(* A strategy evolution run (app/evolution): generations of strategies,    *)
(* each backtested, ranked, its best decided on against the champion, and  *)
(* its upper half kept and mutated.  A run is one transaction, but market  *)
(* rows other sessions commit change what its later backtests see: the     *)
(* same strategy scores the same only on the same rows (Fitness).          *)
(***************************************************************************)
EXTENDS Regimes

CONSTANTS
  InitialPopulation,   \* sequence of moving-average strategies of the request
  Generations,         \* their number in the request
  PopulationSize,      \* its size in the request
  Scores,              \* fitness scores a backtest may come to
  Performances,        \* how a backtest may fare in the regimes it meets
  Hint,                \* whether the memory retrieved mentions volatility
  MaxIngests           \* bound: times new market rows are committed during the run

ValidSpecification(spec) == 2 <= spec.short /\ spec.short < spec.long /\ spec.long <= 252

\* a request is answered after each of its strategies is validated
ASSUME EvolutionAssumption ==
  /\ InitialPopulation \in Seq([short : Int, long : Int, scaled : BOOLEAN]) \ {<< >>}
  /\ \A i \in DOMAIN InitialPopulation : ValidSpecification(InitialPopulation[i])
  /\ Generations \in Nat \ {0} /\ PopulationSize \in Nat \ {0, 1} /\ Hint \in BOOLEAN
  /\ Scores \subseteq Int

VARIABLES
  population,   \* the strategies of the generation, with their origin
  candidates,   \* all candidates evaluated so far, in order
  champion,     \* position in candidates of the champion, 0 if none
  generation,   \* the current one
  rows,         \* version of the market rows
  fitness,      \* what each strategy evaluated on these rows came to
  status        \* "running", then "completed"

evolutionVars == <<population, candidates, champion, generation, rows, fitness, status>>

Entry(spec, parents, mutated) == [spec |-> spec, parents |-> parents, mutated |-> mutated]

EvolutionInit ==
  /\ population = LET n == IF Len(InitialPopulation) < PopulationSize
                             THEN Len(InitialPopulation) ELSE PopulationSize
                  IN  [i \in 1..n |-> Entry(InitialPopulation[i], {}, FALSE)]
  /\ candidates = << >> /\ champion = 0 /\ generation = 0
  /\ rows = 0 /\ fitness = << >> /\ status = "running"

-----------------------------------------------------------------------------
(* Mutation *)

\* A hint of volatility turns on volatility scaling; without one the short window moves by
\* one to three bars, down in even generations and up in odd ones.
Mutate(spec, g) ==
  LET step == 1 + (g % 3)
      down == IF spec.short - step > 2 THEN spec.short - step ELSE 2
      up   == IF spec.short + step < spec.long - 1 THEN spec.short + step ELSE spec.long - 1
  IN  IF Hint THEN [spec EXCEPT !.scaled = TRUE]
      ELSE [spec EXCEPT !.short = IF g % 2 = 0 THEN down ELSE up]

-----------------------------------------------------------------------------
(* One generation *)

\* positions in candidates of the generation's, in order
Current == {i \in DOMAIN candidates : candidates[i].generation = generation}

\* a higher score comes first, and the earlier among equals
Before(i, j) ==
  \/ candidates[i].fitness.score > candidates[j].fitness.score
  \/ candidates[i].fitness.score = candidates[j].fitness.score /\ i < j

\* the generation in that order: in each place the one with so many before it
Ranked ==
  [place \in 1..Cardinality(Current) |->
     CHOOSE i \in Current : Cardinality({j \in Current : Before(j, i)}) = place - 1]

Blocking == {"REGIME_DEPENDENCE_HIGH", "HIGH_VOL_FAILURE", "SIDEWAYS_FAILURE", "OVERFITTING_HIGH"}

\* the first best is promoted whatever its flags
ChampionDecision(best) ==
  IF champion = 0 THEN "promote"
  ELSE IF best.fitness.flags \cap Blocking # {} THEN "reject"
  ELSE IF best.fitness.score >= candidates[champion].fitness.score + 2 THEN "promote"
  ELSE "reject"

\* the upper half of the population, at least one
ParentsOf(ranked) ==
  SubSeq(ranked, 1, LET half == PopulationSize \div 2
                    IN IF Len(ranked) < half THEN Len(ranked) ELSE half)

\* a parent stays with the origin it had
Survivor(parent) == Entry(candidates[parent].spec, candidates[parent].parents, FALSE)

Offspring(parent) == Entry(Mutate(candidates[parent].spec, generation + 1), {parent}, TRUE)

\* The faulty NextPopulation of a mutant: all are mutated, the best included.
AllMutated(ranked) ==
  LET parents == ParentsOf(ranked)
  IN  [i \in 1..PopulationSize |-> Offspring(parents[((i - 1) % Len(parents)) + 1])]

\* the parents, and mutants of each in turn
NextPopulation(ranked) ==
  LET parents == ParentsOf(ranked)
  IN  [i \in 1..PopulationSize |->
         IF i <= Len(parents) THEN Survivor(parents[i])
         ELSE Offspring(parents[((i - 1) % Len(parents)) + 1])]

\* Backtest the next strategy of the generation on the market rows there are now.
EvaluateCandidate ==
  LET next == Cardinality(Current) + 1
      entry == population[next]
      Came(score, performance) == [score |-> score, flags |-> RobustnessFlags(performance)]
  IN  /\ status = "running" /\ next <= Len(population)
      /\ \E f \in IF entry.spec \in DOMAIN fitness THEN {fitness[entry.spec]}
                  ELSE {Came(s, p) : s \in Scores, p \in Performances} :
           /\ fitness' = [s \in DOMAIN fitness \cup {entry.spec} |->
                           IF s = entry.spec THEN f ELSE fitness[s]]
           /\ candidates' = Append(candidates,
                [spec |-> entry.spec, parents |-> entry.parents, mutated |-> entry.mutated,
                 generation |-> generation, fitness |-> f, rows |-> rows,
                 status |-> "challenger"])
      /\ UNCHANGED <<population, champion, generation, rows, status>>

\* Decide on the best of the generation and breed the next; the last one ends the run.
SelectGeneration ==
  LET best == Head(Ranked)
      decision == ChampionDecision(candidates[best])
  IN  /\ status = "running" /\ Cardinality(Current) = Len(population)
      /\ candidates' = [candidates EXCEPT ![best].status = decision]
      /\ champion' = IF decision = "promote" THEN best ELSE champion
      /\ population' = NextPopulation(Ranked)
      /\ generation' = generation + 1
      /\ status' = IF generation + 1 = Generations THEN "completed" ELSE "running"
      /\ UNCHANGED <<rows, fitness>>

\* another session commits market rows
MarketRowsChange ==
  /\ status = "running" /\ rows < MaxIngests
  /\ rows' = rows + 1 /\ fitness' = << >>
  /\ UNCHANGED <<population, candidates, champion, generation, status>>

EvolutionNext == EvaluateCandidate \/ SelectGeneration \/ MarketRowsChange

-----------------------------------------------------------------------------
(* Reads *)

\* the champion endpoint: the best score among the promoted, the earliest of equals
ReportedChampion ==
  LET promoted == {i \in DOMAIN candidates : candidates[i].status = "promote"}
  IN  IF promoted = {} THEN 0
      ELSE CHOOSE i \in promoted : \A j \in promoted : ~Before(j, i)
=============================================================================
