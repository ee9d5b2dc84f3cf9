--------------------------- MODULE WorkflowPromotion ---------------------------
(***************************************************************************)
(* Controlled promotion of workflow versions (app/evals).  A version is    *)
(* benchmarked on fixed tasks by what its manifest makes of them; a        *)
(* workflow experiment benchmarks two and decides by its rules; and a      *)
(* promotion makes the candidate of a passed experiment the champion of    *)
(* its component.  A promotion reads, then writes and commits: others may  *)
(* commit in between, and an update writes the columns that differ from    *)
(* what was read.                                                          *)
(***************************************************************************)
EXTENDS Integers, Sequences, FiniteSets

CONSTANTS
  Workflows,      \* workflow versions
  Component,      \* the component each is a version of
  Overridden,     \* the <<task, fact>> its manifest makes other than the task expects
  Price,          \* estimated cost of a task under it
  PromotionRules, \* rules of the requests: see PromotionRule
  Promoters,      \* sessions
  MaxExperiments, MaxPromotions   \* bounds

\* tasks the candidate must gain, percent it may cost more, and whether a critical task
\* may be lost
PromotionRule == [delta : Int, cost : Nat, critical : BOOLEAN]

ASSUME PromotionAssumption ==
  /\ PromotionRules \subseteq PromotionRule
  /\ Price \in [Workflows -> Nat] /\ MaxExperiments \in Nat /\ MaxPromotions \in Nat

VARIABLES
  contests,     \* the committed workflow experiments, in order
  champions,    \* the rows of the champions, one for each component
  titled,       \* the versions whose status is champion
  promotions,   \* the decision records of the promotions, in order
  promoting,    \* what each session has read for its promotion
  blind         \* has a promotion committed over a champion it had not read?

promotionVars == <<contests, champions, titled, promotions, promoting, blind>>

NoPromotion == [active |-> FALSE]

PromotionInit ==
  /\ contests = << >> /\ champions = {} /\ titled = {} /\ promotions = << >>
  /\ promoting = [s \in Promoters |-> NoPromotion] /\ blind = FALSE

-----------------------------------------------------------------------------
(* Benchmarks *)

\* the facts about its output the rules of a task score
ScoredFacts ==
  [momentum_strategy             |-> {"structured", "strategy"},
   mean_reversion_strategy       |-> {"structured", "strategy"},
   impossible_strategy_rejection |-> {"structured", "reject", "failure_type"},
   lookahead_bias                |-> {"structured", "reject", "failure_type"},
   overfitting_detection         |-> {"structured", "failure_type", "mentions_oos"},
   failed_experiment_critique    |-> {"structured", "mentions_drawdown", "suggests_next_experiment"},
   memory_retrieval_relevance    |-> {"retrieved_lesson_id", "irrelevant_retrieval"},
   next_experiment_selection     |-> {"structured", "next_action"}]

BenchmarkTasks == DOMAIN ScoredFacts

CriticalTasks == {"momentum_strategy", "impossible_strategy_rejection", "lookahead_bias"}

\* what the executor answers: as the task expects, but for what the manifest overrides
AsExpected(w, task) == {fact \in ScoredFacts[task] : <<task, fact>> \notin Overridden[w]}

Passes(w, task) == AsExpected(w, task) = ScoredFacts[task]

Successes(w) == {task \in BenchmarkTasks : Passes(w, task)}

\* the aggregate of a benchmark run: sums stand for its averages
Aggregate(w) ==
  [success  |-> Cardinality(Successes(w)),
   critical |-> CriticalTasks \cap Successes(w),
   cost     |-> Price[w]]

-----------------------------------------------------------------------------
(* Workflow experiments *)

Regressions(baseline, candidate) == Aggregate(baseline).critical \ Aggregate(candidate).critical

Gain(baseline, candidate) == Aggregate(candidate).success - Aggregate(baseline).success

CostExceeded(baseline, candidate, rules) ==
  100 * Aggregate(candidate).cost > (100 + rules.cost) * Aggregate(baseline).cost

\* latencies are measured: whether the candidate's is within the limit may vary
Passed(baseline, candidate, rules, inTime) ==
  /\ Gain(baseline, candidate) >= rules.delta
  /\ inTime
  /\ ~CostExceeded(baseline, candidate, rules)
  /\ rules.critical => Regressions(baseline, candidate) = {}

\* the rules the decision record reports as failed: it judges the comparison once more
FailedRules(baseline, candidate, rules, inTime) ==
  {rule \in {"success", "latency", "cost", "critical"} :
     CASE rule = "success"  -> Gain(baseline, candidate) < rules.delta
       [] rule = "latency"  -> ~inTime
       [] rule = "cost"     -> CostExceeded(baseline, candidate, rules)
       [] rule = "critical" -> rules.critical /\ Regressions(baseline, candidate) # {}}

\* create_workflow_experiment: it reads nothing that changes
Contest(baseline, candidate, rules, inTime) ==
  /\ Len(contests) < MaxExperiments
  /\ contests' = Append(contests,
       [baseline |-> baseline, candidate |-> candidate, rules |-> rules,
        failed |-> FailedRules(baseline, candidate, rules, inTime),
        decision |-> IF Passed(baseline, candidate, rules, inTime) THEN "PROMOTED" ELSE "REJECTED"])
  /\ UNCHANGED <<champions, titled, promotions, promoting, blind>>

-----------------------------------------------------------------------------
(* Promotions *)

\* The faulty PassedContests of a mutant: any experiment of the candidate will do.
AnyContest(w) == {i \in DOMAIN contests : contests[i].candidate = w}

PassedContests(w) == {i \in DOMAIN contests : contests[i].candidate = w /\ contests[i].decision = "PROMOTED"}

ChampionsOf(component) == {row \in champions : row.component = component}

\* the latest passed experiment and the champion are read; without one it is refused
BeginPromotion(s, w) ==
  /\ ~promoting[s].active
  /\ Len(promotions) + Cardinality({o \in Promoters : promoting[o].active}) < MaxPromotions
  /\ \E latest \in PassedContests(w) :
       /\ \A i \in PassedContests(w) : i <= latest
       /\ promoting' = [promoting EXCEPT ![s] =
            [active |-> TRUE, version |-> w, seen |-> ChampionsOf(Component[w]),
             contest |-> latest]]
  /\ UNCHANGED <<contests, champions, titled, promotions, blind>>

NewChampion(p) == [component |-> Component[p.version], version |-> p.version, contest |-> p.contest]

\* the columns in which the promotion differs from the row it read
Updated(p, old, row) ==
  [component |-> row.component,
   version   |-> IF old.version # p.version THEN p.version ELSE row.version,
   contest   |-> IF old.contest # p.contest THEN p.contest ELSE row.contest]

\* components are unique among the champions: the second of two first promotions is lost
CommitPromotion(s) ==
  LET p == promoting[s]
      now == ChampionsOf(Component[p.version])
  IN  /\ p.active
      /\ promoting' = [promoting EXCEPT ![s] = NoPromotion]
      /\ IF p.seen = {} /\ now # {} THEN UNCHANGED <<champions, titled, promotions, blind>>
         ELSE /\ champions' = (champions \ now) \cup
                   (IF now = {} THEN {NewChampion(p)}
                    ELSE {Updated(p, old, row) : old \in p.seen, row \in now})
              /\ titled' = titled \cup {p.version}
              /\ promotions' = Append(promotions, [version |-> p.version, contest |-> p.contest])
              /\ blind' = (blind \/ now # p.seen)
      /\ UNCHANGED contests

PromotionNext ==
  \/ \E b, c \in Workflows, rules \in PromotionRules, inTime \in BOOLEAN :
       Contest(b, c, rules, inTime)
  \/ \E s \in Promoters : CommitPromotion(s) \/ \E w \in Workflows : BeginPromotion(s, w)

-----------------------------------------------------------------------------
\* the experiment was won
Won(i) == contests[i].decision = "PROMOTED"

\* a version that won an experiment, and an experiment won by a version of the component
Earned(row) ==
  /\ \E i \in DOMAIN contests : Won(i) /\ contests[i].candidate = row.version
  /\ row.contest \in DOMAIN contests /\ Won(row.contest)
  /\ Component[row.version] = row.component
  /\ Component[contests[row.contest].candidate] = row.component
  /\ {row.version, contests[row.contest].candidate} \subseteq titled

\* the row is as the last promotion of its component made it
IsLastPromotion(row) ==
  \E i \in DOMAIN promotions :
    /\ promotions[i] = [version |-> row.version, contest |-> row.contest]
    /\ \A j \in DOMAIN promotions : Component[promotions[j].version] = row.component => j <= i

\* the experiments judged as their rules say
ContestsAreJudged ==
  \A i \in DOMAIN contests :
    /\ Won(i) <=> contests[i].failed = {}
    /\ Won(i) /\ contests[i].rules.critical => \A task \in CriticalTasks :
         Passes(contests[i].baseline, task) => Passes(contests[i].candidate, task)

(* A champion has earned its title, however promotions of its component overlap: it is the
   candidate of a passed experiment, and the experiment its row names is a passed one of a
   version of the component; only promotions that overlapped may leave the row of one with
   the experiment of another, and otherwise the row is that of the last promotion.  The
   decision record of an experiment reports a failed rule exactly when it was rejected, and
   what passed under the default rules loses no critical task.  (evals/service.py.) *)
PromotionIsEarned ==
  /\ \A row \in champions :
       /\ Earned(row)
       /\ \A other \in champions : other.component = row.component => other = row
       /\ ~blind => IsLastPromotion(row) /\ contests[row.contest].candidate = row.version
  /\ \A w \in titled : \E row \in champions : row.component = Component[w]
  /\ ContestsAreJudged
=============================================================================
