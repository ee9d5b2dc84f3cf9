---------------------------- MODULE ResearchProofs ----------------------------
(***************************************************************************)
(* The research desk, however many sessions it serves at a time.           *)
(*                                                                         *)
(* Promotions are earned: the inductive invariant adds what a session      *)
(* holds between its read and its commit, that the experiment it has read  *)
(* stays won and that the champion it has read was earned and has been     *)
(* replaced at most.                                                       *)
(*                                                                         *)
(* Evidence is whole: what is committed is exactly what the committed      *)
(* studies account for, what a session holds is what it has seen of that,  *)
(* and one of the sessions that attach to a study has room for its         *)
(* document in the quota that the others may exceed.                       *)
(*                                                                         *)
(* The test split stays locked: every split and window answered keeps its  *)
(* dates in order, with its test days last.                                *)
(*                                                                         *)
(* Champions are final: who was eligible stays so, and the next champion   *)
(* is the last one or better than it.                                      *)
(*                                                                         *)
(* Evolution keeps its best: each generation is bred from the one before   *)
(* and starts with the best of it.                                         *)
(***************************************************************************)
EXTENDS ResearchProperties, SequenceTheorems, FiniteSetTheorems,
        WellFoundedInduction, TLAPS

-----------------------------------------------------------------------------
(* The inductive invariant *)

Components == {Component[w] : w \in Workflows}

Row == [component : Components, version : Workflows, contest : Nat]

Experiment ==
  [baseline : Workflows, candidate : Workflows, rules : PromotionRules,
   failed : SUBSET {"success", "latency", "cost", "critical"}, decision : {"PROMOTED", "REJECTED"}]

Promoting ==
  [active : {TRUE}, version : Workflows, seen : SUBSET Row, contest : Nat]

PromotionTypes ==
  /\ contests \in Seq(Experiment)
  /\ champions \in SUBSET Row
  /\ titled \in SUBSET Workflows
  /\ promotions \in Seq([version : Workflows, contest : Nat])
  /\ promoting \in [Promoters -> Promoting \cup {NoPromotion}]
  /\ blind \in BOOLEAN

\* what a session has read for its promotion of version p
IsGrounded(p) ==
  /\ p.contest \in PassedContests(p.version)
  /\ \A row \in p.seen : Earned(row) /\ row.component = Component[p.version]
  /\ \A row, other \in p.seen : other = row
  /\ p.seen # {} => \E row \in champions : row.component = Component[p.version]

PromotionInv ==
  /\ PromotionTypes
  /\ PromotionIsEarned
  /\ \A s \in Promoters : promoting[s].active => IsGrounded(promoting[s])

LEMMA PromotionInitInv == PromotionInit => PromotionInv
<1> SUFFICES ASSUME PromotionInit
             PROVE  PromotionInv
  OBVIOUS
<1>1. PromotionTypes
  <2>1. << >> \in Seq(Experiment) /\ << >> \in Seq([version : Workflows, contest : Nat])
    OBVIOUS
  <2>2. [s \in Promoters |-> NoPromotion] \in [Promoters -> Promoting \cup {NoPromotion}]
    OBVIOUS
  <2> QED
    BY <2>1, <2>2 DEF PromotionInit, PromotionTypes
<1>2. PromotionIsEarned
  BY DEF PromotionInit, PromotionIsEarned, ContestsAreJudged
<1>3. ASSUME NEW s \in Promoters  PROVE ~promoting[s].active
  BY DEF PromotionInit, NoPromotion
<1> QED
  BY <1>1, <1>2, <1>3 DEF PromotionInv

-----------------------------------------------------------------------------
(* Workflow experiments *)

\* A benchmark has finitely many tasks, so the gain of a candidate is a number.

LEMMA GainIsInteger ==
  ASSUME NEW b \in Workflows, NEW c \in Workflows
  PROVE  Gain(b, c) \in Int
<1>1. IsFiniteSet(BenchmarkTasks)
  <2> DEFINE T1 == {"momentum_strategy", "mean_reversion_strategy"}
             T2 == {"impossible_strategy_rejection", "lookahead_bias"}
             T3 == {"overfitting_detection", "failed_experiment_critique"}
             T4 == {"memory_retrieval_relevance", "next_experiment_selection"}
  <2>1. ASSUME NEW x, NEW y  PROVE IsFiniteSet({x, y})
    <3>1. IsFiniteSet({x}) /\ IsFiniteSet({y})
      BY FS_Singleton
    <3>2. {x, y} = {x} \cup {y}
      OBVIOUS
    <3> QED
      BY <3>1, <3>2, FS_Union
  <2>2. IsFiniteSet(T1) /\ IsFiniteSet(T2) /\ IsFiniteSet(T3) /\ IsFiniteSet(T4)
    BY <2>1
  <2>3. BenchmarkTasks = T1 \cup (T2 \cup (T3 \cup T4))
    BY DEF BenchmarkTasks, ScoredFacts
  <2> HIDE DEF T1, T2, T3, T4
  <2>4. IsFiniteSet(T3 \cup T4)
    BY <2>2, FS_Union
  <2>5. IsFiniteSet(T2 \cup (T3 \cup T4))
    BY <2>2, <2>4, FS_Union
  <2> QED
    BY <2>2, <2>3, <2>5, FS_Union
<1>2. ASSUME NEW w \in Workflows  PROVE Aggregate(w).success \in Nat
  <2>1. Successes(w) \subseteq BenchmarkTasks
    BY DEF Successes
  <2>2. Cardinality(Successes(w)) \in Nat
    BY <1>1, <2>1, FS_Subset, FS_CardinalityType
  <2> QED
    BY <2>2 DEF Aggregate
<1> QED
  BY <1>2 DEF Gain

\* The decision and the rules recorded as failed judge the comparison alike.

LEMMA JudgedAlike ==
  ASSUME NEW b \in Workflows, NEW c \in Workflows, NEW rules \in PromotionRules,
         NEW inTime \in BOOLEAN
  PROVE  /\ Passed(b, c, rules, inTime) <=> FailedRules(b, c, rules, inTime) = {}
         /\ Passed(b, c, rules, inTime) /\ rules.critical =>
              \A task \in CriticalTasks : Passes(b, task) => Passes(c, task)
<1>1. /\ Gain(b, c) \in Int /\ rules.delta \in Int
  BY GainIsInteger, PromotionAssumption DEF PromotionRule
<1>2. /\ "success" \in FailedRules(b, c, rules, inTime) <=> ~(Gain(b, c) >= rules.delta)
      /\ "latency" \in FailedRules(b, c, rules, inTime) <=> ~inTime
      /\ "cost" \in FailedRules(b, c, rules, inTime) <=> CostExceeded(b, c, rules)
      /\ "critical" \in FailedRules(b, c, rules, inTime) <=>
           rules.critical /\ Regressions(b, c) # {}
  BY <1>1 DEF FailedRules
<1>3. FailedRules(b, c, rules, inTime) \subseteq {"success", "latency", "cost", "critical"}
  BY DEF FailedRules
<1>4. Passed(b, c, rules, inTime) <=> FailedRules(b, c, rules, inTime) = {}
  BY <1>2, <1>3 DEF Passed
<1>5. ASSUME Regressions(b, c) = {}, NEW task \in CriticalTasks, Passes(b, task)
      PROVE  Passes(c, task)
  <2>1. task \in BenchmarkTasks
    BY DEF CriticalTasks, BenchmarkTasks, ScoredFacts
  <2>2. task \in Aggregate(b).critical
    BY <1>5, <2>1 DEF Aggregate, Successes
  <2>3. task \in Aggregate(c).critical
    BY <1>5, <2>2 DEF Regressions
  <2> QED
    BY <2>3 DEF Aggregate, Successes
<1> QED
  BY <1>4, <1>5 DEF Passed

\* What was won stays won while experiments are only added.

LEMMA WonStays ==
  ASSUME PromotionTypes, NEW x, contests' = Append(contests, x), titled \subseteq titled'
  PROVE  /\ \A i \in DOMAIN contests : i \in DOMAIN contests' /\ contests'[i] = contests[i]
         /\ \A row : Earned(row) => Earned(row)'
         /\ \A w : PassedContests(w) \subseteq PassedContests(w)'
<1>1. \A i \in DOMAIN contests : i \in DOMAIN contests' /\ contests'[i] = contests[i]
  BY DEF PromotionTypes
<1> QED
  BY <1>1 DEF Earned, Won, PassedContests

LEMMA ContestKeeps ==
  ASSUME PromotionInv, NEW b \in Workflows, NEW c \in Workflows, NEW rules \in PromotionRules,
         NEW inTime \in BOOLEAN, Contest(b, c, rules, inTime)
  PROVE  PromotionInv'
<1> DEFINE x == [baseline |-> b, candidate |-> c, rules |-> rules,
                 failed |-> FailedRules(b, c, rules, inTime),
                 decision |-> IF Passed(b, c, rules, inTime) THEN "PROMOTED" ELSE "REJECTED"]
<1>1. contests' = Append(contests, x) /\ UNCHANGED <<champions, titled, promotions, promoting, blind>>
  BY DEF Contest
<1>2. x \in Experiment
  BY DEF Experiment, FailedRules
<1>3. /\ x.decision = "PROMOTED" <=> x.failed = {}
      /\ x.decision = "PROMOTED" /\ x.rules.critical =>
           \A task \in CriticalTasks : Passes(x.baseline, task) => Passes(x.candidate, task)
  BY JudgedAlike
<1> HIDE DEF x
<1>4. PromotionTypes'
  BY <1>1, <1>2 DEF PromotionInv, PromotionTypes
<1>5. /\ \A i \in DOMAIN contests : i \in DOMAIN contests' /\ contests'[i] = contests[i]
      /\ \A row : Earned(row) => Earned(row)'
      /\ \A w : PassedContests(w) \subseteq PassedContests(w)'
  BY <1>1, WonStays DEF PromotionInv
<1>6. ContestsAreJudged'
  <2> SUFFICES ASSUME NEW i \in DOMAIN contests'
               PROVE  /\ Won(i)' <=> contests'[i].failed = {}
                      /\ Won(i)' /\ contests'[i].rules.critical => \A task \in CriticalTasks :
                           Passes(contests'[i].baseline, task) => Passes(contests'[i].candidate, task)
    BY DEF ContestsAreJudged, Passes, AsExpected, CriticalTasks, ScoredFacts
  <2>1. CASE i \in DOMAIN contests
    BY <1>5, <2>1 DEF PromotionInv, PromotionIsEarned, ContestsAreJudged, Won
  <2>2. CASE i \notin DOMAIN contests
    <3>1. contests'[i] = x
      BY <1>1, <2>2 DEF PromotionInv, PromotionTypes
    <3> QED
      BY <1>3, <3>1 DEF Won
  <2> QED
    BY <2>1, <2>2
<1>7. PromotionIsEarned'
  <2>1. ASSUME NEW row \in champions'
        PROVE  /\ Earned(row)'
               /\ \A other \in champions' : other.component = row.component => other = row
               /\ ~blind' => IsLastPromotion(row)' /\ contests'[row.contest].candidate = row.version
    <3>1. row \in champions /\ row.contest \in DOMAIN contests
      BY <1>1, <2>1 DEF PromotionInv, PromotionIsEarned, Earned
    <3> QED
      BY <1>1, <1>5, <3>1 DEF PromotionInv, PromotionIsEarned, IsLastPromotion
  <2>2. \A w \in titled' : \E row \in champions' : row.component = Component[w]
    BY <1>1 DEF PromotionInv, PromotionIsEarned
  <2> QED
    BY <1>6, <2>1, <2>2 DEF PromotionIsEarned
<1>8. ASSUME NEW s \in Promoters, promoting'[s].active  PROVE IsGrounded(promoting[s])'
  BY <1>1, <1>5, <1>8 DEF PromotionInv, IsGrounded
<1> QED
  BY <1>4, <1>7, <1>8 DEF PromotionInv

-----------------------------------------------------------------------------
(* Promotions *)

LEMMA BeginKeeps ==
  ASSUME PromotionInv, NEW s \in Promoters, NEW w \in Workflows, BeginPromotion(s, w)
  PROVE  PromotionInv'
<1>1. PICK latest \in PassedContests(w) :
        promoting' = [promoting EXCEPT ![s] =
          [active |-> TRUE, version |-> w, seen |-> ChampionsOf(Component[w]), contest |-> latest]]
  BY DEF BeginPromotion
<1> DEFINE p == [active |-> TRUE, version |-> w, seen |-> ChampionsOf(Component[w]),
                 contest |-> latest]
<1>2. UNCHANGED <<contests, champions, titled, promotions, blind>>
  BY DEF BeginPromotion
<1>3. p \in Promoting
  BY DEF PromotionInv, PromotionTypes, Promoting, PassedContests, ChampionsOf
<1>4. IsGrounded(p)
  BY DEF PromotionInv, PromotionIsEarned, IsGrounded, ChampionsOf
<1> HIDE DEF p
<1>5. PromotionTypes'
  BY <1>1, <1>2, <1>3 DEF PromotionInv, PromotionTypes, p
<1>6. PromotionIsEarned'
  BY <1>2 DEF PromotionInv, PromotionIsEarned, ContestsAreJudged, Earned, IsLastPromotion, Won,
     Passes, AsExpected
<1>7. /\ \A row : Earned(row) => Earned(row)'
      /\ \A v : PassedContests(v) = PassedContests(v)'
  BY <1>2 DEF PassedContests, Earned, Won
<1>8. ASSUME NEW o \in Promoters, promoting'[o].active  PROVE IsGrounded(promoting[o])'
  <2>1. promoting'[o] = IF o = s THEN p ELSE promoting[o]
    BY <1>1 DEF PromotionInv, PromotionTypes, p
  <2>2. IsGrounded(promoting'[o])
    BY <1>4, <1>8, <2>1 DEF PromotionInv
  <2> QED
    BY <1>2, <1>7, <2>2 DEF IsGrounded
<1> QED
  BY <1>5, <1>6, <1>8 DEF PromotionInv

\* A promotion that commits makes its version the champion, with the experiment it has read

\* or, when the champion it read is no longer the one, with the other's.
LEMMA CommittedRow ==
  ASSUME PromotionInv, NEW p \in Promoting, IsGrounded(p), NEW old \in p.seen,
         NEW row \in ChampionsOf(Component[p.version])
  PROVE  /\ Updated(p, old, row) \in Row
         /\ Updated(p, old, row).component = Component[p.version]
         /\ Updated(p, old, row).version \in {p.version, row.version}
         /\ Updated(p, old, row).contest \in {p.contest, row.contest}
         /\ old = row => Updated(p, old, row) = NewChampion(p)
<1>1. row \in Row /\ row.component = Component[p.version]
  BY DEF PromotionInv, PromotionTypes, ChampionsOf
<1>2. p.contest \in Nat /\ p.version \in Workflows
  BY DEF Promoting
<1> QED
  BY <1>1, <1>2 DEF Updated, NewChampion, Row

LEMMA CommitKeeps ==
  ASSUME PromotionInv, NEW s \in Promoters, CommitPromotion(s)
  PROVE  PromotionInv'
<1> DEFINE p   == promoting[s]
           now == ChampionsOf(Component[p.version])
           written == IF now = {} THEN {NewChampion(p)}
                   ELSE {Updated(p, old, row) : old \in p.seen, row \in now}
<1>1. /\ p.active /\ p \in Promoting /\ IsGrounded(p)
      /\ promoting' = [promoting EXCEPT ![s] = NoPromotion] /\ UNCHANGED contests
  BY DEF CommitPromotion, PromotionInv, PromotionTypes, NoPromotion
<1>2. p.version \in Workflows /\ p.contest \in Nat
  BY <1>1 DEF Promoting
<1>3. \/ UNCHANGED <<champions, titled, promotions, blind>>
      \/ /\ ~(p.seen = {} /\ now # {})
         /\ champions' = (champions \ now) \cup written
         /\ titled' = titled \cup {p.version}
         /\ promotions' = Append(promotions, [version |-> p.version, contest |-> p.contest])
         /\ blind' = (blind \/ now # p.seen)
  BY DEF CommitPromotion
<1>4. ASSUME NEW o \in Promoters  PROVE promoting'[o] = IF o = s THEN NoPromotion ELSE promoting[o]
  BY <1>1 DEF PromotionInv, PromotionTypes
<1>5. promoting' \in [Promoters -> Promoting \cup {NoPromotion}]
  BY <1>1 DEF PromotionInv, PromotionTypes
<1>6. ContestsAreJudged'
  BY <1>1 DEF PromotionInv, PromotionIsEarned, ContestsAreJudged, Won, Passes, AsExpected
<1>7. \A row : Earned(row) /\ titled \subseteq titled' => Earned(row)'
  BY <1>1 DEF Earned, Won
<1>8. \A w : PassedContests(w)' = PassedContests(w)
  BY <1>1 DEF PassedContests
<1>9. CASE UNCHANGED <<champions, titled, promotions, blind>>
  <2>1. PromotionTypes'
    BY <1>1, <1>5, <1>9 DEF PromotionInv, PromotionTypes
  <2>2. PromotionIsEarned'
    BY <1>1, <1>6, <1>7, <1>9 DEF PromotionInv, PromotionIsEarned, IsLastPromotion
  <2>3. ASSUME NEW o \in Promoters, promoting'[o].active  PROVE IsGrounded(promoting[o])'
    <3>1. promoting'[o] = promoting[o] /\ IsGrounded(promoting[o])
      BY <1>4, <2>3 DEF NoPromotion, PromotionInv
    <3> QED
      BY <1>7, <1>8, <1>9, <3>1 DEF IsGrounded
  <2> QED
    BY <2>1, <2>2, <2>3 DEF PromotionInv
<1>10. CASE /\ ~(p.seen = {} /\ now # {})
            /\ champions' = (champions \ now) \cup written
            /\ titled' = titled \cup {p.version}
            /\ promotions' = Append(promotions, [version |-> p.version, contest |-> p.contest])
            /\ blind' = (blind \/ now # p.seen)
  <2>1. /\ \A row, other \in now : other = row
        /\ \A row \in now : row \in champions /\ Earned(row) /\ row.component = Component[p.version]
    BY DEF PromotionInv, PromotionIsEarned, ChampionsOf
  <2>2. /\ \A row, other \in p.seen : other = row
        /\ p.contest \in DOMAIN contests /\ Won(p.contest)
        /\ contests[p.contest].candidate = p.version
    BY <1>1 DEF IsGrounded, PassedContests, Won
  <2>3. PICK r \in Row :
          /\ written = {r} /\ r.component = Component[p.version]
          /\ r.version = p.version \/ \E row \in now : r.version = row.version
          /\ r.contest = p.contest \/ \E row \in now : r.contest = row.contest
          /\ now = p.seen => r = NewChampion(p)
    <3>1. CASE now = {}
      <4>1. NewChampion(p) \in Row
        BY <1>2 DEF NewChampion, Row, Components
      <4> QED
        BY <3>1, <4>1 DEF NewChampion
    <3>2. CASE now # {}
      <4>1. PICK old \in p.seen, row \in now : TRUE
        BY <1>10, <3>2
      <4>2. p.seen = {old} /\ now = {row}
        BY <2>1, <2>2, <4>1
      <4>3. written = {Updated(p, old, row)}
        BY <3>2, <4>2
      <4> HIDE DEF written, now, p
      <4>4. now = p.seen => old = row
        BY <4>2
      <4> QED
        BY <1>1, <4>1, <4>2, <4>3, <4>4, CommittedRow DEF now
    <3> QED
      BY <3>1, <3>2
  <2> HIDE DEF written
  <2>4. Earned(r)'
    <3>1. \E i \in DOMAIN contests : Won(i) /\ contests[i].candidate = r.version
      BY <2>1, <2>2, <2>3 DEF Earned
    <3>2. /\ r.contest \in DOMAIN contests /\ Won(r.contest)
          /\ Component[contests[r.contest].candidate] = r.component
          /\ contests[r.contest].candidate \in titled'
      BY <1>10, <2>1, <2>2, <2>3 DEF Earned
    <3>3. Component[r.version] = r.component /\ r.version \in titled'
      BY <1>10, <2>1, <2>3 DEF Earned
    <3> QED
      BY <1>1, <3>1, <3>2, <3>3 DEF Earned, Won
  <2>5. champions' = (champions \ now) \cup {r}
    BY <1>10, <2>3
  <2>6. ASSUME NEW row \in champions \ now  PROVE row \in champions /\ row.component # r.component
    BY <2>3 DEF ChampionsOf
  <2>7. PromotionTypes'
    <3>1. titled' \in SUBSET Workflows /\ champions' \in SUBSET Row
      BY <1>2, <1>10, <2>5 DEF PromotionInv, PromotionTypes
    <3>2. promotions' \in Seq([version : Workflows, contest : Nat]) /\ blind' \in BOOLEAN
      BY <1>2, <1>10 DEF PromotionInv, PromotionTypes
    <3> QED
      BY <1>1, <1>5, <3>1, <3>2 DEF PromotionInv, PromotionTypes
  <2>8. ASSUME NEW row \in champions'
        PROVE  /\ Earned(row)'
               /\ \A other \in champions' : other.component = row.component => other = row
    BY <1>7, <1>10, <2>4, <2>5, <2>6 DEF PromotionInv, PromotionIsEarned
  <2>9. ASSUME NEW row \in champions', ~blind'
        PROVE  IsLastPromotion(row)' /\ contests'[row.contest].candidate = row.version
    <3> DEFINE last == Len(promotions) + 1
    <3>1. /\ last \in DOMAIN promotions' /\ \A j \in DOMAIN promotions' : j <= last
          /\ promotions'[last] = [version |-> p.version, contest |-> p.contest]
          /\ \A j \in DOMAIN promotions : j \in DOMAIN promotions' /\ promotions'[j] = promotions[j]
          /\ \A j \in DOMAIN promotions' : j = last \/ j \in DOMAIN promotions
      BY <1>2, <1>10 DEF PromotionInv, PromotionTypes
    <3>2. ~blind /\ now = p.seen
      BY <1>10, <2>9
    <3> HIDE DEF last
    <3>3. CASE row = r
      <4>1. row.version = p.version /\ row.contest = p.contest
        BY <2>3, <3>2, <3>3 DEF NewChampion
      <4> QED
        BY <1>1, <2>2, <3>1, <4>1 DEF IsLastPromotion
    <3>4. CASE row # r
      <4>1. row \in champions /\ row.component # Component[p.version]
        BY <2>3, <2>5, <2>6, <3>4
      <4>2. IsLastPromotion(row) /\ contests[row.contest].candidate = row.version
        BY <3>2, <4>1 DEF PromotionInv, PromotionIsEarned
      <4>3. PICK i \in DOMAIN promotions :
              /\ promotions[i] = [version |-> row.version, contest |-> row.contest]
              /\ \A j \in DOMAIN promotions :
                   Component[promotions[j].version] = row.component => j <= i
        BY <4>2 DEF IsLastPromotion
      <4>4. \A j \in DOMAIN promotions' : Component[promotions'[j].version] = row.component => j <= i
        BY <3>1, <4>1, <4>3
      <4> QED
        BY <1>1, <3>1, <4>2, <4>3, <4>4 DEF IsLastPromotion
    <3> QED
      BY <3>3, <3>4
  <2>10. ASSUME NEW w \in titled'  PROVE \E row \in champions' : row.component = Component[w]
    <3>1. CASE Component[w] = Component[p.version]
      BY <2>3, <2>5, <3>1
    <3>2. CASE Component[w] # Component[p.version]
      <4>1. PICK row \in champions : row.component = Component[w]
        BY <1>10, <3>2 DEF PromotionInv, PromotionIsEarned
      <4> QED
        BY <2>5, <3>2, <4>1 DEF ChampionsOf
    <3> QED
      BY <3>1, <3>2
  <2>11. PromotionIsEarned'
    BY <1>6, <2>8, <2>9, <2>10 DEF PromotionIsEarned
  <2>12. ASSUME NEW o \in Promoters, promoting'[o].active  PROVE IsGrounded(promoting[o])'
    <3>1. promoting'[o] = promoting[o] /\ IsGrounded(promoting[o])
      BY <1>4, <2>12 DEF NoPromotion, PromotionInv
    <3>2. ASSUME NEW q, q.seen # {}, IsGrounded(q)
          PROVE  \E row \in champions' : row.component = Component[q.version]
      <4>1. CASE Component[q.version] = Component[p.version]
        BY <2>3, <2>5, <4>1
      <4>2. CASE Component[q.version] # Component[p.version]
        BY <2>5, <3>2, <4>2 DEF IsGrounded, ChampionsOf
      <4> QED
        BY <4>1, <4>2
    <3> QED
      BY <1>7, <1>8, <1>10, <3>1, <3>2 DEF IsGrounded
  <2> QED
    BY <2>7, <2>11, <2>12 DEF PromotionInv
<1> QED
  BY <1>3, <1>9, <1>10

LEMMA PromotionStutters ==
  ASSUME PromotionInv, UNCHANGED promotionVars
  PROVE  PromotionInv'
BY DEF promotionVars, PromotionInv, PromotionTypes, PromotionIsEarned, IsGrounded, PassedContests,
   ContestsAreJudged, Earned, IsLastPromotion, Won, Passes, AsExpected

-----------------------------------------------------------------------------
(* The theorem *)

\* A champion is the candidate of a passed experiment and was made champion by the last

\* promotion of its component unless promotions overlapped, for any workflow versions, rules
\* and sessions (promote_candidate and create_workflow_experiment of evals/service.py).
THEOREM PromotionsAreEarned == Spec => []PromotionIsEarned
<1>1. Init => PromotionInv
  BY PromotionInitInv DEF Init
<1>2. PromotionInv /\ [Next]_deskVars => PromotionInv'
  <2>1. [Next]_deskVars => PromotionNext \/ UNCHANGED promotionVars
    <3>1. CASE UNCHANGED deskVars
      BY <3>1 DEF deskVars
    <3>2. CASE Next
      BY <3>2 DEF Next, AskSplits, AskReleases, AskSignals, AskPortfolio, AskRegimes, AskSearch,
         AskFactor, AskWeights, AskRouting, AskStress, Answered, Evolve, Simulation, Promote,
         Research
    <3> QED
      BY <3>1, <3>2
  <2> QED
    BY <2>1, ContestKeeps, BeginKeeps, CommitKeeps, PromotionStutters DEF PromotionNext
<1>3. PromotionInv => PromotionIsEarned
  BY DEF PromotionInv
<1> QED
  BY <1>1, <1>2, <1>3, PTL DEF Spec

-----------------------------------------------------------------------------
(* The bytes of some documents: a sum is the number of its units, counted   *)
(* one by one, so no order of summation matters.                            *)

Largest == CHOOSE d \in Documents : \A e \in Documents : e.size <= d.size

Units(documents) == {p \in documents \X (1 .. Largest.size) : p[2] <= p[1].size}

LEMMA LargestFacts ==
  /\ Largest \in Documents /\ Largest.size \in Nat
  /\ \A d \in Documents : d.size \in Nat /\ d.size <= Largest.size
<1>1. PICK m \in Documents : \A d \in Documents : d.size \in 0..m.size
  BY EvidenceAssumption
<1>2. m.size \in 0 .. m.size
  BY <1>1
<1>3. m.size \in Nat /\ \A d \in Documents : d.size \in Nat /\ d.size <= m.size
  BY <1>1, <1>2
<1> QED
  BY <1>1, <1>3 DEF Largest

\* The least of some numbers.

LEMMA LeastNumber ==
  ASSUME NEW T \in SUBSET Nat, T # {}
  PROVE  \E n \in T : \A m \in T : n <= m
<1>1. PICK n \in T : \A m \in T : ~(<<m, n>> \in OpToRel(<, Nat))
  BY NatLessThanWellFounded, WFMin
<1>2. \A m \in T : ~(m < n)
  BY <1>1 DEF OpToRel
<1> QED
  BY <1>2

\* what MapThenSumSet computes: a function that takes the documents out one at a time
IsSum(g, documents) ==
  g = [s \in SUBSET documents |->
         IF s = {} THEN 0
         ELSE LET x == CHOOSE x \in s : TRUE IN x.size + g[s \ {x}]]

LEMMA BytesIsSum ==
  ASSUME NEW S
  PROVE  BytesOf(S) = (CHOOSE g : IsSum(g, S))[S]
BY DEF BytesOf, MapThenSumSet, MapThenFoldSet, IsSum

LEMMA UnitsFinite ==
  ASSUME NEW S \in SUBSET Documents, IsFiniteSet(S)
  PROVE  IsFiniteSet(Units(S)) /\ Cardinality(Units(S)) \in Nat
<1>1. IsFiniteSet(1 .. Largest.size)
  BY LargestFacts, FS_Interval
<1>2. IsFiniteSet(S \X (1 .. Largest.size))
  BY <1>1, FS_Product
<1>3. Units(S) \subseteq S \X (1 .. Largest.size)
  BY DEF Units
<1> QED
  BY <1>2, <1>3, FS_Subset, FS_CardinalityType

\* One more document adds its size.

LEMMA UnitsAdd ==
  ASSUME NEW S \in SUBSET Documents, IsFiniteSet(S), NEW d \in Documents, d \notin S
  PROVE  Cardinality(Units(S \cup {d})) = Cardinality(Units(S)) + d.size
<1> DEFINE one == {d} \X (1 .. d.size)
<1>1. d.size \in Nat /\ d.size <= Largest.size /\ Largest.size \in Nat
  BY LargestFacts
<1>2. IsFiniteSet(one) /\ Cardinality(one) = d.size
  <2>1. IsFiniteSet(1 .. d.size) /\ Cardinality(1 .. d.size) = d.size
    <3> DEFINE n == d.size
    <3>1. n \in Nat
      BY <1>1
    <3> HIDE DEF n
    <3>2. IsFiniteSet(1 .. n) /\ Cardinality(1 .. n) = n
      BY <3>1, FS_Interval
    <3> QED
      BY <3>2 DEF n
  <2>2. IsFiniteSet({d}) /\ Cardinality({d}) = 1
    BY FS_Singleton
  <2>3. IsFiniteSet(one) /\ Cardinality(one) = Cardinality({d}) * Cardinality(1 .. d.size)
    BY <2>1, <2>2, FS_Product
  <2> QED
    BY <1>1, <2>1, <2>2, <2>3
<1>3. Units(S \cup {d}) = Units(S) \cup one
  BY <1>1 DEF Units
<1>4. Units(S) \cap one = {}
  BY DEF Units
<1> HIDE DEF one
<1>5. Cardinality(Units(S) \cap one) = 0
  BY <1>4, FS_EmptySet
<1>6. Cardinality(Units(S) \cup one)
        = Cardinality(Units(S)) + Cardinality(one) - Cardinality(Units(S) \cap one)
  BY <1>2, UnitsFinite, FS_Union
<1>7. Cardinality(Units(S)) \in Nat
  BY UnitsFinite
<1>8. Cardinality(Units(S \cup {d})) = Cardinality(Units(S)) + Cardinality(one)
  <2> DEFINE a == Cardinality(Units(S))
             b == Cardinality(one)
  <2>1. a \in Nat /\ b \in Nat
    BY <1>1, <1>2, <1>7
  <2>2. Cardinality(Units(S \cup {d})) = a + b - 0
    BY <1>3, <1>5, <1>6
  <2> HIDE DEF a, b
  <2>3. a + b - 0 = a + b
    BY <2>1
  <2> QED
    BY <2>2, <2>3 DEF a, b
<1> QED
  BY <1>2, <1>8

LEMMA UnitsSum ==
  ASSUME NEW S \in SUBSET Documents, IsFiniteSet(S)
  PROVE  IsSum([s \in SUBSET S |-> Cardinality(Units(s))], S)
<1> DEFINE count == [s \in SUBSET S |-> Cardinality(Units(s))]
<1>1. ASSUME NEW s \in SUBSET S, s # {}, NEW x, x = CHOOSE y \in s : TRUE
      PROVE  count[s] = x.size + count[s \ {x}]
  <2>1. x \in s
    BY <1>1
  <2> DEFINE rest == s \ {x}
  <2>2. /\ rest \in SUBSET S /\ rest \in SUBSET Documents /\ x \in Documents
        /\ x \notin rest /\ rest \cup {x} = s
    BY <2>1
  <2>3. IsFiniteSet(rest)
    BY <2>2, FS_Subset
  <2> HIDE DEF rest
  <2>4. Cardinality(Units(s)) = Cardinality(Units(rest)) + x.size
    BY <2>2, <2>3, UnitsAdd
  <2>5. Cardinality(Units(rest)) \in Nat /\ x.size \in Nat
    BY <2>2, <2>3, UnitsFinite, LargestFacts
  <2>6. count[rest] = Cardinality(Units(rest)) /\ count[s] = Cardinality(Units(s))
    BY <2>2
  <2> HIDE DEF count
  <2>7. count[s] = x.size + count[rest]
    BY <2>4, <2>5, <2>6
  <2> QED
    BY <2>7 DEF rest
<1>2. count[{}] = 0
  <2>1. Units({}) = {}
    BY DEF Units
  <2> QED
    BY <2>1, FS_EmptySet
<1>3. ASSUME NEW s \in SUBSET S
      PROVE  count[s] = IF s = {} THEN 0
                        ELSE LET x == CHOOSE x \in s : TRUE IN x.size + count[s \ {x}]
  <2> HIDE DEF count
  <2> QED
    BY <1>1, <1>2
<1>4. count = [s \in SUBSET S |-> count[s]]
  OBVIOUS
<1> HIDE DEF count
<1>5. IsSum(count, S)
  BY <1>3, <1>4, Zenon DEF IsSum
<1> QED
  BY <1>5 DEF count

\* Whatever is summed as MapThenSumSet does is that number.

LEMMA SumsAgree ==
  ASSUME NEW S, IsFiniteSet(S), NEW f, NEW g, IsSum(f, S), IsSum(g, S)
  PROVE  f[S] = g[S]
<1> DEFINE wrong == {Cardinality(s) : s \in {r \in SUBSET S : f[r] # g[r]}}
<1> SUFFICES ASSUME f[S] # g[S]
             PROVE  FALSE
  OBVIOUS
<1>1. \A s \in SUBSET S : IsFiniteSet(s) /\ Cardinality(s) \in Nat
  BY FS_Subset, FS_CardinalityType
<1>2. wrong \in SUBSET Nat /\ wrong # {}
  BY <1>1
<1>3. PICK n \in wrong : \A m \in wrong : n <= m
  BY ONLY <1>2, LeastNumber
<1>4. PICK s \in SUBSET S : f[s] # g[s] /\ n = Cardinality(s)
  BY <1>3
<1> DEFINE x == CHOOSE x \in s : TRUE
           rest == s \ {x}
<1>5. /\ f[s] = IF s = {} THEN 0 ELSE x.size + f[rest]
      /\ g[s] = IF s = {} THEN 0 ELSE x.size + g[rest]
  BY <1>4, Zenon DEF IsSum
<1>6. s # {} /\ f[rest] # g[rest]
  <2> HIDE DEF x, rest
  <2> QED
    BY <1>4, <1>5
<1>7. x \in s
  BY <1>6
<1>8. rest \in SUBSET S /\ Cardinality(rest) = Cardinality(s) - 1
  <2> HIDE DEF x
  <2> QED
    BY <1>1, <1>4, <1>7, FS_RemoveElement
<1>9. Cardinality(rest) \in wrong
  BY <1>6, <1>8
<1> HIDE DEF x, rest, wrong
<1> QED
  BY <1>1, <1>3, <1>4, <1>8, <1>9

LEMMA BytesCounted ==
  ASSUME NEW S \in SUBSET Documents, IsFiniteSet(S)
  PROVE  BytesOf(S) = Cardinality(Units(S)) /\ BytesOf(S) \in Nat
<1> DEFINE count == [s \in SUBSET S |-> Cardinality(Units(s))]
           sum == CHOOSE g : IsSum(g, S)
<1>1. IsSum(count, S)
  BY UnitsSum
<1>2. count[S] = Cardinality(Units(S))
  OBVIOUS
<1> HIDE DEF count
<1>3. IsSum(sum, S)
  BY <1>1
<1>4. BytesOf(S) = sum[S]
  BY BytesIsSum
<1> HIDE DEF sum
<1>5. sum[S] = count[S]
  BY ONLY <1>1, <1>3, IsFiniteSet(S), SumsAgree
<1> QED
  BY <1>2, <1>4, <1>5, UnitsFinite

\* One more document adds its size at most, and no documents have no bytes.

LEMMA BytesAdd ==
  ASSUME NEW S \in SUBSET Documents, IsFiniteSet(S), NEW d \in Documents
  PROVE  BytesOf(S \cup {d}) \in Nat /\ BytesOf(S \cup {d}) <= BytesOf(S) + d.size
<1>1. IsFiniteSet(S \cup {d}) /\ S \cup {d} \in SUBSET Documents
  BY FS_AddElement
<1>2. BytesOf(S \cup {d}) = Cardinality(Units(S \cup {d})) /\ BytesOf(S \cup {d}) \in Nat
  BY ONLY <1>1, BytesCounted
<1>3. BytesOf(S) = Cardinality(Units(S)) /\ BytesOf(S) \in Nat
  BY BytesCounted
<1>4. d.size \in Nat
  BY LargestFacts
<1>5. CASE d \in S
  <2>1. S \cup {d} = S
    BY <1>5
  <2> QED
    BY <1>2, <1>3, <1>4, <2>1
<1>6. CASE d \notin S
  BY <1>2, <1>3, <1>4, <1>6, UnitsAdd
<1> QED
  BY <1>5, <1>6

LEMMA NoBytes == BytesOf({}) = 0
<1>1. Units({}) = {} /\ IsFiniteSet({}) /\ Cardinality({}) = 0
  BY FS_EmptySet DEF Units
<1> QED
  BY <1>1, BytesCounted

-----------------------------------------------------------------------------
(* Research and its evidence.  What is committed is exactly what the        *)
(* committed studies account for; what a session holds is what it has seen   *)
(* of that; and each open request keeps room for its document in the quota.  *)

DefaultRows == {"agent", "workflow"}

LessonRow == [study : Nat, symbol : Symbols]

Study == [symbol : Symbols, retrieved : SUBSET LessonRow]

UsageRow == [study : Nat, call : Models]

Attachment == [study : Nat, document : Documents]

LessonsKnown(retrieved, symbol) == \A x \in retrieved : x \in lessons /\ x.symbol = symbol

\* what the committed studies leave
Committed ==
  /\ studies \in Seq(Study)
  /\ defaults \subseteq DefaultRows /\ (studies # << >> => defaults = DefaultRows)
  /\ usage = {u \in UsageRow : u.study \in DOMAIN studies}
  /\ lessons = {Lesson(i, studies[i].symbol) : i \in DOMAIN studies}
  /\ \A i \in DOMAIN studies :
       /\ LessonsKnown(studies[i].retrieved, studies[i].symbol)
       /\ \A x \in studies[i].retrieved : x.study < i
  /\ sources \subseteq Documents
  /\ \A d, e \in sources : d.content = e.content => d = e
  /\ attachments \subseteq Attachment /\ IsFiniteSet(attachments)
  /\ \A a \in attachments : a.study \in DOMAIN studies /\ a.document \in sources

\* the model calls of the nodes before a step
CallsBefore(step) == {Nodes[i] : i \in 1 .. (step - 1)} \cap Models

IsSession(d) ==
  /\ d.kind \in {"research", "listing"}
  /\ d = [kind |-> d.kind, symbol |-> d.symbol, rows |-> d.rows, absent |-> d.absent,
          mine |-> d.mine, retrieved |-> d.retrieved, calls |-> d.calls, step |-> d.step]
  /\ d.rows \in {<<"agent", "workflow">>, <<"agent">>, <<"workflow">>, << >>}
  /\ d.mine \subseteq DefaultRows

\* a row that a session no longer needs is committed or its own, and its calls are those of
\* the nodes it has passed
ResearchHolds(d) ==
  /\ d.symbol \in Symbols
  /\ \A row \in DefaultRows : row \in defaults \cup d.mine \/ \E i \in DOMAIN d.rows : d.rows[i] = row
  /\ d.step \in 0 .. Len(Nodes) + 1 /\ (d.step > 0 => d.rows = << >>)
  /\ d.retrieved \subseteq LessonRow /\ LessonsKnown(d.retrieved, d.symbol)
  /\ d.calls \in Seq(Models) /\ {d.calls[i] : i \in DOMAIN d.calls} = CallsBefore(d.step)

\* what was stored under the content of a document is the document
AttachHolds(d) ==
  /\ d = [kind |-> "attach", study |-> d.study, document |-> d.document, stored |-> d.stored]
  /\ d.study \in DOMAIN studies /\ d.document \in Documents /\ d.stored \subseteq {d.document}

DeskHolds(d) ==
  \/ d = NoRequest
  \/ IsSession(d) /\ (d.kind = "research" => ResearchHolds(d))
  \/ d.kind = "attach" /\ AttachHolds(d)

\* the sessions that are attaching a document to a study
Attaching(i) == {s \in Desks : desks[s].kind = "attach" /\ desks[s].study = i}

\* what the sessions that are not attaching could add
Slack(i) == Cardinality(Desks) - Cardinality(Attaching(i))

\* one of the sessions that are attaching has room for its document
RoomLeft(i) ==
  /\ Cardinality(AttachedTo(i)) + Cardinality(Attaching(i)) <= MaxAttachments + Cardinality(Desks) - 1
  /\ IF Attaching(i) = {}
       THEN BytesOf(AttachedTo(i)) <= MaxBytes + (Cardinality(Desks) - 1) * Largest.size
       ELSE \E s \in Attaching(i) :
              BytesOf(AttachedTo(i)) + desks[s].document.size <= MaxBytes + Slack(i) * Largest.size

EvidenceInv ==
  /\ desks = [s \in Desks |-> desks[s]]
  /\ Committed
  /\ \A s \in Desks : DeskHolds(desks[s])
  /\ \A i \in DOMAIN studies : RoomLeft(i)

LEMMA EvidenceInitInv == EvidenceInit => EvidenceInv
<1> SUFFICES ASSUME EvidenceInit
             PROVE  EvidenceInv
  OBVIOUS
<1>1. /\ defaults = {} /\ studies = << >> /\ usage = {} /\ lessons = {}
      /\ sources = {} /\ attachments = {} /\ desks = [s \in Desks |-> NoRequest]
  BY DEF EvidenceInit
<1>2. DOMAIN studies = {} /\ studies \in Seq(Study) /\ IsFiniteSet(attachments)
  BY <1>1, FS_EmptySet
<1>3. Committed
  BY <1>1, <1>2 DEF Committed
<1>4. \A s \in Desks : DeskHolds(desks[s])
  BY <1>1 DEF DeskHolds
<1> QED
  BY <1>1, <1>2, <1>3, <1>4 DEF EvidenceInv

\* What is committed only grows, and what the other sessions hold is not touched.
Growing == defaults \subseteq defaults' /\ lessons \subseteq lessons' /\ DOMAIN studies \subseteq DOMAIN studies'

Steps(s, d) == s \in Desks /\ desks' = [desks EXCEPT ![s] = d]

LEMMA DeskSteps ==
  ASSUME EvidenceInv, NEW s, NEW d, Steps(s, d)
  PROVE  /\ desks' = [o \in Desks |-> desks'[o]]
         /\ desks'[s] = d
         /\ \A o \in Desks \ {s} : desks'[o] = desks[o]
BY DEF EvidenceInv, Steps

LEMMA OthersHold ==
  ASSUME EvidenceInv, NEW s, NEW d, Steps(s, d), Growing, DeskHolds(desks[s])'
  PROVE  \A o \in Desks : DeskHolds(desks[o])'
<1> SUFFICES ASSUME NEW o \in Desks \ {s}
             PROVE  DeskHolds(desks[o])'
  OBVIOUS
<1>1. desks'[o] = desks[o] /\ DeskHolds(desks[o])
  BY DeskSteps DEF EvidenceInv
<1>2. CASE desks[o] = NoRequest
  BY <1>1, <1>2 DEF DeskHolds
<1>3. CASE IsSession(desks[o]) /\ (desks[o].kind = "research" => ResearchHolds(desks[o]))
  <2>1. IsSession(desks[o])'
    BY <1>1, <1>3 DEF IsSession
  <2>2. desks[o].kind = "research" => ResearchHolds(desks[o])'
    BY <1>1, <1>3 DEF ResearchHolds, LessonsKnown, Growing
  <2> QED
    BY <1>1, <2>1, <2>2 DEF DeskHolds
<1>4. CASE desks[o].kind = "attach" /\ AttachHolds(desks[o])
  BY <1>1, <1>4 DEF DeskHolds, AttachHolds, Growing
<1> QED
  BY <1>1, <1>2, <1>3, <1>4 DEF DeskHolds

\* The studies a session that attaches nothing may add have no attachments yet.

LEMMA RoomStays ==
  ASSUME EvidenceInv, NEW s, NEW d, Steps(s, d),
         desks[s].kind # "attach", d.kind # "attach", attachments' = attachments,
         NEW i \in DOMAIN studies'
  PROVE  RoomLeft(i)'
<1>1. Attaching(i)' = Attaching(i)
  BY DeskSteps DEF Attaching, Steps
<1>2. \A o \in Attaching(i) : desks'[o] = desks[o]
  BY DeskSteps DEF Attaching
<1>3. AttachedTo(i)' = AttachedTo(i) /\ Slack(i)' = Slack(i)
  BY <1>1 DEF AttachedTo, Slack
<1>4. RoomLeft(i)
  <2>1. CASE i \in DOMAIN studies
    BY <2>1 DEF EvidenceInv
  <2>2. CASE i \notin DOMAIN studies
    <3>1. AttachedTo(i) = {}
      BY <2>2 DEF EvidenceInv, Committed, AttachedTo
    <3>2. Attaching(i) = {}
      BY <2>2 DEF EvidenceInv, DeskHolds, AttachHolds, IsSession, NoRequest, Attaching
    <3>3. Cardinality({}) = 0 /\ BytesOf({}) = 0
      BY NoBytes, FS_EmptySet
    <3>4. Cardinality(Desks) \in Nat /\ Cardinality(Desks) >= 1
      <4>1. Cardinality(Desks) \in Nat /\ Cardinality(Desks) # 0
        BY EvidenceAssumption, FS_CardinalityType, FS_EmptySet
      <4> QED
        BY <4>1
    <3>5. 0 <= (Cardinality(Desks) - 1) * Largest.size
      <4> DEFINE n == Cardinality(Desks) - 1
                 m == Largest.size
      <4>1. n \in Nat /\ m \in Nat
        BY <3>4, LargestFacts
      <4> HIDE DEF n, m
      <4>2. n * m \in Nat
        BY <4>1
      <4> QED
        BY <4>2 DEF n, m
    <3>6. (Cardinality(Desks) - 1) * Largest.size \in Int
      BY <3>4, LargestFacts
    <3> QED
      BY <3>1, <3>2, <3>3, <3>4, <3>5, <3>6, EvidenceAssumption DEF RoomLeft
  <2> QED
    BY <2>1, <2>2
<1> QED
  BY <1>1, <1>2, <1>3, <1>4 DEF RoomLeft

\* A step of a session that attaches nothing.

LEMMA SessionStep ==
  ASSUME EvidenceInv, NEW s, NEW d, Steps(s, d), Growing,
         desks[s].kind # "attach", d.kind # "attach", attachments' = attachments,
         Committed', DeskHolds(d)'
  PROVE  EvidenceInv'
<1>1. DeskHolds(desks[s])'
  BY DeskSteps
<1>2. \A o \in Desks : DeskHolds(desks[o])'
  BY <1>1, OthersHold
<1>3. \A i \in DOMAIN studies' : RoomLeft(i)'
  BY RoomStays
<1> QED
  BY <1>2, <1>3, DeskSteps DEF EvidenceInv

LEMMA Undisturbed ==
  ASSUME Committed, UNCHANGED <<defaults, studies, usage, lessons, sources, attachments>>
  PROVE  Committed' /\ Growing
BY DEF Committed, LessonsKnown, Growing

LEMMA NoRequestHolds == NoRequest.kind = "none" /\ DeskHolds(NoRequest)'
BY DEF NoRequest, DeskHolds

LEMMA SessionAborts ==
  ASSUME EvidenceInv, NEW s \in Desks, desks[s].kind # "attach", Abort(s)
  PROVE  EvidenceInv'
<1>1. Steps(s, NoRequest)
  BY DEF Abort, Steps
<1>2. Committed' /\ Growing /\ attachments' = attachments
  BY Undisturbed DEF Abort, EvidenceInv
<1> QED
  BY <1>1, <1>2, NoRequestHolds, SessionStep

\* What updates make of a session.
LEMMA SessionUpdates ==
  ASSUME NEW d, IsSession(d), NEW a
  PROVE  /\ [d EXCEPT !.rows = a]
              = [kind |-> d.kind, symbol |-> d.symbol, rows |-> a, absent |-> d.absent,
                 mine |-> d.mine, retrieved |-> d.retrieved, calls |-> d.calls, step |-> d.step]
         /\ [d EXCEPT !.absent = a]
              = [kind |-> d.kind, symbol |-> d.symbol, rows |-> d.rows, absent |-> a,
                 mine |-> d.mine, retrieved |-> d.retrieved, calls |-> d.calls, step |-> d.step]
         /\ [d EXCEPT !.mine = a]
              = [kind |-> d.kind, symbol |-> d.symbol, rows |-> d.rows, absent |-> d.absent,
                 mine |-> a, retrieved |-> d.retrieved, calls |-> d.calls, step |-> d.step]
         /\ [d EXCEPT !.retrieved = a]
              = [kind |-> d.kind, symbol |-> d.symbol, rows |-> d.rows, absent |-> d.absent,
                 mine |-> d.mine, retrieved |-> a, calls |-> d.calls, step |-> d.step]
         /\ [d EXCEPT !.step = a]
              = [kind |-> d.kind, symbol |-> d.symbol, rows |-> d.rows, absent |-> d.absent,
                 mine |-> d.mine, retrieved |-> d.retrieved, calls |-> d.calls, step |-> a]
<1>1. d = [kind |-> d.kind, symbol |-> d.symbol, rows |-> d.rows, absent |-> d.absent,
          mine |-> d.mine, retrieved |-> d.retrieved, calls |-> d.calls, step |-> d.step]
  BY DEF IsSession
<1>2. /\ [d EXCEPT !.rows = a]
           = [kind |-> d.kind, symbol |-> d.symbol, rows |-> a, absent |-> d.absent,
              mine |-> d.mine, retrieved |-> d.retrieved, calls |-> d.calls, step |-> d.step]
      /\ [d EXCEPT !.mine = a]
           = [kind |-> d.kind, symbol |-> d.symbol, rows |-> d.rows, absent |-> d.absent,
              mine |-> a, retrieved |-> d.retrieved, calls |-> d.calls, step |-> d.step]
  BY <1>1
<1>3. [d EXCEPT !.absent = a]
        = [kind |-> d.kind, symbol |-> d.symbol, rows |-> d.rows, absent |-> a,
           mine |-> d.mine, retrieved |-> d.retrieved, calls |-> d.calls, step |-> d.step]
  BY <1>1
<1>4. [d EXCEPT !.retrieved = a]
        = [kind |-> d.kind, symbol |-> d.symbol, rows |-> d.rows, absent |-> d.absent,
           mine |-> d.mine, retrieved |-> a, calls |-> d.calls, step |-> d.step]
  BY <1>1
<1>5. [d EXCEPT !.step = a]
        = [kind |-> d.kind, symbol |-> d.symbol, rows |-> d.rows, absent |-> d.absent,
           mine |-> d.mine, retrieved |-> d.retrieved, calls |-> d.calls, step |-> a]
  BY <1>1
<1> QED
  BY <1>2, <1>3, <1>4, <1>5

Retrieved(d, found, step) == [d EXCEPT !.retrieved = found, !.step = step]
Called(d, step, calls)    == [d EXCEPT !.step = step, !.calls = calls]

LEMMA RetrievedIs ==
  ASSUME NEW d, IsSession(d), NEW found, NEW step
  PROVE  Retrieved(d, found, step)
           = [kind |-> d.kind, symbol |-> d.symbol, rows |-> d.rows, absent |-> d.absent,
              mine |-> d.mine, retrieved |-> found, calls |-> d.calls, step |-> step]
<1>1. PICK t : t = [d EXCEPT !.retrieved = found]
  OBVIOUS
<1>2. t = [kind |-> d.kind, symbol |-> d.symbol, rows |-> d.rows, absent |-> d.absent,
          mine |-> d.mine, retrieved |-> found, calls |-> d.calls, step |-> d.step]
  BY <1>1, SessionUpdates
<1>3. [t EXCEPT !.step = step]
        = [kind |-> d.kind, symbol |-> d.symbol, rows |-> d.rows, absent |-> d.absent,
           mine |-> d.mine, retrieved |-> found, calls |-> d.calls, step |-> step]
  BY ONLY <1>2
<1>4. Retrieved(d, found, step) = [t EXCEPT !.step = step]
  BY ONLY <1>1, Zenon DEF Retrieved
<1> QED
  BY ONLY <1>3, <1>4

LEMMA CalledIs ==
  ASSUME NEW d, IsSession(d), NEW step, NEW calls
  PROVE  Called(d, step, calls)
           = [kind |-> d.kind, symbol |-> d.symbol, rows |-> d.rows, absent |-> d.absent,
              mine |-> d.mine, retrieved |-> d.retrieved, calls |-> calls, step |-> step]
<1>1. PICK t : t = [d EXCEPT !.step = step]
  OBVIOUS
<1>2. t = [kind |-> d.kind, symbol |-> d.symbol, rows |-> d.rows, absent |-> d.absent,
          mine |-> d.mine, retrieved |-> d.retrieved, calls |-> d.calls, step |-> step]
  BY <1>1, SessionUpdates
<1>3. [t EXCEPT !.calls = calls]
        = [kind |-> d.kind, symbol |-> d.symbol, rows |-> d.rows, absent |-> d.absent,
           mine |-> d.mine, retrieved |-> d.retrieved, calls |-> calls, step |-> step]
  BY ONLY <1>2
<1>4. Called(d, step, calls) = [t EXCEPT !.calls = calls]
  BY ONLY <1>1, Zenon DEF Called
<1> QED
  BY ONLY <1>3, <1>4

LEMMA OpenKeeps ==
  ASSUME EvidenceInv, NEW s \in Desks,
         \/ \E symbol \in Symbols : OpenResearch(s, symbol)
         \/ \E row \in DefaultRows : OpenListing(s, row)
  PROVE  EvidenceInv'
<1>1. PICK kind, symbol, pending :
        /\ kind \in {"research", "listing"}
        /\ pending \in {<<"agent", "workflow">>, <<"agent">>, <<"workflow">>}
        /\ Open(s, kind, symbol, pending)
        /\ kind = "research" => symbol \in Symbols /\ pending = <<"agent", "workflow">>
  <2>1. CASE \E symbol \in Symbols : OpenResearch(s, symbol)
    BY <2>1 DEF OpenResearch
  <2>2. CASE \E row \in DefaultRows : OpenListing(s, row)
    <3>1. PICK row \in DefaultRows : OpenListing(s, row)
      BY <2>2
    <3>2. PICK symbol, pending : pending = <<row>> /\ Open(s, "listing", symbol, pending)
      BY <3>1 DEF OpenListing
    <3>3. pending \in {<<"agent">>, <<"workflow">>}
      BY <3>2 DEF DefaultRows
    <3> QED
      BY <3>2, <3>3
  <2> QED
    BY <2>1, <2>2
<1>2. PICK d : d = [kind |-> kind, symbol |-> symbol, rows |-> pending, absent |-> FALSE,
                    mine |-> {}, retrieved |-> {}, calls |-> << >>, step |-> 0]
  OBVIOUS
<1>3. Steps(s, d) /\ desks[s].kind = "none"
  BY <1>1, <1>2 DEF Open, Serves, Steps
<1>4. Committed' /\ Growing /\ attachments' = attachments
  BY <1>1, Undisturbed DEF Open, EvidenceInv
<1>5. IsSession(d)
  BY <1>1, <1>2 DEF IsSession
<1>6. kind = "research" => ResearchHolds(d)'
  <2> SUFFICES ASSUME kind = "research"
               PROVE  ResearchHolds(d)'
    OBVIOUS
  <2>1. symbol \in Symbols /\ pending = <<"agent", "workflow">>
    BY <1>1
  <2>2. \A row \in DefaultRows : \E i \in DOMAIN d.rows : d.rows[i] = row
    <3>1. 1 \in DOMAIN d.rows /\ 2 \in DOMAIN d.rows /\ d.rows[1] = "agent" /\ d.rows[2] = "workflow"
      BY <1>2, <2>1
    <3> QED
      BY <3>1 DEF DefaultRows
  <2>3. d.calls \in Seq(Models) /\ DOMAIN d.calls = {} /\ CallsBefore(d.step) = {}
    BY <1>2 DEF CallsBefore
  <2>4. d.step = 0 /\ d.step \in 0 .. Len(Nodes) + 1
    BY <1>2 DEF Nodes
  <2> QED
    BY <1>2, <2>1, <2>2, <2>3, <2>4 DEF ResearchHolds, LessonsKnown
<1>7. DeskHolds(d)' /\ d.kind # "attach"
  BY <1>2, <1>5, <1>6 DEF DeskHolds, IsSession
<1> QED
  BY <1>3, <1>4, <1>7, SessionStep

LEMMA FiveNodes ==
  /\ Len(Nodes) = 5 /\ DOMAIN Nodes = 1 .. 5
  /\ Nodes[1] = "hypothesis" /\ Nodes[2] = "strategy" /\ Nodes[3] = "backtest"
  /\ Nodes[4] = "evaluation" /\ Nodes[5] = "critique"
BY DEF Nodes

\* A session that serves a request holds what it should of it.

LEMMA ServedHolds ==
  ASSUME EvidenceInv, NEW s \in Desks, NEW d, d = desks[s]
  PROVE  /\ d.kind \in {"research", "listing"} => IsSession(d)
         /\ d.kind = "research" => ResearchHolds(d)
         /\ d.kind = "attach" => AttachHolds(d)
BY DEF EvidenceInv, DeskHolds, IsSession, NoRequest

\* What is left of the rows once the first is there.

LEMMA RowsLeft ==
  ASSUME NEW pending \in {<<"agent", "workflow">>, <<"agent">>, <<"workflow">>, << >>}, pending # << >>
  PROVE  /\ Tail(pending) \in {<<"agent", "workflow">>, <<"agent">>, <<"workflow">>, << >>}
         /\ Head(pending) \in DefaultRows
         /\ \A row : (\E i \in DOMAIN pending : pending[i] = row) =>
              row = Head(pending) \/ \E i \in DOMAIN Tail(pending) : Tail(pending)[i] = row
<1>1. CASE pending = <<"agent", "workflow">>
  <2>1. Head(pending) = "agent" /\ Tail(pending) = <<"workflow">> /\ DOMAIN pending = {1, 2}
    BY <1>1
  <2>2. 1 \in DOMAIN Tail(pending) /\ Tail(pending)[1] = "workflow" /\ pending[1] = "agent" /\ pending[2] = "workflow"
    BY <1>1, <2>1
  <2> QED
    BY <2>1, <2>2 DEF DefaultRows
<1>2. CASE pending = <<"agent">>
  <2>1. Head(pending) = "agent" /\ Tail(pending) = << >> /\ DOMAIN pending = {1} /\ pending[1] = "agent"
    BY <1>2
  <2> QED
    BY <2>1 DEF DefaultRows
<1>3. CASE pending = <<"workflow">>
  <2>1. Head(pending) = "workflow" /\ Tail(pending) = << >> /\ DOMAIN pending = {1} /\ pending[1] = "workflow"
    BY <1>3
  <2> QED
    BY <2>1 DEF DefaultRows
<1> QED
  BY <1>1, <1>2, <1>3

LEMMA LookUpKeeps ==
  ASSUME EvidenceInv, NEW s \in Desks, LookUpDefault(s)
  PROVE  EvidenceInv'
<1>1. PICK d : d = desks[s]
  OBVIOUS
<1>2. d.kind \in {"research", "listing"} /\ d.rows # << >>
  BY <1>1 DEF LookUpDefault, Needs
<1>3. IsSession(d) /\ (d.kind = "research" => ResearchHolds(d))
  BY <1>1, <1>2, ServedHolds
<1>4. /\ Tail(d.rows) \in {<<"agent", "workflow">>, <<"agent">>, <<"workflow">>, << >>}
      /\ \A row : (\E i \in DOMAIN d.rows : d.rows[i] = row) =>
           row = Head(d.rows) \/ \E i \in DOMAIN Tail(d.rows) : Tail(d.rows)[i] = row
  BY <1>2, <1>3, RowsLeft DEF IsSession
<1>5. PICK n : n = IF Head(d.rows) \in defaults THEN [d EXCEPT !.rows = Tail(d.rows)]
                   ELSE [d EXCEPT !.absent = TRUE]
  OBVIOUS
<1>6. Steps(s, n)
  BY <1>1, <1>5 DEF LookUpDefault, Steps
<1>7. Committed' /\ Growing /\ attachments' = attachments /\ defaults' = defaults /\ lessons' = lessons
  BY Undisturbed DEF LookUpDefault, EvidenceInv
<1>8. DeskHolds(n)' /\ n.kind # "attach"
  <2>1. CASE Head(d.rows) \in defaults
    <3>1. n = [kind |-> d.kind, symbol |-> d.symbol, rows |-> Tail(d.rows), absent |-> d.absent,
               mine |-> d.mine, retrieved |-> d.retrieved, calls |-> d.calls, step |-> d.step]
      BY <1>3, <1>5, <2>1, SessionUpdates
    <3>2. IsSession(n)
      BY <1>3, <1>4, <3>1 DEF IsSession
    <3>3. d.kind = "research" => ResearchHolds(n)'
      <4> SUFFICES ASSUME d.kind = "research"
                   PROVE  ResearchHolds(n)'
        OBVIOUS
      <4>1. ResearchHolds(d) /\ d.step = 0
        BY <1>2, <1>3, FiveNodes DEF ResearchHolds
      <4>2. \A row \in DefaultRows : row \in defaults \cup n.mine \/ \E i \in DOMAIN n.rows : n.rows[i] = row
        BY <1>4, <2>1, <3>1, <4>1 DEF ResearchHolds
      <4> QED
        BY <1>7, <3>1, <4>1, <4>2, FiveNodes DEF ResearchHolds, LessonsKnown
    <3> QED
      BY <1>2, <3>1, <3>2, <3>3 DEF DeskHolds
  <2>2. CASE Head(d.rows) \notin defaults
    <3>1. n = [kind |-> d.kind, symbol |-> d.symbol, rows |-> d.rows, absent |-> TRUE,
               mine |-> d.mine, retrieved |-> d.retrieved, calls |-> d.calls, step |-> d.step]
      BY <1>3, <1>5, <2>2, SessionUpdates
    <3>2. IsSession(n)
      BY <1>3, <3>1 DEF IsSession
    <3>3. d.kind = "research" => ResearchHolds(n)'
      BY <1>3, <1>7, <3>1 DEF ResearchHolds, LessonsKnown
    <3> QED
      BY <1>2, <3>1, <3>2, <3>3 DEF DeskHolds
  <2> QED
    BY <2>1, <2>2
<1>9. desks[s].kind # "attach"
  BY <1>1, <1>2
<1> QED
  BY <1>6, <1>7, <1>8, <1>9, SessionStep

LEMMA InsertKeeps ==
  ASSUME EvidenceInv, NEW s \in Desks, InsertDefault(s)
  PROVE  EvidenceInv'
<1>1. PICK d : d = desks[s]
  OBVIOUS
<1>2. d.kind \in {"research", "listing"} /\ d.rows # << >>
  BY <1>1 DEF InsertDefault, Needs
<1>3. IsSession(d) /\ (d.kind = "research" => ResearchHolds(d))
  BY <1>1, <1>2, ServedHolds
<1>4. desks[s].kind # "attach"
  BY <1>1, <1>2
<1>5. CASE Abort(s)
  BY <1>4, <1>5, SessionAborts
<1>6. CASE ~Abort(s)
  <2>1. PICK row : row = Head(d.rows)
    OBVIOUS
  <2>2. /\ row \in DefaultRows
        /\ Tail(d.rows) \in {<<"agent", "workflow">>, <<"agent">>, <<"workflow">>, << >>}
        /\ \A r : (\E i \in DOMAIN d.rows : d.rows[i] = r) =>
             r = row \/ \E i \in DOMAIN Tail(d.rows) : Tail(d.rows)[i] = r
    BY <1>2, <1>3, <2>1, RowsLeft DEF IsSession
  <2>3. PICK n : n = [d EXCEPT !.rows = Tail(d.rows), !.absent = FALSE, !.mine = d.mine \cup {row}]
    OBVIOUS
  <2>4. Steps(s, n)
    BY <1>1, <1>6, <2>1, <2>3 DEF InsertDefault, Steps
  <2>5. Committed' /\ Growing /\ attachments' = attachments /\ defaults' = defaults /\ lessons' = lessons
    BY <1>6, Undisturbed DEF InsertDefault, EvidenceInv
  <2>6. n = [kind |-> d.kind, symbol |-> d.symbol, rows |-> Tail(d.rows), absent |-> FALSE,
             mine |-> d.mine \cup {row}, retrieved |-> d.retrieved, calls |-> d.calls,
             step |-> d.step]
    <3>1. PICK x : x = [d EXCEPT !.rows = Tail(d.rows)]
      OBVIOUS
    <3>2. PICK y : y = [x EXCEPT !.absent = FALSE]
      OBVIOUS
    <3>3. x = [kind |-> d.kind, symbol |-> d.symbol, rows |-> Tail(d.rows), absent |-> d.absent,
               mine |-> d.mine, retrieved |-> d.retrieved, calls |-> d.calls, step |-> d.step]
      BY <1>3, <3>1, SessionUpdates
    <3>4. IsSession(x)
      BY <1>3, <2>2, <3>3 DEF IsSession
    <3>5. y = [kind |-> d.kind, symbol |-> d.symbol, rows |-> Tail(d.rows), absent |-> FALSE,
               mine |-> d.mine, retrieved |-> d.retrieved, calls |-> d.calls, step |-> d.step]
      BY <3>2, <3>3, <3>4, SessionUpdates
    <3>6. IsSession(y)
      BY <1>3, <2>2, <3>5 DEF IsSession
    <3>7. n = [y EXCEPT !.mine = d.mine \cup {row}]
      BY <2>3, <3>1, <3>2, Zenon
    <3> QED
      BY <3>5, <3>6, <3>7, SessionUpdates
  <2>7. IsSession(n)
    BY <1>3, <2>2, <2>6 DEF IsSession
  <2>8. d.kind = "research" => ResearchHolds(n)'
    <3> SUFFICES ASSUME d.kind = "research"
                 PROVE  ResearchHolds(n)'
      OBVIOUS
    <3>1. ResearchHolds(d) /\ d.step = 0
      BY <1>2, <1>3, FiveNodes DEF ResearchHolds
    <3>2. \A r \in DefaultRows : r \in defaults \cup n.mine \/ \E i \in DOMAIN n.rows : n.rows[i] = r
      BY <2>2, <2>6, <3>1 DEF ResearchHolds
    <3> QED
      BY <2>5, <2>6, <3>1, <3>2, FiveNodes DEF ResearchHolds, LessonsKnown
  <2>9. DeskHolds(n)' /\ n.kind # "attach"
    BY <1>2, <2>6, <2>7, <2>8 DEF DeskHolds
  <2> QED
    BY <1>4, <2>4, <2>5, <2>9, SessionStep
<1> QED
  BY <1>5, <1>6

LEMMA CommitListingKeeps ==
  ASSUME EvidenceInv, NEW s \in Desks, CommitListing(s)
  PROVE  EvidenceInv'
<1>1. desks[s].kind = "listing" /\ desks[s].mine \subseteq DefaultRows
  BY ServedHolds DEF CommitListing, Serves, IsSession
<1>2. Steps(s, NoRequest)
  BY DEF CommitListing, Steps
<1>3. Committed
  BY DEF EvidenceInv
<1>4. /\ defaults' = defaults \cup desks[s].mine
      /\ UNCHANGED <<studies, usage, lessons, sources, attachments>>
  BY DEF CommitListing
<1>5. Committed' /\ Growing
  BY <1>1, <1>3, <1>4 DEF Committed, LessonsKnown, Growing
<1> QED
  BY <1>1, <1>2, <1>4, <1>5, NoRequestHolds, SessionStep

\* A session is past its rows before it retrieves, and at a node after.

LEMMA RetrieveKeeps ==
  ASSUME EvidenceInv, NEW s \in Desks, Retrieve(s)
  PROVE  EvidenceInv'
<1>1. PICK d : d = desks[s]
  OBVIOUS
<1>2. d.kind = "research" /\ d.rows = << >> /\ d.step = 0
  BY <1>1 DEF Retrieve, Serves, Needs
<1>3. IsSession(d) /\ ResearchHolds(d)
  BY <1>1, <1>2, ServedHolds
<1>4. PICK found \in SUBSET {x \in lessons : x.symbol = d.symbol} :
        desks' = [desks EXCEPT ![s] = Retrieved(d, found, 1)]
  BY <1>1 DEF Retrieve, Retrieved
<1>5. PICK n : n = Retrieved(d, found, 1)
  OBVIOUS
<1>6. Steps(s, n)
  BY <1>4, <1>5 DEF Steps
<1>7. Committed /\ Committed' /\ Growing /\ attachments' = attachments /\ defaults' = defaults /\ lessons' = lessons
  BY Undisturbed DEF Retrieve, EvidenceInv
<1>8. n = [kind |-> d.kind, symbol |-> d.symbol, rows |-> d.rows, absent |-> d.absent,
           mine |-> d.mine, retrieved |-> found, calls |-> d.calls, step |-> 1]
  BY <1>3, <1>5, RetrievedIs
<1>9. IsSession(n)
  BY <1>3, <1>8 DEF IsSession
<1>10. found \subseteq LessonRow /\ LessonsKnown(found, d.symbol)
  <2>1. lessons \subseteq LessonRow
    <3> SUFFICES ASSUME NEW i \in DOMAIN studies
                 PROVE  Lesson(i, studies[i].symbol) \in LessonRow
      BY <1>7 DEF Committed
    <3>1. studies[i] \in Study /\ i \in Nat
      BY <1>7, ElementOfSeq, LenProperties DEF Committed
    <3> QED
      BY <3>1 DEF Lesson, LessonRow, Study
  <2> QED
    BY <1>4, <2>1 DEF LessonsKnown
<1>11. CallsBefore(0) = {} /\ CallsBefore(1) = {}
  BY DEF CallsBefore
<1>12. ResearchHolds(n)'
  <2>1. /\ n.symbol = d.symbol /\ n.rows = d.rows /\ n.mine = d.mine
        /\ n.retrieved = found /\ n.calls = d.calls /\ n.step = 1
    BY <1>8
  <2>2. \A row \in DefaultRows : row \in defaults \cup d.mine \/ \E i \in DOMAIN d.rows : d.rows[i] = row
    BY <1>3 DEF ResearchHolds
  <2>3. \A row \in DefaultRows : row \in defaults' \cup n.mine \/ \E i \in DOMAIN n.rows : n.rows[i] = row
    BY <1>7, <2>1, <2>2
  <2>4. n.step \in 0 .. Len(Nodes) + 1 /\ n.rows = << >> /\ n.symbol \in Symbols
    BY <1>2, <1>3, <2>1, FiveNodes DEF ResearchHolds
  <2>5. n.calls \in Seq(Models) /\ {n.calls[i] : i \in DOMAIN n.calls} = CallsBefore(n.step)
    <3>1. CallsBefore(d.step) = {} /\ CallsBefore(n.step) = {}
      BY <1>2, <1>11, <2>1, Zenon
    <3>2. d.calls \in Seq(Models) /\ {d.calls[i] : i \in DOMAIN d.calls} = CallsBefore(d.step)
      BY <1>3 DEF ResearchHolds
    <3> QED
      BY <2>1, <3>1, <3>2
  <2>6. n.retrieved \subseteq LessonRow /\ LessonsKnown(n.retrieved, n.symbol)'
    BY <1>7, <1>10, <2>1 DEF LessonsKnown
  <2> QED
    BY <2>3, <2>4, <2>5, <2>6 DEF ResearchHolds
<1>13. DeskHolds(n)' /\ n.kind # "attach"
  BY <1>2, <1>8, <1>9, <1>12 DEF DeskHolds
<1> QED
  BY <1>1, <1>2, <1>6, <1>7, <1>13, SessionStep

\* One node further: a model call is added to the calls, the backtest is none.

LEMMA CallsGrow ==
  ASSUME NEW step \in 1 .. 5
  PROVE  CallsBefore(step + 1) = CallsBefore(step) \cup ({Nodes[step]} \cap Models)
<1>1. 1 .. ((step + 1) - 1) = 1 .. (step - 1) \cup {step}
  OBVIOUS
<1> QED
  BY <1>1 DEF CallsBefore

LEMMA NodeKeeps ==
  ASSUME EvidenceInv, NEW s \in Desks, NEW raises, CallModel(s, raises) \/ BacktestTool(s, raises)
  PROVE  EvidenceInv'
<1>1. PICK d : d = desks[s]
  OBVIOUS
<1>2. d.kind = "research" /\ d.step \in 1 .. 5
  BY <1>1, FiveNodes DEF CallModel, BacktestTool, AtNode, Serves
<1>3. IsSession(d) /\ ResearchHolds(d) /\ desks[s].kind # "attach"
  BY <1>1, <1>2, ServedHolds
<1>4. CASE Abort(s)
  BY <1>3, <1>4, SessionAborts
<1>5. ASSUME ~Abort(s), NEW n, NEW calls, calls \in Seq(Models),
             {calls[i] : i \in DOMAIN calls} = CallsBefore(d.step + 1),
             n = [kind |-> d.kind, symbol |-> d.symbol, rows |-> d.rows, absent |-> d.absent,
                  mine |-> d.mine, retrieved |-> d.retrieved, calls |-> calls, step |-> d.step + 1],
             Steps(s, n)
      PROVE  EvidenceInv'
  <2>1. Committed' /\ Growing /\ attachments' = attachments /\ defaults' = defaults /\ lessons' = lessons
    BY <1>5, Undisturbed DEF CallModel, BacktestTool, EvidenceInv
  <2>2. IsSession(n)
    BY <1>3, <1>5 DEF IsSession
  <2>3. d.step + 1 \in 0 .. 6 /\ d.step > 0
    BY <1>2
  <2>4. ResearchHolds(n)'
    BY <1>3, <1>5, <2>1, <2>3, FiveNodes DEF ResearchHolds, LessonsKnown
  <2>5. DeskHolds(n)' /\ n.kind # "attach"
    BY <1>2, <1>5, <2>2, <2>4 DEF DeskHolds
  <2> QED
    BY <1>3, <1>5, <2>1, <2>5, SessionStep
<1>6. CASE ~Abort(s) /\ CallModel(s, raises)
  <2>1. PICK calls : calls = Append(d.calls, Nodes[d.step])
    OBVIOUS
  <2>2. PICK n : n = Called(d, d.step + 1, calls)
    OBVIOUS
  <2>3. Steps(s, n)
    BY <1>1, <1>6, <2>1, <2>2 DEF CallModel, Steps, Called
  <2>4. Nodes[d.step] \in Models
    BY <1>1, <1>6, FiveNodes DEF CallModel, AtNode
  <2>5. d.calls \in Seq(Models) /\ {d.calls[i] : i \in DOMAIN d.calls} = CallsBefore(d.step)
    BY <1>3 DEF ResearchHolds
  <2>6. /\ calls \in Seq(Models)
        /\ DOMAIN calls = DOMAIN d.calls \cup {Len(d.calls) + 1}
        /\ calls[Len(d.calls) + 1] = Nodes[d.step]
        /\ \A i \in DOMAIN d.calls : calls[i] = d.calls[i]
    <3>1. /\ calls \in Seq(Models) /\ Len(calls) = Len(d.calls) + 1
          /\ calls[Len(d.calls) + 1] = Nodes[d.step]
          /\ \A i \in 1 .. Len(d.calls) : calls[i] = d.calls[i]
      BY <2>1, <2>4, <2>5, AppendProperties
    <3>2. /\ DOMAIN calls = 1 .. Len(calls) /\ DOMAIN d.calls = 1 .. Len(d.calls)
          /\ Len(d.calls) \in Nat
      BY <2>5, <3>1, LenProperties
    <3> QED
      BY <3>1, <3>2
  <2>7. {calls[i] : i \in DOMAIN calls} = CallsBefore(d.step) \cup {Nodes[d.step]}
    BY <2>5, <2>6
  <2>8. {calls[i] : i \in DOMAIN calls} = CallsBefore(d.step + 1)
    BY <1>2, <2>4, <2>7, CallsGrow
  <2>9. n = [kind |-> d.kind, symbol |-> d.symbol, rows |-> d.rows, absent |-> d.absent,
             mine |-> d.mine, retrieved |-> d.retrieved, calls |-> calls, step |-> d.step + 1]
    BY <1>3, <2>2, CalledIs
  <2> QED
    BY <1>5, <1>6, <2>3, <2>6, <2>8, <2>9
<1>7. CASE ~Abort(s) /\ BacktestTool(s, raises)
  <2>1. PICK n : n = [d EXCEPT !.step = d.step + 1]
    OBVIOUS
  <2>2. Steps(s, n)
    BY <1>1, <1>7, <2>1 DEF BacktestTool, Steps
  <2>3. Nodes[d.step] = "backtest"
    BY <1>1, <1>7 DEF BacktestTool, AtNode
  <2>4. CallsBefore(d.step + 1) = CallsBefore(d.step)
    BY <1>2, <2>3, CallsGrow DEF Models
  <2>5. n = [kind |-> d.kind, symbol |-> d.symbol, rows |-> d.rows, absent |-> d.absent,
             mine |-> d.mine, retrieved |-> d.retrieved, calls |-> d.calls, step |-> d.step + 1]
    BY <1>3, <2>1, SessionUpdates
  <2> QED
    BY <1>3, <1>5, <1>7, <2>2, <2>4, <2>5 DEF ResearchHolds
<1> QED
  BY <1>4, <1>6, <1>7

\* A session past the last node has made every model call, and both rows are there or its own.

LEMMA CommitResearchKeeps ==
  ASSUME EvidenceInv, NEW s \in Desks, CommitResearch(s)
  PROVE  EvidenceInv'
<1>1. PICK d : d = desks[s]
  OBVIOUS
<1>2. d.kind = "research" /\ d.step = 6
  BY <1>1, FiveNodes DEF CommitResearch, Serves
<1>3. IsSession(d) /\ ResearchHolds(d)
  BY <1>1, <1>2, ServedHolds
<1>4. Committed
  BY DEF EvidenceInv
<1>5. PICK st : st = [symbol |-> d.symbol, retrieved |-> d.retrieved]
  OBVIOUS
<1>6. PICK k : k = Len(studies) + 1
  OBVIOUS
<1>7. /\ studies' = Append(studies, st)
      /\ usage' = usage \cup UsageOf(k, d.calls)
      /\ lessons' = lessons \cup {Lesson(k, d.symbol)}
      /\ defaults' = defaults \cup d.mine
      /\ sources' = sources /\ attachments' = attachments
  BY <1>1, <1>5, <1>6 DEF CommitResearch
<1>8. Steps(s, NoRequest)
  BY DEF CommitResearch, Steps
<1>9. st \in Study /\ studies \in Seq(Study)
  BY <1>3, <1>4, <1>5 DEF ResearchHolds, Committed, Study
<1>10. /\ studies' \in Seq(Study) /\ studies' # << >>
       /\ DOMAIN studies' = DOMAIN studies \cup {k} /\ k \notin DOMAIN studies
       /\ k \in Nat /\ DOMAIN studies \subseteq Nat /\ \A i \in DOMAIN studies : i < k
       /\ studies'[k] = st /\ \A i \in DOMAIN studies : studies'[i] = studies[i]
  <2>1. /\ studies' \in Seq(Study) /\ Len(studies') = Len(studies) + 1
        /\ studies'[Len(studies) + 1] = st
        /\ \A i \in 1 .. Len(studies) : studies'[i] = studies[i]
    BY <1>7, <1>9, AppendProperties
  <2>2. /\ DOMAIN studies = 1 .. Len(studies) /\ DOMAIN studies' = 1 .. Len(studies')
        /\ Len(studies) \in Nat
    BY <1>9, <2>1, LenProperties
  <2>3. studies' # << >>
    BY <2>1, <2>2
  <2> QED
    BY <1>6, <2>1, <2>2, <2>3
<1>11. defaults' = DefaultRows
  <2>1. d.rows = << >>
    BY <1>2, <1>3 DEF ResearchHolds
  <2>2. \A row \in DefaultRows : row \in defaults \cup d.mine
    BY <1>3, <2>1 DEF ResearchHolds
  <2> QED
    BY <1>3, <1>4, <1>7, <2>2 DEF Committed, IsSession
<1>12. usage' = {u \in UsageRow : u.study \in DOMAIN studies'}
  <2>1. {d.calls[i] : i \in DOMAIN d.calls} = Models
    <3>1. CallsBefore(6) = Models
      <4>1. 1 .. (6 - 1) = {1, 2, 3, 4, 5}
        OBVIOUS
      <4> QED
        BY <4>1, FiveNodes DEF CallsBefore, Models
    <3>2. CallsBefore(d.step) = Models
      BY <1>2, <3>1, Zenon
    <3> QED
      BY <1>3, <3>2 DEF ResearchHolds
  <2>2. UsageOf(k, d.calls) = {[study |-> k, call |-> c] : c \in Models}
    BY <2>1 DEF UsageOf
  <2>3. {[study |-> k, call |-> c] : c \in Models} = {u \in UsageRow : u.study = k}
    BY <1>10 DEF UsageRow
  <2>4. usage = {u \in UsageRow : u.study \in DOMAIN studies}
    BY <1>4 DEF Committed
  <2> QED
    BY <1>7, <1>10, <2>2, <2>3, <2>4
<1>13. lessons' = {Lesson(i, studies'[i].symbol) : i \in DOMAIN studies'}
  <2>1. lessons = {Lesson(i, studies[i].symbol) : i \in DOMAIN studies}
    BY <1>4 DEF Committed
  <2>2. studies'[k].symbol = d.symbol
    BY <1>5, <1>10
  <2> QED
    BY <1>7, <1>10, <2>1, <2>2
<1>14. \A x \in d.retrieved : x \in lessons /\ x.symbol = d.symbol /\ x.study < k
  <2>1. \A x \in lessons : x.study \in DOMAIN studies
    BY <1>4 DEF Committed, Lesson
  <2> QED
    BY <1>3, <1>10, <2>1 DEF ResearchHolds, LessonsKnown
<1>15. Growing
  BY <1>7, <1>10 DEF Growing
<1>16. ASSUME NEW i \in DOMAIN studies'
       PROVE  /\ LessonsKnown(studies[i].retrieved, studies[i].symbol)'
              /\ \A x \in studies'[i].retrieved : x.study < i
  <2>1. CASE i = k
    BY <1>5, <1>10, <1>14, <1>15, <2>1 DEF LessonsKnown, Growing
  <2>2. CASE i \in DOMAIN studies
    BY <1>4, <1>10, <1>15, <2>2 DEF Committed, LessonsKnown, Growing
  <2> QED
    BY <1>10, <2>1, <2>2
<1>17. Committed'
  <2>1. /\ sources' \subseteq Documents
        /\ \A b, c \in sources' : b.content = c.content => b = c
        /\ attachments' \subseteq Attachment /\ IsFiniteSet(attachments')
        /\ \A a \in attachments' : a.study \in DOMAIN studies' /\ a.document \in sources'
    BY <1>4, <1>7, <1>10 DEF Committed
  <2> QED
    BY <1>10, <1>11, <1>12, <1>13, <1>16, <2>1 DEF Committed
<1> QED
  BY <1>1, <1>2, <1>7, <1>8, <1>15, <1>17, NoRequestHolds, SessionStep

-----------------------------------------------------------------------------
(* Documents: a session takes its place when it has checked the quota, and  *)
(* what it adds or leaves to the others keeps room for one of them.         *)

LEMMA AttachedFacts ==
  ASSUME EvidenceInv, NEW i
  PROVE  /\ AttachedTo(i) \in SUBSET Documents /\ IsFiniteSet(AttachedTo(i))
         /\ Cardinality(AttachedTo(i)) \in Nat /\ BytesOf(AttachedTo(i)) \in Nat
<1> DEFINE mine == {a \in attachments : a.study = i}
           f == [a \in mine |-> a.document]
<1>1. attachments \subseteq Attachment /\ IsFiniteSet(attachments)
  BY DEF EvidenceInv, Committed
<1>2. IsFiniteSet(mine)
  BY <1>1, FS_Subset
<1>3. f \in Surjection(mine, AttachedTo(i))
  BY DEF Surjection, AttachedTo
<1>4. IsFiniteSet(AttachedTo(i))
  <2> HIDE DEF f, mine
  <2> QED
    BY <1>2, <1>3, FS_Surjection
<1>5. AttachedTo(i) \in SUBSET Documents
  BY <1>1 DEF AttachedTo, Attachment
<1> QED
  BY <1>4, <1>5, FS_CardinalityType, BytesCounted

LEMMA AttachingFacts ==
  ASSUME NEW i
  PROVE  /\ Attaching(i) \in SUBSET Desks /\ IsFiniteSet(Attaching(i))
         /\ Cardinality(Attaching(i)) \in Nat /\ Cardinality(Desks) \in Nat
         /\ Cardinality(Attaching(i)) <= Cardinality(Desks)
         /\ Slack(i) \in Nat
<1>1. Attaching(i) \in SUBSET Desks
  BY DEF Attaching
<1>2. /\ IsFiniteSet(Attaching(i)) /\ Cardinality(Attaching(i)) \in Nat
      /\ Cardinality(Desks) \in Nat /\ Cardinality(Attaching(i)) <= Cardinality(Desks)
  BY <1>1, EvidenceAssumption, FS_Subset, FS_CardinalityType
<1> QED
  BY <1>1, <1>2 DEF Slack

\* A study whose documents and sessions stay as they are keeps its room.

LEMMA RoomUnmoved ==
  ASSUME NEW i, RoomLeft(i), AttachedTo(i)' = AttachedTo(i), Attaching(i)' = Attaching(i),
         \A o \in Attaching(i) : desks'[o] = desks[o]
  PROVE  RoomLeft(i)'
<1>1. Slack(i)' = Slack(i)
  BY DEF Slack
<1> QED
  BY <1>1 DEF RoomLeft

\* A session that enters has checked the quota for its own document.

LEMMA BeginAttachKeeps ==
  ASSUME EvidenceInv, NEW s \in Desks, NEW study \in DOMAIN studies, NEW document \in Documents,
         BeginAttach(s, study, document)
  PROVE  EvidenceInv'
<1>1. PICK d : d = [kind |-> "attach", study |-> study, document |-> document,
                    stored |-> Stored(document)]
  OBVIOUS
<1>2. Steps(s, d) /\ desks[s].kind = "none"
  BY <1>1 DEF BeginAttach, Serves, Steps
<1>3. Committed /\ Committed' /\ Growing /\ attachments' = attachments /\ studies' = studies
  BY Undisturbed DEF BeginAttach, EvidenceInv
<1>4. Stored(document) \subseteq {document}
  BY <1>3, EvidenceAssumption DEF BeginAttach, Stored, Committed
<1>5. DeskHolds(d)'
  BY <1>1, <1>3, <1>4 DEF DeskHolds, AttachHolds
<1>6. \A o \in Desks : DeskHolds(desks[o])'
  BY <1>2, <1>3, <1>5, DeskSteps, OthersHold
<1>7. \A i : AttachedTo(i)' = AttachedTo(i)
  BY <1>3 DEF AttachedTo
<1>8. /\ s \notin Attaching(study) /\ Attaching(study)' = Attaching(study) \cup {s}
      /\ \A i \in DOMAIN studies : i # study => Attaching(i)' = Attaching(i)
      /\ \A i \in DOMAIN studies : \A o \in Attaching(i) : desks'[o] = desks[o]
  BY <1>1, <1>2, DeskSteps DEF Attaching
<1>9. ASSUME NEW i \in DOMAIN studies, i # study
      PROVE  RoomLeft(i)'
  BY <1>7, <1>8, <1>9, RoomUnmoved DEF EvidenceInv
<1>10. RoomLeft(study)'
  <2> DEFINE n == Cardinality(Desks)
             a == Cardinality(AttachedTo(study))
             b == BytesOf(AttachedTo(study))
             c == Cardinality(Attaching(study)')
             room == Slack(study)' * Largest.size
  <2>1. n \in Nat /\ a \in Nat /\ b \in Nat
    BY AttachedFacts, AttachingFacts
  <2>2. c \in Nat /\ c <= n
    <3>1. Attaching(study)' \in SUBSET Desks
      BY DEF Attaching
    <3> QED
      BY <3>1, EvidenceAssumption, FS_Subset, FS_CardinalityType
  <2>3. Slack(study)' \in Nat
    BY <2>1, <2>2 DEF Slack
  <2>4. room \in Nat
    BY <2>3, LargestFacts
  <2>5. /\ MaxAttachments \in Nat /\ MaxBytes \in Nat /\ document.size \in Nat
        /\ a < MaxAttachments /\ b + document.size <= MaxBytes
    BY EvidenceAssumption, LargestFacts DEF BeginAttach, WithinQuota
  <2>6. s \in Attaching(study)' /\ desks'[s].document = document
    BY <1>1, <1>2, <1>8, DeskSteps
  <2>7. Cardinality(AttachedTo(study)') = a /\ BytesOf(AttachedTo(study)') = b
    BY <1>7
  <2> HIDE DEF n, a, b, c, room
  <2>8. a + c <= MaxAttachments + n - 1 /\ b + document.size <= MaxBytes + room
    BY <2>1, <2>2, <2>4, <2>5
  <2> QED
    BY <2>6, <2>7, <2>8 DEF n, a, b, c, room, RoomLeft
<1> QED
  BY <1>2, <1>3, <1>6, <1>9, <1>10, DeskSteps DEF EvidenceInv

\* When a session leaves, with its document or without, another keeps room for its own: the

\* one that had it, or any if it was this one.
LEMMA RoomAfterLeaving ==
  ASSUME EvidenceInv, NEW s \in Desks, desks[s].kind = "attach", Steps(s, NoRequest),
         NEW i \in DOMAIN studies, i = desks[s].study,
         AttachedTo(i)' \in {AttachedTo(i), AttachedTo(i) \cup {desks[s].document}}
  PROVE  RoomLeft(i)'
<1> DEFINE n == Cardinality(Desks)
           a == Cardinality(AttachedTo(i))
           b == BytesOf(AttachedTo(i))
           c == Cardinality(Attaching(i))
           a1 == Cardinality(AttachedTo(i)')
           b1 == BytesOf(AttachedTo(i)')
           c1 == Cardinality(Attaching(i)')
           m == Largest.size
           size == desks[s].document.size
           room == (n - c) * m
           room1 == (n - c1) * m
<1>1. /\ s \in Attaching(i) /\ Attaching(i)' = Attaching(i) \ {s}
      /\ \A o \in Attaching(i) \ {s} : desks'[o] = desks[o]
  BY DeskSteps, NoRequestHolds DEF Attaching
<1>2. n \in Nat /\ a \in Nat /\ b \in Nat /\ c \in Nat /\ c <= n
  BY AttachedFacts, AttachingFacts
<1>3. c1 = c - 1 /\ c >= 1 /\ c1 \in Nat
  <2>1. c1 = c - 1
    <3>1. PICK A : A = Attaching(i) /\ IsFiniteSet(A)
      BY AttachingFacts
    <3>2. Attaching(i)' = A \ {s} /\ s \in A
      BY <1>1, <3>1
    <3>3. Cardinality(A \ {s}) = Cardinality(A) - 1
      BY ONLY <3>1, <3>2, FS_RemoveElement
    <3> QED
      BY <3>1, <3>2, <3>3
  <2>2. c # 0
    BY <1>1, AttachingFacts, FS_EmptySet
  <2> HIDE DEF c, c1
  <2> QED
    BY <1>2, <2>1, <2>2
<1>4. m \in Nat /\ \A o \in Attaching(i) : desks[o].document \in Documents
                     /\ desks[o].document.size \in Nat /\ desks[o].document.size <= m
  <2>1. \A o \in Attaching(i) : desks[o].document \in Documents
    BY ServedHolds DEF Attaching, AttachHolds
  <2> QED
    BY <2>1, LargestFacts
<1>5. a1 \in Nat /\ a1 <= a + 1
  <2>1. IsFiniteSet(AttachedTo(i))
    BY AttachedFacts
  <2>2. CASE AttachedTo(i)' = AttachedTo(i)
    BY <1>2, <2>2
  <2>3. CASE AttachedTo(i)' = AttachedTo(i) \cup {desks[s].document}
    <3>1. Cardinality(AttachedTo(i) \cup {desks[s].document}) \in {a, a + 1}
      BY <2>1, FS_AddElement
    <3> QED
      BY <1>2, <2>3, <3>1
  <2> QED
    BY <2>2, <2>3
<1>6. b1 \in Nat /\ b1 <= b + size
  <2>1. IsFiniteSet(AttachedTo(i)) /\ AttachedTo(i) \in SUBSET Documents
    BY AttachedFacts
  <2>2. desks[s].document \in Documents /\ size \in Nat
    BY <1>1, <1>4
  <2>3. CASE AttachedTo(i)' = AttachedTo(i)
    BY <1>2, <2>2, <2>3
  <2>4. CASE AttachedTo(i)' = AttachedTo(i) \cup {desks[s].document}
    BY <2>1, <2>2, <2>4, BytesAdd
  <2> QED
    BY <2>3, <2>4
<1>7. room \in Nat /\ room1 = room + m
  <2> DEFINE k == n - c
  <2>1. k \in Nat /\ n - c1 = k + 1
    BY <1>2, <1>3
  <2>2. room = k * m
    OBVIOUS
  <2>3. room1 = (k + 1) * m
    BY <2>1
  <2> HIDE DEF k, room, room1, m
  <2> QED
    BY <1>4, <2>1, <2>2, <2>3
<1>8. RoomLeft(i)
  BY DEF EvidenceInv
<1>9. PICK w \in Attaching(i) : b + desks[w].document.size <= MaxBytes + room
  BY <1>1, <1>8 DEF RoomLeft, Slack
<1>10. a + c <= MaxAttachments + n - 1
  BY <1>8 DEF RoomLeft
<1>11. Slack(i)' * Largest.size = room1
  BY DEF Slack
<1>12. size \in Nat /\ size <= m /\ desks[w].document.size \in Nat /\ desks[w].document.size <= m
  BY <1>1, <1>4, <1>9
<1>13. MaxAttachments \in Nat /\ MaxBytes \in Nat
  BY EvidenceAssumption
<1>14. a1 + c1 <= MaxAttachments + n - 1
  <2> HIDE DEF a, c, a1, c1, n
  <2> QED
    BY <1>2, <1>3, <1>5, <1>10, <1>13
<1>15. CASE Attaching(i)' = {}
  <2>1. w = s /\ c1 = 0
    BY <1>1, <1>9, <1>15, FS_EmptySet
  <2>2. b + size <= MaxBytes + room
    BY <1>9, <2>1
  <2>3. room = (n - 1) * m
    BY <1>2, <1>3, <2>1
  <2> HIDE DEF b, b1, size, room
  <2>4. b1 <= MaxBytes + room
    BY <1>2, <1>6, <1>7, <1>12, <1>13, <2>2
  <2>5. b1 <= MaxBytes + (Cardinality(Desks) - 1) * Largest.size
    BY <2>3, <2>4
  <2> QED
    BY <1>14, <1>15, <2>5 DEF b1, RoomLeft
<1>16. CASE Attaching(i)' # {}
  <2>1. PICK t \in Attaching(i)' : w # s => t = w
    BY <1>1, <1>9, <1>16
  <2>2. t \in Attaching(i) /\ desks'[t] = desks[t]
    BY <1>1, <2>1
  <2> DEFINE of == desks[w].document.size
             ot == desks[t].document.size
  <2>3. of \in Nat /\ ot \in Nat /\ of <= m /\ ot <= m
    BY <1>4, <1>9, <2>2
  <2>4. (of = size) \/ (of = ot)
    BY <2>1
  <2>5. b + of <= MaxBytes + room
    BY <1>9
  <2> HIDE DEF of, ot, b, b1, size, room, room1, m
  <2>6. b1 + ot <= MaxBytes + room1
    BY <1>2, <1>4, <1>6, <1>7, <1>12, <1>13, <2>3, <2>4, <2>5
  <2>7. b1 + ot <= MaxBytes + Slack(i)' * Largest.size
    BY <1>11, <2>6
  <2>8. b1 + desks'[t].document.size <= MaxBytes + Slack(i)' * Largest.size
    BY <2>2, <2>7 DEF ot
  <2> QED
    BY <1>14, <1>16, <2>1, <2>8 DEF b1, RoomLeft
<1> QED
  BY <1>15, <1>16

\* The content of a document that was not stored when the session looked, and is not at the

\* commit, is stored once; a document a study has already is refused.
LEMMA CommitAttachKeeps ==
  ASSUME EvidenceInv, NEW s \in Desks, CommitAttach(s)
  PROVE  EvidenceInv'
<1>1. PICK d : d = desks[s]
  OBVIOUS
<1>2. d.kind = "attach" /\ AttachHolds(d)
  BY <1>1, ServedHolds DEF CommitAttach, Serves
<1>3. Committed /\ d.study \in DOMAIN studies /\ d.document \in Documents /\ d.stored \subseteq {d.document}
  BY <1>2 DEF EvidenceInv, AttachHolds
<1>4. PICK i \in DOMAIN studies : i = d.study
  BY <1>3
<1>5. PICK new : new = [study |-> d.study, document |-> d.document]
  OBVIOUS
<1>6. /\ Steps(s, NoRequest) /\ UNCHANGED <<defaults, studies, usage, lessons>>
      /\ \/ UNCHANGED <<sources, attachments>>
         \/ /\ sources' = sources \cup {d.document} /\ attachments' = attachments \cup {new}
            /\ d.stored = Stored(d.document)
  BY <1>1, <1>5 DEF CommitAttach, Abort, Steps
<1>7. Growing
  BY <1>6 DEF Growing
<1>8. Committed'
  <2>1. CASE UNCHANGED <<sources, attachments>>
    BY <1>3, <1>6, <2>1, Undisturbed
  <2>2. CASE /\ sources' = sources \cup {d.document} /\ attachments' = attachments \cup {new}
             /\ d.stored = Stored(d.document)
    <3>1. sources' \subseteq Documents
      BY <1>3, <2>2 DEF Committed
    <3>2. \A e \in sources : e.content = d.document.content => e = d.document
      BY <1>3, <2>2 DEF Stored
    <3>3. \A e, g \in sources' : e.content = g.content => e = g
      BY <1>3, <2>2, <3>2 DEF Committed
    <3>4. d.study \in Nat
      BY <1>3, LenProperties DEF Committed
    <3>5. attachments' \subseteq Attachment
      BY <1>3, <1>5, <2>2, <3>4 DEF Committed, Attachment
    <3>6. IsFiniteSet(attachments')
      BY <1>3, <2>2, FS_AddElement DEF Committed
    <3>7. \A a \in attachments' : a.study \in DOMAIN studies' /\ a.document \in sources'
      BY <1>3, <1>5, <1>6, <2>2 DEF Committed
    <3>8. /\ studies' \in Seq(Study)
          /\ defaults' \subseteq DefaultRows /\ (studies' # << >> => defaults' = DefaultRows)
          /\ usage' = {u \in UsageRow : u.study \in DOMAIN studies'}
          /\ lessons' = {Lesson(j, studies'[j].symbol) : j \in DOMAIN studies'}
          /\ \A j \in DOMAIN studies' :
               /\ LessonsKnown(studies[j].retrieved, studies[j].symbol)'
               /\ \A x \in studies'[j].retrieved : x.study < j
      BY <1>3, <1>6 DEF Committed, LessonsKnown
    <3> QED
      BY <3>1, <3>3, <3>5, <3>6, <3>7, <3>8 DEF Committed
  <2> QED
    BY <1>6, <2>1, <2>2
<1>9. \A o \in Desks : DeskHolds(desks[o])'
  BY <1>6, <1>7, DeskSteps, NoRequestHolds, OthersHold
<1>10. ASSUME NEW j \in DOMAIN studies'
       PROVE  RoomLeft(j)'
  <2>1. CASE j = i
    <3>1. AttachedTo(j)' \in {AttachedTo(j), AttachedTo(j) \cup {d.document}}
      <4>1. CASE attachments' = attachments
        BY <4>1 DEF AttachedTo
      <4>2. CASE attachments' = attachments \cup {new}
        BY <1>4, <1>5, <2>1, <4>2 DEF AttachedTo
      <4> QED
        BY <1>6, <4>1, <4>2
    <3> QED
      BY <1>1, <1>2, <1>4, <1>6, <2>1, <3>1, RoomAfterLeaving
  <2>2. CASE j # i
    <3>1. AttachedTo(j)' = AttachedTo(j)
      BY <1>4, <1>5, <1>6, <2>2 DEF AttachedTo
    <3>2. Attaching(j)' = Attaching(j) /\ \A o \in Attaching(j) : desks'[o] = desks[o]
      BY <1>1, <1>4, <1>6, <2>2, DeskSteps, NoRequestHolds DEF Attaching
    <3>3. RoomLeft(j)
      BY <1>6 DEF EvidenceInv
    <3> QED
      BY <3>1, <3>2, <3>3, RoomUnmoved
  <2> QED
    BY <2>1, <2>2
<1> QED
  BY <1>6, <1>8, <1>9, <1>10, DeskSteps DEF EvidenceInv

-----------------------------------------------------------------------------
(* The theorems about the desk's research *)

LEMMA EvidenceNextKeeps ==
  ASSUME EvidenceInv, EvidenceNext
  PROVE  EvidenceInv'
<1>1. PICK s \in Desks :
        \/ \E symbol \in Symbols : OpenResearch(s, symbol)
        \/ \E row \in DefaultRows : OpenListing(s, row)
        \/ LookUpDefault(s) \/ InsertDefault(s) \/ CommitListing(s)
        \/ Retrieve(s) \/ CommitResearch(s)
        \/ \E raises \in BOOLEAN : CallModel(s, raises) \/ BacktestTool(s, raises)
        \/ \E study \in DOMAIN studies, document \in Documents : BeginAttach(s, study, document)
        \/ CommitAttach(s)
  BY DEF EvidenceNext, DefaultRows
<1>2. CASE \/ \E symbol \in Symbols : OpenResearch(s, symbol)
           \/ \E row \in DefaultRows : OpenListing(s, row)
  BY <1>2, OpenKeeps
<1>3. CASE LookUpDefault(s)
  BY <1>3, LookUpKeeps
<1>4. CASE InsertDefault(s)
  BY <1>4, InsertKeeps
<1>5. CASE CommitListing(s)
  BY <1>5, CommitListingKeeps
<1>6. CASE Retrieve(s)
  BY <1>6, RetrieveKeeps
<1>7. CASE CommitResearch(s)
  BY <1>7, CommitResearchKeeps
<1>8. CASE \E raises \in BOOLEAN : CallModel(s, raises) \/ BacktestTool(s, raises)
  BY <1>8, NodeKeeps
<1>9. CASE \E study \in DOMAIN studies, document \in Documents : BeginAttach(s, study, document)
  BY <1>9, BeginAttachKeeps
<1>10. CASE CommitAttach(s)
  BY <1>10, CommitAttachKeeps
<1> QED
  BY <1>1, <1>2, <1>3, <1>4, <1>5, <1>6, <1>7, <1>8, <1>9, <1>10

LEMMA EvidenceStutters ==
  ASSUME EvidenceInv, UNCHANGED evidenceVars
  PROVE  EvidenceInv'
<1>1. /\ UNCHANGED <<defaults, studies, usage, lessons, sources, attachments>> /\ desks' = desks
  BY DEF evidenceVars
<1>2. Committed' /\ Growing
  BY <1>1, Undisturbed DEF EvidenceInv
<1>3. ASSUME NEW s \in Desks
      PROVE  DeskHolds(desks[s])'
  <2>1. DeskHolds(desks[s])
    BY DEF EvidenceInv
  <2> QED
    BY <1>1, <2>1 DEF DeskHolds, AttachHolds, IsSession, ResearchHolds, LessonsKnown
<1>4. ASSUME NEW i \in DOMAIN studies
      PROVE  RoomLeft(i)'
  BY <1>1, RoomUnmoved DEF AttachedTo, Attaching, EvidenceInv
<1> QED
  BY <1>1, <1>2, <1>3, <1>4 DEF EvidenceInv

LEMMA EvidenceInvIsWhole == EvidenceInv => EvidenceIsWhole
<1> SUFFICES ASSUME EvidenceInv
             PROVE  EvidenceIsWhole
  OBVIOUS
<1>1. Committed
  BY DEF EvidenceInv
<1>2. DOMAIN studies \subseteq Nat
  BY <1>1, LenProperties DEF Committed
<1>3. \A x \in lessons : x.study \in DOMAIN studies /\ x = Lesson(x.study, studies[x.study].symbol)
  BY <1>1 DEF Committed, Lesson
<1>4. ASSUME NEW i \in DOMAIN studies
      PROVE  /\ {u.call : u \in {v \in usage : v.study = i}} = Models
             /\ {x \in lessons : x.study = i} = {Lesson(i, studies[i].symbol)}
             /\ \A x \in studies[i].retrieved :
                  x \in lessons /\ x.study < i /\ x.symbol = studies[i].symbol
             /\ AttachedTo(i) \subseteq sources
  <2>2. {u.call : u \in {v \in usage : v.study = i}} = Models
    <3> DEFINE spent == {v \in usage : v.study = i}
    <3>1. \A u \in spent : u.call \in Models
      BY <1>1 DEF Committed, UsageRow
    <3>2. \A c \in Models : [study |-> i, call |-> c] \in spent /\ [study |-> i, call |-> c].call = c
      BY <1>1, <1>2 DEF Committed, UsageRow
    <3> HIDE DEF spent
    <3>3. \A c \in Models : \E u \in spent : u.call = c
      BY <3>2
    <3>4. {u.call : u \in spent} = Models
      BY <3>1, <3>3
    <3> QED
      BY <3>4 DEF spent
  <2>3. {x \in lessons : x.study = i} = {Lesson(i, studies[i].symbol)}
    BY <1>1, <1>3 DEF Committed, Lesson
  <2>4. \A x \in studies[i].retrieved :
          x \in lessons /\ x.study < i /\ x.symbol = studies[i].symbol
    BY <1>1 DEF Committed, LessonsKnown
  <2>5. AttachedTo(i) \subseteq sources
    BY <1>1 DEF Committed, AttachedTo
  <2> QED
    BY <2>2, <2>3, <2>4, <2>5
<1>5. ASSUME NEW i \in DOMAIN studies
      PROVE  /\ Cardinality(AttachedTo(i)) <= MaxAttachments + (Cardinality(Desks) - 1)
             /\ BytesOf(AttachedTo(i)) <= MaxBytes + (Cardinality(Desks) - 1) * Largest.size
  <2> DEFINE n == Cardinality(Desks)
             a == Cardinality(AttachedTo(i))
             b == BytesOf(AttachedTo(i))
             c == Cardinality(Attaching(i))
             m == Largest.size
             room == (n - c) * m
             most == (n - 1) * m
  <2>1. /\ n \in Nat /\ a \in Nat /\ b \in Nat /\ c \in Nat /\ c <= n /\ m \in Nat
        /\ MaxAttachments \in Nat /\ MaxBytes \in Nat
    BY AttachedFacts, AttachingFacts, LargestFacts, EvidenceAssumption
  <2>2. RoomLeft(i)
    BY DEF EvidenceInv
  <2>3. a + c <= MaxAttachments + n - 1
    BY <2>2 DEF RoomLeft
  <2>4. b <= MaxBytes + most
    <3>1. CASE Attaching(i) = {}
      BY <2>2, <3>1 DEF RoomLeft
    <3>2. CASE Attaching(i) # {}
      <4>1. PICK w \in Attaching(i) : b + desks[w].document.size <= MaxBytes + room
        BY <2>2, <3>2 DEF RoomLeft, Slack
      <4>2. desks[w].document.size \in Nat
        BY <4>1, ServedHolds, LargestFacts DEF Attaching, AttachHolds
      <4>3. c # 0
        BY <3>2, AttachingFacts, FS_EmptySet
      <4>4. room \in Int /\ most \in Int /\ room <= most
        <5> DEFINE k == n - c
                   j == c - 1
        <5> HIDE DEF n, c, m
        <5>1. k \in Nat /\ j \in Nat /\ n - 1 = k + j
          BY <2>1, <4>3
        <5>2. room = k * m /\ most = (k + j) * m
          BY <5>1
        <5> HIDE DEF k, j, room, most
        <5>3. (k + j) * m = k * m + j * m /\ k * m \in Nat /\ j * m \in Nat
          BY <2>1, <5>1
        <5> QED
          BY <5>2, <5>3
      <4> HIDE DEF b, room, most
      <4> QED
        BY <2>1, <4>1, <4>2, <4>4
    <3> QED
      BY <3>1, <3>2
  <2> HIDE DEF a, n, c
  <2>5. a <= MaxAttachments + (n - 1)
    BY <2>1, <2>3
  <2> QED
    BY <2>4, <2>5 DEF a, n
<1>6. \A x \in lessons \cup usage : x.study \in DOMAIN studies
  BY <1>1, <1>3 DEF Committed
<1>7. \A d, e \in sources : d.content = e.content => d = e
  BY <1>1 DEF Committed
<1>8. studies # << >> => defaults = {"agent", "workflow"}
  BY <1>1 DEF Committed, DefaultRows
<1> QED
  BY <1>4, <1>5, <1>6, <1>7, <1>8 DEF EvidenceIsWhole, Largest

\* A study is complete or is not there, what is attached is stored and each study is over its

\* quota by no more than the sessions that overlapped could add, for any number of sessions,
\* any documents and any quota (run_research_experiment of research/service.py, create_lesson of
\* memory/service.py and attach of research_sources/service.py).
THEOREM EvidenceIsComplete == Spec => []EvidenceIsWhole
<1>1. Init => EvidenceInv
  BY EvidenceInitInv DEF Init
<1>2. EvidenceInv /\ [Next]_deskVars => EvidenceInv'
  <2>1. [Next]_deskVars => EvidenceNext \/ UNCHANGED evidenceVars
    <3>1. CASE UNCHANGED deskVars
      BY <3>1 DEF deskVars
    <3>2. CASE Next
      BY <3>2 DEF Next, AskSplits, AskReleases, AskSignals, AskPortfolio, AskRegimes, AskSearch,
         AskFactor, AskWeights, AskRouting, AskStress, Answered, Evolve, Simulation, Promote,
         Research
    <3> QED
      BY <3>1, <3>2
  <2> QED
    BY <2>1, EvidenceNextKeeps, EvidenceStutters
<1>3. EvidenceInv => EvidenceIsWhole
  BY EvidenceInvIsWhole
<1> QED
  BY <1>1, <1>2, <1>3, PTL DEF Spec

-----------------------------------------------------------------------------
(* The test split of a campaign *)

IsDated(period) == period.start \in Int /\ period.end \in Int

\* the answer is the split of its question, and the windows of that split
SplitIsAnswered ==
  Asked("splits") =>
    /\ question \in Questions["splits"]
    /\ LET split == BuildSplit(question.start, question.end, question.given)
       IN  answer = [split |-> split,
                     windows |-> IF split = None THEN {}
                                 ELSE CampaignWindows(question.start, split, question.longWindow)]

\* An accepted split has its periods in order, within the campaign, and none of them is empty.

LEMMA SplitInOrder ==
  ASSUME NEW q \in Questions["splits"], NEW split,
         split = BuildSplit(q.start, q.end, q.given), split # None
  PROVE  /\ IsDated(split.train) /\ IsDated(split.validation) /\ IsDated(split.test)
         /\ q.start <= split.train.start /\ split.train.start < split.train.end
         /\ split.train.end <= split.validation.start
         /\ split.validation.start < split.validation.end
         /\ split.validation.end <= split.test.start /\ split.test.start < split.test.end
<1>1. q.start \in Int /\ q.end \in Int
  BY SplitsAssumption
<1>2. split = (IF q.given # None THEN q.given ELSE DefaultSplit(q.start, q.end))
  BY DEF BuildSplit
<1>3. ValidSplit(split, q.start, q.end)
  BY <1>2 DEF BuildSplit
<1>4. IsDated(split.train) /\ IsDated(split.validation) /\ IsDated(split.test)
  <2>1. CASE q.given # None
    BY <1>2, <2>1, SplitsAssumption DEF IsDated
  <2>2. CASE q.given = None
    BY <1>1, <1>2, <2>2 DEF DefaultSplit, Period, Larger, IsDated
  <2> QED
    BY <2>1, <2>2
<1> QED
  BY <1>3, <1>4 DEF ValidSplit

\* Windows of a campaign end by the end of its validation, and each starts a step after the

\* one before it, which is no shorter than what it tests.
LEMMA WindowsInOrder ==
  ASSUME NEW start \in Int, NEW split, split.validation.end \in Int, start < split.validation.end,
         NEW longWindow \in Nat
  PROVE  \E step \in Nat, span \in Nat :
           /\ step > longWindow /\ span > longWindow
           /\ \A w \in CampaignWindows(start, split, longWindow) :
                /\ \E i \in 0 .. 2 :
                     /\ w.train.start = start + i * step
                     /\ w = [train |-> Period(start + i * step, start + i * step + span),
                             test  |-> Period(start + i * step + span, start + i * step + span + step)]
                /\ w.test.end <= split.validation.end
<1> DEFINE total == split.validation.end - start
           step == Larger(longWindow + 1, total \div 4)
           span == Larger(longWindow + 1, step)
<1>1. total \div 4 \in Int
  OBVIOUS
<1>2. step \in Nat /\ step > longWindow
  BY <1>1 DEF Larger
<1>3. span \in Nat /\ span > longWindow
  BY <1>2 DEF Larger
<1>4. ASSUME NEW w \in CampaignWindows(start, split, longWindow)
      PROVE  /\ \E i \in 0 .. 2 :
                  w = [train |-> Period(start + i * step, start + i * step + span),
                       test  |-> Period(start + i * step + span, start + i * step + span + step)]
             /\ w.test.end <= split.validation.end
  BY <1>4 DEF CampaignWindows, BuildWindows
<1> HIDE DEF step, span
<1>5. ASSUME NEW w \in CampaignWindows(start, split, longWindow)
      PROVE  \E i \in 0 .. 2 :
               /\ w.train.start = start + i * step
               /\ w = [train |-> Period(start + i * step, start + i * step + span),
                       test  |-> Period(start + i * step + span, start + i * step + span + step)]
  BY <1>4, <1>5 DEF Period
<1> QED
  BY <1>2, <1>3, <1>4, <1>5

LEMMA DaysOfPeriod ==
  ASSUME NEW from \in Int, NEW length \in Nat
  PROVE  Cardinality(from .. (from + length - 1)) = length
<1>1. /\ from + length - 1 \in Int
      /\ IF from > from + length - 1 THEN length = 0 ELSE (from + length - 1) - from + 1 = length
  OBVIOUS
<1> QED
  BY <1>1, FS_Interval

LEMMA AnsweredSplitsLockTest == SplitIsAnswered => TestStaysLocked
<1> SUFFICES ASSUME SplitIsAnswered, Asked("splits"), answer.split # None
             PROVE  TestStaysLocked
  BY DEF TestStaysLocked
<1> DEFINE split == answer.split
           first == question.start
           observed == {row \in {[at |-> d, available |-> d + early, target |-> d + ahead] :
                                  d \in question.start .. question.end, early \in -1..1, ahead \in 0..1} :
                          PointInTime(row)}
           Days(period) == period.start .. (period.end - 1)
<1>1. /\ question \in Questions["splits"]
      /\ split = BuildSplit(question.start, question.end, question.given)
      /\ answer.windows = CampaignWindows(first, split, question.longWindow)
  BY DEF SplitIsAnswered
<1>2. first \in Int /\ question.longWindow \in Nat
  BY <1>1, SplitsAssumption
<1>3. /\ IsDated(split.train) /\ IsDated(split.validation) /\ IsDated(split.test)
      /\ first <= split.train.start /\ split.train.start < split.train.end
      /\ split.train.end <= split.validation.start
      /\ split.validation.start < split.validation.end
      /\ split.validation.end <= split.test.start /\ split.test.start < split.test.end
  <2> HIDE DEF split
  <2>1. split # None
    BY DEF split
  <2> QED
    BY <1>1, <2>1, SplitInOrder
<1>4. \A row \in observed : row.at \in Int /\ row.available \in Int /\ row.available <= row.at
  <2>1. question.end \in Int
    BY <1>1, SplitsAssumption
  <2> QED
    BY <1>2, <2>1 DEF PointInTime
<1> HIDE DEF split, observed
<1>5. TrainingRows(observed, split) \cap
        (InPeriod(observed, split.validation) \cup InPeriod(observed, split.test)) = {}
  BY <1>3, <1>4 DEF TrainingRows, InPeriod, IsDated
<1>6. \A row \in TrainingRows(observed, split) : row.available < split.validation.start
  BY <1>3, <1>4 DEF TrainingRows, InPeriod, IsDated
<1>7. PICK step \in Nat, span \in Nat :
        /\ step > question.longWindow /\ span > question.longWindow
        /\ \A w \in answer.windows :
             /\ \E i \in 0 .. 2 :
                  /\ w.train.start = first + i * step
                  /\ w = [train |-> Period(first + i * step, first + i * step + span),
                          test  |-> Period(first + i * step + span, first + i * step + span + step)]
             /\ w.test.end <= split.validation.end
  <2>1. first < split.validation.end /\ split.validation.end \in Int
    BY <1>2, <1>3 DEF IsDated
  <2> HIDE DEF first
  <2>2. \E step \in Nat, span \in Nat :
           /\ step > question.longWindow /\ span > question.longWindow
           /\ \A w \in CampaignWindows(first, split, question.longWindow) :
                /\ \E i \in 0 .. 2 :
                     /\ w.train.start = first + i * step
                     /\ w = [train |-> Period(first + i * step, first + i * step + span),
                             test  |-> Period(first + i * step + span, first + i * step + span + step)]
                /\ w.test.end <= split.validation.end
    BY ONLY <1>2, <2>1, WindowsInOrder
  <2> QED
    BY <1>1, <2>2
<1>8. ASSUME NEW w \in answer.windows
      PROVE  \E i \in 0 .. 2, from \in Int :
               /\ from = first + i * step
               /\ w.train.start = from /\ w.train.end = from + span
               /\ w.test.start = from + span /\ w.test.end = from + span + step
               /\ from + span + step <= split.validation.end
  <2>1. PICK i \in 0 .. 2 :
          w = [train |-> Period(first + i * step, first + i * step + span),
               test  |-> Period(first + i * step + span, first + i * step + span + step)]
    BY <1>7
  <2>2. PICK from : from = first + i * step
    OBVIOUS
  <2>3. from \in Int
    BY <1>2, <2>2
  <2>4. w = [train |-> Period(from, from + span), test |-> Period(from + span, from + span + step)]
    BY <2>1, <2>2
  <2>5. /\ w.train.start = from /\ w.train.end = from + span
        /\ w.test.start = from + span /\ w.test.end = from + span + step
    BY <2>4 DEF Period
  <2> QED
    BY <1>7, <2>2, <2>3, <2>5
<1>9. ASSUME NEW w \in answer.windows
      PROVE  /\ (Days(w.train) \cup Days(w.test)) \cap Days(split.test) = {}
             /\ w.train.end = w.test.start /\ first <= w.train.start
             /\ Cardinality(Days(w.train)) > question.longWindow
             /\ Cardinality(Days(w.test)) > question.longWindow
  <2>1. PICK i \in 0 .. 2, from \in Int :
          /\ from = first + i * step
          /\ w.train.start = from /\ w.train.end = from + span
          /\ w.test.start = from + span /\ w.test.end = from + span + step
          /\ from + span + step <= split.validation.end
    BY <1>8
  <2>2. i * step \in Nat
    OBVIOUS
  <2>3. first <= from
    BY <1>2, <2>1, <2>2
  <2>4. (Days(w.train) \cup Days(w.test)) \cap Days(split.test) = {}
    BY <1>3, <2>1 DEF IsDated
  <2>5. Cardinality(Days(w.train)) = span
    BY <2>1, DaysOfPeriod
  <2>6. Cardinality(Days(w.test)) = step
    <3>1. from + span \in Int /\ w.test.start = from + span /\ w.test.end = (from + span) + step
      BY <2>1
    <3> QED
      BY <3>1, DaysOfPeriod
  <2> QED
    BY <1>7, <2>1, <2>3, <2>4, <2>5, <2>6
<1>10. ASSUME NEW w \in answer.windows, NEW v \in answer.windows \ {w}
       PROVE  Days(v.test) \cap Days(w.test) = {}
  <2>1. PICK i \in 0 .. 2, a \in Int :
          /\ a = first + i * step
          /\ w.test.start = a + span /\ w.test.end = a + span + step
    BY <1>8
  <2>2. PICK j \in 0 .. 2, b \in Int :
          /\ b = first + j * step
          /\ v.test.start = b + span /\ v.test.end = b + span + step
    BY <1>8
  <2>3. i # j
    <3> SUFFICES ASSUME i = j
                 PROVE  v = w
      OBVIOUS
    <3> QED
      BY <1>7, <1>8, <2>1, <2>2
  <2>4. a + step <= b \/ b + step <= a
    BY <1>2, <2>1, <2>2, <2>3
  <2> QED
    BY <2>1, <2>2, <2>4
<1> QED
  BY <1>5, <1>6, <1>9, <1>10 DEF TestStaysLocked, split, observed

\* The test period of an accepted campaign is out of reach of its training, its validation and

\* its walk-forward windows, which are long enough and test no day twice, for any dates, split
\* and long window (build_temporal_split of campaigns/splits.py and build_walk_forward_windows of
\* campaigns/walk_forward.py).
THEOREM TestIsLocked == Spec => []TestStaysLocked
<1>1. Init => SplitIsAnswered
  BY DEF Init, SplitIsAnswered, Asked
<1>2. SplitIsAnswered /\ [Next]_deskVars => SplitIsAnswered'
  <2> SUFFICES ASSUME SplitIsAnswered, [Next]_deskVars
               PROVE  SplitIsAnswered'
    OBVIOUS
  <2>1. CASE UNCHANGED <<topic, question, answer>>
    BY <2>1 DEF SplitIsAnswered, Asked
  <2>2. CASE AskSplits
    BY <2>2 DEF AskSplits, Answered, SplitIsAnswered
  <2>3. CASE topic # "splits" /\ topic' = topic
    BY <2>3 DEF SplitIsAnswered, Asked
  <2>4. UNCHANGED <<topic, question, answer>> \/ AskSplits \/ (topic # "splits" /\ topic' = topic)
    <3>1. CASE UNCHANGED deskVars
      BY <3>1 DEF deskVars
    <3>2. CASE Next
      BY <3>2 DEF Next, AskReleases, AskSignals, AskPortfolio, AskRegimes, AskSearch,
         AskFactor, AskWeights, AskRouting, AskStress, Asks, Answered, Evolve, Simulation,
         Promote, Research
    <3> QED
      BY <3>1, <3>2
  <2> QED
    BY <2>1, <2>2, <2>3, <2>4
<1>3. SplitIsAnswered => TestStaysLocked
  BY AnsweredSplitsLockTest
<1> QED
  BY <1>1, <1>2, <1>3, PTL DEF Spec

-----------------------------------------------------------------------------
(* The champions of a simulation.  Whoever was eligible once is at the next *)
(* choice, so what is chosen then is the champion again or better; and what *)
(* was deployed before it, if listed once, was worse.                       *)

Candidate == [version : Int, sharpe : Int, promoted : BOOLEAN, asOf : Int]

Dates == [start : Int, end : Int]

Rows == [research : Dates, deployment : Dates, session : Dates, champion : Candidate,
         lifecycle : {"ACTIVE", "REPLACED"}, flagged : BOOLEAN]

Events == [version : Int, state : {"PROMOTED", "ACTIVE", "RETIRED"}, at : Int]

ListedOnce == \A c, d \in Manifest(request) : c.version = d.version => c = d

EventsOf(version, state) ==
  {i \in DOMAIN lifecycle : lifecycle[i].version = version /\ lifecycle[i].state = state}

\* when the deployed version was chosen
ChosenAt == IF timeline = << >> THEN request.start ELSE timeline[Len(timeline)].research.end

VersionHolds(v) ==
  /\ \E i \in DOMAIN lifecycle : EventsOf(v, "PROMOTED") = {i}
  /\ EventsOf(v, "RETIRED") = {} <=> v = deployed.version
  /\ \A i \in EventsOf(v, "RETIRED"), j \in EventsOf(v, "ACTIVE") : j < i
  /\ \E c \in Manifest(request) :
       c.version = v /\ (c.version = deployed.version \/ c.sharpe < deployed.sharpe)

CycleHolds(cycle) ==
  /\ cycle.champion \in Eligible(request, cycle.research.end)
  /\ cycle.research.end = cycle.research.start + request.research
  /\ cycle.deployment.start = cycle.research.end
  /\ cycle.deployment.end <= cycle.deployment.start + request.deployment

FollowHolds(previous, cycle) ==
  /\ ~(previous.flagged /\ request.stop)
  /\ previous.champion.sharpe <= cycle.champion.sharpe
  /\ cycle.champion.version # previous.champion.version =>
       previous.champion.sharpe < cycle.champion.sharpe
  /\ cycle.research.start = previous.research.start + request.cadence

SimulationInv ==
  /\ request \in Requests /\ cursor \in Nat
  /\ lifecycle \in Seq(Events) /\ timeline \in Seq(Rows)
  /\ deployed \in Eligible(request, ChosenAt)
  /\ \A i \in DOMAIN timeline : CycleHolds(timeline[i])
  /\ \A i \in DOMAIN timeline : i > 1 => FollowHolds(timeline[i - 1], timeline[i])
  /\ timeline # << >> => timeline[Len(timeline)].champion = deployed
  /\ simulation = "RUNNING" =>
       IF timeline = << >> THEN cursor = request.start
       ELSE /\ cursor = timeline[Len(timeline)].research.start + request.cadence
            /\ ~(timeline[Len(timeline)].flagged /\ request.stop)
  /\ \E i \in DOMAIN lifecycle : lifecycle[i].version = deployed.version
  /\ ListedOnce => \A i \in DOMAIN lifecycle : VersionHolds(lifecycle[i].version)

\* Of finitely many things ordered by R, one is exceeded by none.

LEMMA Unexceeded ==
  ASSUME NEW E, IsFiniteSet(E), E # {}, NEW R,
         \A a \in E : <<a, a>> \notin R,
         \A a, b, c \in E : <<a, b>> \in R /\ <<b, c>> \in R => <<a, c>> \in R
  PROVE  \E m \in E : \A o \in E : <<o, m>> \notin R
<1> DEFINE Above(c) == {o \in E : <<o, c>> \in R}
           above == [c \in E |-> Cardinality(Above(c))]
           counts == {above[c] : c \in E}
<1>1. \A c \in E : IsFiniteSet(Above(c)) /\ above[c] = Cardinality(Above(c)) /\ above[c] \in Nat
  BY FS_Subset, FS_CardinalityType
<1>2. \A c \in E : above[c] \in Nat
  BY <1>1
<1> HIDE DEF above
<1>3. counts \in SUBSET Nat /\ counts # {}
  <2>1. PICK c \in E : TRUE
    OBVIOUS
  <2> QED
    BY ONLY <1>2, <2>1
<1>4. PICK n \in counts : \A k \in counts : n <= k
  BY ONLY <1>3, LeastNumber
<1>5. PICK m \in E : n = above[m]
  BY <1>4
<1>6. ASSUME NEW o \in E, <<o, m>> \in R
      PROVE  FALSE
  <2>1. Above(o) \in SUBSET Above(m) /\ o \in Above(m) /\ o \notin Above(o)
    BY <1>5, <1>6
  <2>2. above[o] <= above[m] /\ above[o] # above[m]
    <3> HIDE DEF Above
    <3> QED
      BY <1>1, <1>5, <2>1, FS_Subset
  <2>3. n <= above[o]
    BY <1>4
  <2> QED
    BY ONLY <1>2, <1>5, <2>2, <2>3, m \in E, o \in E
<1> QED
  BY <1>5, <1>6

LEMMA ManifestFacts ==
  ASSUME NEW r \in Requests
  PROVE  /\ Manifest(r) \subseteq Candidate /\ IsFiniteSet(Manifest(r))
         /\ r.start \in Nat /\ r.end \in Int
         /\ r.research \in Nat /\ r.deployment \in Nat /\ r.cadence \in Nat
<1>1. IsFiniteSet(r.candidates)
  BY RequestsAssumption
<1>2. IsFiniteSet(Manifest(r))
  BY <1>1, FS_AddElement DEF Manifest
<1>3. r.candidates \subseteq Candidate /\ BaseVersion \in Int
  BY RequestsAssumption DEF Candidate
<1>4. [version |-> BaseVersion, sharpe |-> 0, promoted |-> TRUE, asOf |-> 0] \in Candidate
  BY <1>3 DEF Candidate
<1>5. Manifest(r) \subseteq Candidate
  BY <1>3, <1>4 DEF Manifest
<1> QED
  BY <1>2, <1>5, RequestsAssumption

\* Some candidate is always eligible, the version of the request, and one is the best.

LEMMA SelectionExists ==
  ASSUME NEW r \in Requests, NEW current, NEW at \in Nat
  PROVE  /\ SelectCandidate(r, current, at) \in Eligible(r, at)
         /\ \A o \in Eligible(r, at) : Better(SelectCandidate(r, current, at), o, current)
<1> DEFINE E == Eligible(r, at)
           Exceeds(c, o) ==
             \/ c.sharpe > o.sharpe
             \/ /\ c.sharpe = o.sharpe
                /\ \/ c.version = current /\ o.version # current
                   \/ (c.version = current <=> o.version = current) /\ c.version > o.version
           R == {p \in E \X E : Exceeds(p[1], p[2])}
<1>1. Manifest(r) \subseteq Candidate /\ IsFiniteSet(Manifest(r))
  BY ManifestFacts
<1>2. E \subseteq Candidate /\ IsFiniteSet(E)
  BY <1>1, FS_Subset DEF Eligible
<1>3. E # {}
  <2>1. [version |-> BaseVersion, sharpe |-> 0, promoted |-> TRUE, asOf |-> 0] \in E
    BY DEF Eligible, Manifest
  <2> QED
    BY <2>1
<1>4. \A c \in E : c.sharpe \in Int /\ c.version \in Int
  BY <1>2 DEF Candidate
<1> HIDE DEF E
<1>5. \A a \in E : <<a, a>> \notin R
  BY <1>4
<1>6. \A a, b, c \in E : <<a, b>> \in R /\ <<b, c>> \in R => <<a, c>> \in R
  <2> SUFFICES ASSUME NEW a \in E, NEW b \in E, NEW c \in E, Exceeds(a, b), Exceeds(b, c)
               PROVE  Exceeds(a, c)
    OBVIOUS
  <2> QED
    BY <1>4
<1>7. PICK m \in E : \A o \in E : <<o, m>> \notin R
  <2> HIDE DEF R
  <2> QED
    BY <1>2, <1>3, <1>5, <1>6, Unexceeded
<1>8. \A o \in E : Better(m, o, current)
  <2> SUFFICES ASSUME NEW o \in E
               PROVE  Better(m, o, current)
    OBVIOUS
  <2>1. ~Exceeds(o, m)
    BY <1>7
  <2> QED
    BY <1>4, <2>1 DEF Better
<1> QED
  BY <1>7, <1>8 DEF SelectCandidate, E

LEMMA SimulationInitInv == Init => SimulationInv
<1> SUFFICES ASSUME Init
             PROVE  SimulationInv
  OBVIOUS
<1>1. /\ request \in Requests /\ cursor = request.start
      /\ deployed = SelectCandidate(request, BaseVersion, request.start)
      /\ lifecycle = <<Event(deployed.version, "PROMOTED", request.start)>>
      /\ timeline = << >>
  BY DEF Init, SimulationInit
<1>2. request.start \in Nat /\ Manifest(request) \subseteq Candidate
  BY <1>1, ManifestFacts
<1>3. deployed \in Eligible(request, request.start)
  BY <1>1, <1>2, SelectionExists
<1>4. deployed \in Manifest(request) /\ deployed.version \in Int
  BY <1>2, <1>3 DEF Eligible, Candidate
<1>5. PICK e : e = Event(deployed.version, "PROMOTED", request.start)
  OBVIOUS
<1>6. e \in Events /\ e.version = deployed.version /\ e.state = "PROMOTED"
  BY <1>2, <1>4, <1>5 DEF Event, Events
<1>7. lifecycle \in Seq(Events) /\ DOMAIN lifecycle = {1} /\ lifecycle[1] = e
  BY <1>1, <1>5, <1>6
<1>8. ChosenAt = request.start /\ timeline \in Seq(Rows) /\ DOMAIN timeline = {}
  BY <1>1 DEF ChosenAt
<1>9. VersionHolds(e.version)
  <2>1. EventsOf(e.version, "PROMOTED") = {1} /\ EventsOf(e.version, "RETIRED") = {}
    BY <1>6, <1>7 DEF EventsOf
  <2> QED
    BY <1>4, <1>6, <1>7, <2>1 DEF VersionHolds
<1> QED
  BY <1>1, <1>2, <1>3, <1>6, <1>7, <1>8, <1>9 DEF SimulationInv

\* The champion of a cycle is the one before it, or is expected to do better.

LEMMA ChampionRises ==
  ASSUME SimulationInv, simulation = "RUNNING", NEW next,
         next = SelectCandidate(request, deployed.version, ResearchEnd)
  PROVE  /\ next \in Eligible(request, ResearchEnd) /\ next \in Candidate
         /\ deployed \in Eligible(request, ResearchEnd) /\ deployed \in Candidate
         /\ deployed.sharpe <= next.sharpe
         /\ next.version # deployed.version => deployed.sharpe < next.sharpe
<1>1. request \in Requests /\ cursor \in Nat /\ deployed \in Eligible(request, ChosenAt)
  BY DEF SimulationInv
<1>2. Manifest(request) \subseteq Candidate /\ request.start \in Nat /\ request.research \in Nat
      /\ request.cadence \in Nat
  BY <1>1, ManifestFacts
<1>3. ResearchEnd \in Nat /\ ResearchEnd = cursor + request.research
  BY <1>1, <1>2 DEF ResearchEnd
<1>4. /\ next \in Eligible(request, ResearchEnd)
      /\ \A o \in Eligible(request, ResearchEnd) : Better(next, o, deployed.version)
  BY <1>1, <1>3, SelectionExists
<1>5. ChosenAt \in Int /\ ChosenAt <= ResearchEnd
  <2>1. CASE timeline = << >>
    BY <1>2, <1>3, <2>1 DEF SimulationInv, ChosenAt
  <2>2. CASE timeline # << >>
    <3>1. PICK last : last = timeline[Len(timeline)]
      OBVIOUS
    <3>2. Len(timeline) \in DOMAIN timeline /\ last \in Rows
      BY <2>2, <3>1, EmptySeq, LenProperties, ElementOfSeq DEF SimulationInv
    <3>3. CycleHolds(last) /\ cursor = last.research.start + request.cadence
      BY <2>2, <3>1, <3>2 DEF SimulationInv
    <3>4. last.research.start \in Int /\ last.research.end \in Int
      BY <3>2 DEF Rows, Dates
    <3> QED
      BY <1>2, <1>3, <2>2, <3>1, <3>3, <3>4 DEF CycleHolds, ChosenAt
  <2> QED
    BY <2>1, <2>2
<1>6. deployed \in Eligible(request, ResearchEnd) /\ deployed \in Candidate /\ next \in Candidate
  BY <1>1, <1>2, <1>3, <1>4, <1>5 DEF Eligible, Candidate
<1>7. Better(next, deployed, deployed.version)
  BY <1>4, <1>6
<1> QED
  BY <1>4, <1>6, <1>7 DEF Better, Candidate

\* A cycle is appended to the timeline, and what it leaves is in order with the one before it.

LEMMA TimelineGrows ==
  ASSUME SimulationInv, Cycle
  PROVE  /\ timeline' \in Seq(Rows) /\ cursor' \in Nat /\ timeline' # << >>
         /\ \A i \in DOMAIN timeline' : CycleHolds(timeline[i])'
         /\ \A i \in DOMAIN timeline' : i > 1 => FollowHolds(timeline[i - 1], timeline[i])'
         /\ timeline'[Len(timeline')].champion = deployed'
         /\ deployed' \in Eligible(request, ChosenAt')
         /\ simulation' = "RUNNING" =>
              /\ cursor' = timeline'[Len(timeline')].research.start + request.cadence
              /\ ~(timeline'[Len(timeline')].flagged /\ request.stop)
<1>1. PICK next : next = SelectCandidate(request, deployed.version, ResearchEnd)
  OBVIOUS
<1>2. PICK drawdown \in BOOLEAN :
        /\ timeline' = Append(timeline,
                [research  |-> Period(cursor, ResearchEnd), deployment |-> Deployment,
                 session   |-> Period(cursor, Deployment.end),
                 champion  |-> next,
                 lifecycle |-> IF next.version = deployed.version THEN "ACTIVE" ELSE "REPLACED",
                 flagged   |-> drawdown])
        /\ IF drawdown /\ request.stop
             THEN simulation' = "COMPLETED" /\ UNCHANGED cursor
             ELSE cursor' = cursor + request.cadence /\ UNCHANGED simulation
  BY <1>1 DEF Cycle
<1>3. simulation = "RUNNING" /\ deployed' = next /\ request' = request
  BY <1>1 DEF Cycle
<1>4. PICK row :
        row = [research  |-> Period(cursor, ResearchEnd), deployment |-> Deployment,
               session   |-> Period(cursor, Deployment.end),
               champion  |-> next,
               lifecycle |-> IF next.version = deployed.version THEN "ACTIVE" ELSE "REPLACED",
               flagged   |-> drawdown]
  OBVIOUS
<1>5. /\ request \in Requests /\ cursor \in Nat /\ timeline \in Seq(Rows)
      /\ timeline' = Append(timeline, row)
  BY <1>2, <1>4 DEF SimulationInv
<1>6. /\ request.end \in Int /\ request.start \in Nat /\ request.research \in Nat
      /\ request.deployment \in Nat /\ request.cadence \in Nat
  BY <1>5, ManifestFacts
<1>7. ResearchEnd \in Nat /\ ResearchEnd = cursor + request.research
  BY <1>5, <1>6 DEF ResearchEnd
<1>8. PICK dates : dates = Deployment
  OBVIOUS
<1>9. /\ dates \in Dates /\ dates.start = ResearchEnd
      /\ dates.end <= ResearchEnd + request.deployment
  BY <1>6, <1>7, <1>8 DEF Deployment, Period, Dates
<1>10. /\ next \in Eligible(request, ResearchEnd) /\ next \in Candidate
       /\ deployed.sharpe <= next.sharpe
       /\ next.version # deployed.version => deployed.sharpe < next.sharpe
  BY <1>1, <1>3, ChampionRises
<1>11. Period(cursor, ResearchEnd) \in Dates /\ Period(cursor, dates.end) \in Dates
  BY <1>5, <1>7, <1>9 DEF Period, Dates
<1>12. /\ row.research.start = cursor /\ row.research.end = ResearchEnd
       /\ row.deployment = dates /\ row.champion = next /\ row.flagged = drawdown
  BY <1>4, <1>8 DEF Period
<1>13. row \in Rows
  BY <1>4, <1>8, <1>9, <1>10, <1>11 DEF Rows
<1>14. CycleHolds(row)
  BY <1>7, <1>9, <1>10, <1>12 DEF CycleHolds
<1>15. /\ timeline' \in Seq(Rows) /\ timeline' # << >> /\ Len(timeline') = Len(timeline) + 1
       /\ timeline'[Len(timeline')] = row
       /\ \A i \in 1 .. Len(timeline) : timeline'[i] = timeline[i]
       /\ DOMAIN timeline = 1 .. Len(timeline) /\ DOMAIN timeline' = 1 .. (Len(timeline) + 1)
       /\ Len(timeline) \in Nat
  <2>1. Append(timeline, row) \in Seq(Rows)
    BY <1>5, <1>13, AppendProperties
  <2> QED
    BY <1>5, <1>13, <2>1, AppendProperties, LenProperties
<1>16. \A i \in DOMAIN timeline' : CycleHolds(timeline[i])'
  <2> SUFFICES ASSUME NEW i \in DOMAIN timeline'
               PROVE  CycleHolds(timeline[i])'
    OBVIOUS
  <2>1. CycleHolds(timeline'[i])
    <3>1. CASE i \in DOMAIN timeline
      BY <1>15, <3>1 DEF SimulationInv
    <3>2. CASE i = Len(timeline) + 1
      BY <1>14, <1>15, <3>2
    <3> QED
      BY <1>15, <3>1, <3>2
  <2> QED
    BY <1>3, <2>1 DEF CycleHolds
<1>17. timeline # << >> => FollowHolds(timeline[Len(timeline)], row)
  <2> SUFFICES ASSUME timeline # << >>
               PROVE  FollowHolds(timeline[Len(timeline)], row)
    OBVIOUS
  <2>1. /\ timeline[Len(timeline)].champion = deployed
        /\ cursor = timeline[Len(timeline)].research.start + request.cadence
        /\ ~(timeline[Len(timeline)].flagged /\ request.stop)
    BY <1>3 DEF SimulationInv
  <2> QED
    BY <1>10, <1>12, <2>1 DEF FollowHolds
<1>18. \A i \in DOMAIN timeline' : i > 1 => FollowHolds(timeline[i - 1], timeline[i])'
  <2> SUFFICES ASSUME NEW i \in DOMAIN timeline', i > 1
               PROVE  FollowHolds(timeline[i - 1], timeline[i])'
    OBVIOUS
  <2>1. FollowHolds(timeline'[i - 1], timeline'[i])
    <3>1. CASE i \in DOMAIN timeline
      <4>1. i - 1 \in DOMAIN timeline
        BY <1>15, <3>1
      <4> QED
        BY <1>15, <3>1, <4>1 DEF SimulationInv
    <3>2. CASE i = Len(timeline) + 1
      <4>1. i - 1 = Len(timeline) /\ Len(timeline) \in DOMAIN timeline /\ timeline # << >>
        BY <1>15, <3>2
      <4> QED
        BY <1>15, <1>17, <3>2, <4>1
    <3> QED
      BY <1>15, <3>1, <3>2
  <2> QED
    BY <1>3, <2>1 DEF FollowHolds
<1>19. deployed' \in Eligible(request, ChosenAt')
  <2>1. ChosenAt' = ResearchEnd
    BY <1>12, <1>15 DEF ChosenAt
  <2> QED
    BY <1>3, <1>10, <2>1
<1>20. cursor' \in Nat
  BY <1>2, <1>5, <1>6
<1>21. simulation' = "RUNNING" =>
         cursor' = cursor + request.cadence /\ ~(drawdown /\ request.stop)
  BY <1>2
<1> QED
  BY <1>3, <1>12, <1>15, <1>16, <1>18, <1>19, <1>20, <1>21

\* An active champion is noted; a new one first retires the one before it.

LEMMA LifecycleGrows ==
  ASSUME SimulationInv, Cycle
  PROVE  /\ lifecycle' \in Seq(Events) /\ Len(lifecycle) \in Nat
         /\ DOMAIN lifecycle = 1 .. Len(lifecycle) /\ DOMAIN lifecycle' = 1 .. Len(lifecycle')
         /\ \A i \in DOMAIN lifecycle : lifecycle'[i] = lifecycle[i]
         /\ IF deployed.version = deployed'.version
              THEN /\ Len(lifecycle') = Len(lifecycle) + 1
                   /\ lifecycle'[Len(lifecycle) + 1].version = deployed'.version
                   /\ lifecycle'[Len(lifecycle) + 1].state = "ACTIVE"
              ELSE /\ Len(lifecycle') = Len(lifecycle) + 3
                   /\ lifecycle'[Len(lifecycle) + 1].version = deployed.version
                   /\ lifecycle'[Len(lifecycle) + 1].state = "RETIRED"
                   /\ lifecycle'[Len(lifecycle) + 2].version = deployed'.version
                   /\ lifecycle'[Len(lifecycle) + 2].state = "PROMOTED"
                   /\ lifecycle'[Len(lifecycle) + 3].version = deployed'.version
                   /\ lifecycle'[Len(lifecycle) + 3].state = "ACTIVE"
<1>1. PICK next : next = SelectCandidate(request, deployed.version, ResearchEnd)
  OBVIOUS
<1>2. /\ simulation = "RUNNING" /\ deployed' = next
      /\ lifecycle' = lifecycle \o Handover(deployed, next, ResearchEnd)
                             \o <<Event(next.version, "ACTIVE", Deployment.start)>>
  BY <1>1 DEF Cycle
<1>3. /\ next \in Candidate /\ deployed \in Candidate
  BY <1>1, <1>2, ChampionRises
<1>4. ResearchEnd \in Int
  BY ManifestFacts DEF SimulationInv, ResearchEnd
<1>5. PICK a, b, c : /\ a = Event(deployed.version, "RETIRED", ResearchEnd)
                     /\ b = Event(next.version, "PROMOTED", ResearchEnd)
                     /\ c = Event(next.version, "ACTIVE", Deployment.start)
  OBVIOUS
<1>6. /\ a \in Events /\ b \in Events /\ c \in Events
      /\ a.version = deployed.version /\ a.state = "RETIRED"
      /\ b.version = next.version /\ b.state = "PROMOTED"
      /\ c.version = next.version /\ c.state = "ACTIVE"
  BY <1>3, <1>4, <1>5 DEF Event, Events, Candidate, Deployment, Period
<1>7. PICK n \in Nat : n = Len(lifecycle)
  BY LenProperties DEF SimulationInv
<1>8. lifecycle \in Seq(Events) /\ DOMAIN lifecycle = 1 .. n
  BY <1>7, LenProperties DEF SimulationInv
<1>9. PICK added : added = IF deployed.version = next.version THEN <<c>> ELSE <<a, b>> \o <<c>>
  OBVIOUS
<1>10. /\ added \in Seq(Events)
       /\ deployed.version = next.version => Len(added) = 1 /\ added[1] = c
       /\ deployed.version # next.version =>
            Len(added) = 3 /\ added[1] = a /\ added[2] = b /\ added[3] = c
  <2>1. /\ <<a, b>> \in Seq(Events) /\ Len(<<a, b>>) = 2 /\ <<a, b>>[1] = a /\ <<a, b>>[2] = b
        /\ <<c>> \in Seq(Events) /\ Len(<<c>>) = 1 /\ <<c>>[1] = c
    BY <1>6
  <2>2. PICK abc : abc = <<a, b>> \o <<c>>
    OBVIOUS
  <2>3. /\ abc \in Seq(Events) /\ Len(abc) = 3
        /\ \A i \in 1 .. 3 : abc[i] = IF i <= 2 THEN <<a, b>>[i] ELSE <<c>>[i - 2]
    BY <2>1, <2>2, ConcatProperties
  <2>4. abc[1] = a /\ abc[2] = b /\ abc[3] = c
    BY <2>1, <2>3
  <2> QED
    BY <1>9, <2>1, <2>2, <2>3, <2>4
<1>11. lifecycle' = lifecycle \o added
  <2>1. CASE deployed.version = next.version
    <3>1. lifecycle \o << >> = lifecycle
      BY <1>8, ConcatEmptySeq
    <3> QED
      BY <1>2, <1>5, <1>9, <2>1, <3>1 DEF Handover
  <2>2. CASE deployed.version # next.version
    <3>1. <<a, b>> \in Seq(Events) /\ <<c>> \in Seq(Events)
      BY <1>6
    <3>2. (lifecycle \o <<a, b>>) \o <<c>> = lifecycle \o (<<a, b>> \o <<c>>)
      BY <1>8, <3>1, ConcatAssociative
    <3> QED
      BY <1>2, <1>5, <1>9, <2>2, <3>2 DEF Handover
  <2> QED
    BY <2>1, <2>2
<1>12. /\ lifecycle' \in Seq(Events) /\ Len(lifecycle') = n + Len(added)
       /\ \A i \in 1 .. n + Len(added) : lifecycle'[i] = IF i <= n THEN lifecycle[i] ELSE added[i - n]
  BY <1>7, <1>8, <1>10, <1>11, ConcatProperties
<1>13. DOMAIN lifecycle' = 1 .. Len(lifecycle')
  BY <1>12, LenProperties
<1>14. \A i \in DOMAIN lifecycle : lifecycle'[i] = lifecycle[i]
  BY <1>8, <1>10, <1>12
<1>15. CASE deployed.version = next.version
  <2>1. lifecycle'[n + 1] = c
    <3>1. Len(added) = 1 /\ added[1] = c
      BY <1>10, <1>15
    <3>2. n + 1 \in 1 .. n + Len(added) /\ ~(n + 1 <= n) /\ (n + 1) - n = 1
      BY <3>1
    <3> QED
      BY <1>12, <3>1, <3>2
  <2> QED
    BY <1>2, <1>6, <1>7, <1>8, <1>10, <1>12, <1>13, <1>14, <1>15, <2>1
<1>16. CASE deployed.version # next.version
  <2>1. lifecycle'[n + 1] = a /\ lifecycle'[n + 2] = b /\ lifecycle'[n + 3] = c
    <3>1. Len(added) = 3 /\ added[1] = a /\ added[2] = b /\ added[3] = c
      BY <1>10, <1>16
    <3>2. \A k \in 1 .. 3 : n + k \in 1 .. n + Len(added) /\ ~(n + k <= n) /\ (n + k) - n = k
      BY <3>1
    <3>3. \A k \in 1 .. 3 : lifecycle'[n + k] = added[k]
      BY <1>12, <3>2
    <3> QED
      BY <3>1, <3>3
  <2> QED
    BY <1>2, <1>6, <1>7, <1>8, <1>10, <1>12, <1>13, <1>14, <1>16, <2>1
<1> QED
  BY <1>15, <1>16

\* The champion before a better one was the only version not retired, and the better one, listed

\* once and so never deployed before, is the only one after.
LEMMA TitlesKeep ==
  ASSUME SimulationInv, Cycle
  PROVE  /\ \E i \in DOMAIN lifecycle' : lifecycle'[i].version = deployed'.version
         /\ ListedOnce' => \A i \in DOMAIN lifecycle' : VersionHolds(lifecycle[i].version)'
<1>1. PICK next : next = SelectCandidate(request, deployed.version, ResearchEnd)
  OBVIOUS
<1>2. simulation = "RUNNING" /\ deployed' = next /\ request' = request
  BY <1>1 DEF Cycle
<1>3. /\ next \in Manifest(request) /\ next \in Candidate
      /\ deployed \in Manifest(request) /\ deployed \in Candidate
      /\ deployed.sharpe <= next.sharpe
      /\ next.version # deployed.version => deployed.sharpe < next.sharpe
  <2>1. /\ next \in Eligible(request, ResearchEnd) /\ next \in Candidate
        /\ deployed \in Eligible(request, ResearchEnd) /\ deployed \in Candidate
        /\ deployed.sharpe <= next.sharpe
        /\ next.version # deployed.version => deployed.sharpe < next.sharpe
    BY <1>1, <1>2, ChampionRises
  <2>2. Eligible(request, ResearchEnd) \subseteq Manifest(request)
    BY DEF Eligible
  <2> QED
    BY <2>1, <2>2
<1>4. PICK n \in Nat : n = Len(lifecycle)
  <2>1. Len(lifecycle) \in Nat
    BY ZenonT(30), LifecycleGrows
  <2> QED
    BY <2>1
<1>5. /\ DOMAIN lifecycle = 1 .. n /\ DOMAIN lifecycle' = 1 .. Len(lifecycle')
      /\ \A i \in DOMAIN lifecycle : lifecycle'[i] = lifecycle[i]
  BY <1>4, LifecycleGrows
<1>6. \A i \in DOMAIN lifecycle : i \in Nat /\ i <= n
  BY <1>5
<1>7. Manifest(request) \subseteq Candidate
  BY ManifestFacts DEF SimulationInv
<1>8. CASE deployed.version = next.version
  <2>1. /\ DOMAIN lifecycle' = 1 .. (n + 1)
        /\ lifecycle'[n + 1].version = next.version /\ lifecycle'[n + 1].state = "ACTIVE"
    BY <1>2, <1>4, <1>5, <1>8, LifecycleGrows
  <2>2. DOMAIN lifecycle' = DOMAIN lifecycle \cup {n + 1} /\ n + 1 \notin DOMAIN lifecycle
    BY <1>5, <2>1
  <2>3. ASSUME NEW v
        PROVE  /\ EventsOf(v, "PROMOTED")' = EventsOf(v, "PROMOTED")
               /\ EventsOf(v, "RETIRED")' = EventsOf(v, "RETIRED")
               /\ \A j \in EventsOf(v, "ACTIVE")' : j \in EventsOf(v, "ACTIVE") \/ v = next.version
    BY <1>5, <2>1, <2>2 DEF EventsOf
  <2>4. ASSUME NEW i \in DOMAIN lifecycle, VersionHolds(lifecycle[i].version)
        PROVE  VersionHolds(lifecycle[i].version)'
    <3>1. PICK v : v = lifecycle[i].version
      OBVIOUS
    <3>2. lifecycle'[i].version = v /\ VersionHolds(v)
      BY <1>5, <2>4, <3>1
    <3>3. \E k \in DOMAIN lifecycle' : EventsOf(v, "PROMOTED")' = {k}
      BY <2>2, <2>3, <3>2 DEF VersionHolds
    <3>4. EventsOf(v, "RETIRED")' = {} <=> v = deployed'.version
      BY <1>2, <1>8, <2>3, <3>2 DEF VersionHolds
    <3>5. \A k \in EventsOf(v, "RETIRED")', j \in EventsOf(v, "ACTIVE")' : j < k
      BY <1>8, <2>3, <3>2 DEF VersionHolds
    <3>6. \E c \in Manifest(request') :
            c.version = v /\ (c.version = deployed'.version \/ c.sharpe < deployed'.sharpe)
      BY <1>2, <1>3, <1>7, <1>8, <3>2 DEF VersionHolds, Candidate
    <3> QED
      BY <3>2, <3>3, <3>4, <3>5, <3>6 DEF VersionHolds
  <2>5. PICK k \in DOMAIN lifecycle : lifecycle[k].version = next.version
    BY <1>8 DEF SimulationInv
  <2>6. ASSUME NEW i \in DOMAIN lifecycle', ListedOnce
        PROVE  VersionHolds(lifecycle[i].version)'
    <3>1. \A j \in DOMAIN lifecycle : VersionHolds(lifecycle[j].version)'
      BY <2>4, <2>6 DEF SimulationInv
    <3>2. CASE i \in DOMAIN lifecycle
      BY <3>1, <3>2
    <3>3. CASE i = n + 1
      <4>1. VersionHolds(lifecycle[k].version)'
        BY <2>5, <3>1
      <4>2. lifecycle'[i].version = lifecycle'[k].version
        BY <1>5, <2>1, <2>5, <3>3
      <4> QED
        BY <4>1, <4>2 DEF VersionHolds, EventsOf
    <3> QED
      BY <2>2, <3>2, <3>3
  <2> QED
    BY <1>2, <1>5, <2>1, <2>2, <2>6 DEF ListedOnce
<1>9. CASE deployed.version # next.version
  <2>1. /\ DOMAIN lifecycle' = 1 .. (n + 3)
        /\ lifecycle'[n + 1].version = deployed.version /\ lifecycle'[n + 1].state = "RETIRED"
        /\ lifecycle'[n + 2].version = next.version /\ lifecycle'[n + 2].state = "PROMOTED"
        /\ lifecycle'[n + 3].version = next.version /\ lifecycle'[n + 3].state = "ACTIVE"
    BY <1>2, <1>4, <1>5, <1>9, LifecycleGrows
  <2>2. /\ DOMAIN lifecycle' = DOMAIN lifecycle \cup {n + 1, n + 2, n + 3}
        /\ {n + 1, n + 2, n + 3} \cap DOMAIN lifecycle = {}
        /\ n + 1 # n + 2 /\ n + 2 # n + 3 /\ n + 1 # n + 3
    BY <1>5, <2>1
  <2>3. ASSUME NEW v, v # next.version, v # deployed.version
        PROVE  \A state : EventsOf(v, state)' = EventsOf(v, state)
    BY <1>5, <2>1, <2>2, <2>3 DEF EventsOf
  <2>4. ASSUME NEW v, v = deployed.version
        PROVE  /\ EventsOf(v, "PROMOTED")' = EventsOf(v, "PROMOTED")
               /\ EventsOf(v, "RETIRED")' = EventsOf(v, "RETIRED") \cup {n + 1}
               /\ EventsOf(v, "ACTIVE")' = EventsOf(v, "ACTIVE")
    BY <1>5, <1>9, <2>1, <2>2, <2>4 DEF EventsOf
  <2>5. ASSUME ListedOnce
        PROVE  \A i \in DOMAIN lifecycle : lifecycle[i].version # next.version
    <3> SUFFICES ASSUME NEW i \in DOMAIN lifecycle, lifecycle[i].version = next.version
                 PROVE  FALSE
      OBVIOUS
    <3>1. PICK c \in Manifest(request) :
            c.version = next.version /\ (c.version = deployed.version \/ c.sharpe < deployed.sharpe)
      BY <2>5 DEF SimulationInv, VersionHolds
    <3>2. c = next /\ c.sharpe < deployed.sharpe
      BY <1>3, <1>9, <2>5, <3>1 DEF ListedOnce
    <3> QED
      BY <1>3, <1>9, <3>2 DEF Candidate
  <2>6. ASSUME ListedOnce, NEW i \in DOMAIN lifecycle'
        PROVE  VersionHolds(lifecycle[i].version)'
    <3>1. PICK v : v = lifecycle'[i].version
      OBVIOUS
    <3>2. CASE v # next.version /\ v # deployed.version
      <4>1. i \in DOMAIN lifecycle /\ VersionHolds(v)
        BY <1>5, <2>1, <2>2, <2>6, <3>1, <3>2 DEF SimulationInv
      <4>2. \E k \in DOMAIN lifecycle' : EventsOf(v, "PROMOTED")' = {k}
        BY <2>2, <2>3, <3>2, <4>1 DEF VersionHolds
      <4>3. EventsOf(v, "RETIRED")' = {} <=> v = deployed'.version
        BY <1>2, <2>3, <3>2, <4>1 DEF VersionHolds
      <4>4. \A k \in EventsOf(v, "RETIRED")', j \in EventsOf(v, "ACTIVE")' : j < k
        BY <2>3, <3>2, <4>1 DEF VersionHolds
      <4>5. \E c \in Manifest(request') :
              c.version = v /\ (c.version = deployed'.version \/ c.sharpe < deployed'.sharpe)
        BY <1>2, <1>3, <1>7, <1>9, <3>2, <4>1 DEF VersionHolds, Candidate
      <4> QED
        BY <3>1, <4>2, <4>3, <4>4, <4>5 DEF VersionHolds
    <3>3. CASE v = deployed.version
      <4>1. VersionHolds(v)
        BY <2>6, <3>3 DEF SimulationInv
      <4>2. \E k \in DOMAIN lifecycle' : EventsOf(v, "PROMOTED")' = {k}
        BY <2>2, <2>4, <3>3, <4>1 DEF VersionHolds
      <4>3. EventsOf(v, "RETIRED")' # {} /\ v # deployed'.version
        BY <1>2, <1>9, <2>4, <3>3
      <4>4. EventsOf(v, "RETIRED") = {}
        BY <3>3, <4>1 DEF VersionHolds
      <4>5. \A k \in EventsOf(v, "RETIRED")', j \in EventsOf(v, "ACTIVE")' : k = n + 1 /\ j \in DOMAIN lifecycle
        BY <2>4, <3>3, <4>4 DEF EventsOf
      <4>6. \A k \in EventsOf(v, "RETIRED")', j \in EventsOf(v, "ACTIVE")' : j < k
        BY <1>6, <4>5
      <4>7. \E c \in Manifest(request') :
              c.version = v /\ (c.version = deployed'.version \/ c.sharpe < deployed'.sharpe)
        BY <1>2, <1>3, <1>9, <3>3
      <4> QED
        BY <3>1, <4>2, <4>3, <4>6, <4>7 DEF VersionHolds
    <3>4. CASE v = next.version
      <4>1. EventsOf(v, "PROMOTED")' = {n + 2} /\ EventsOf(v, "RETIRED")' = {}
        BY <1>5, <1>9, <2>1, <2>2, <2>5, <2>6, <3>4 DEF EventsOf
      <4>2. n + 2 \in DOMAIN lifecycle'
        BY <2>2
      <4> QED
        BY <1>2, <1>3, <3>1, <3>4, <4>1, <4>2 DEF VersionHolds
    <3> QED
      BY <3>2, <3>3, <3>4
  <2> QED
    BY <1>2, <2>1, <2>2, <2>6 DEF ListedOnce
<1> QED
  BY <1>8, <1>9

LEMMA CycleKeeps ==
  ASSUME SimulationInv, Cycle
  PROVE  SimulationInv'
<1>1. request' = request /\ request \in Requests
  BY DEF Cycle, SimulationInv
<1>2. lifecycle' \in Seq(Events)
  BY LifecycleGrows
<1>3. /\ timeline' \in Seq(Rows) /\ cursor' \in Nat /\ timeline' # << >>
      /\ \A i \in DOMAIN timeline' : CycleHolds(timeline[i])'
      /\ \A i \in DOMAIN timeline' : i > 1 => FollowHolds(timeline[i - 1], timeline[i])'
      /\ timeline'[Len(timeline')].champion = deployed'
      /\ deployed' \in Eligible(request, ChosenAt')
      /\ simulation' = "RUNNING" =>
           /\ cursor' = timeline'[Len(timeline')].research.start + request.cadence
           /\ ~(timeline'[Len(timeline')].flagged /\ request.stop)
  BY TimelineGrows
<1>4. /\ \E i \in DOMAIN lifecycle' : lifecycle'[i].version = deployed'.version
      /\ ListedOnce' => \A i \in DOMAIN lifecycle' : VersionHolds(lifecycle[i].version)'
  BY TitlesKeep
<1> QED
  BY <1>1, <1>2, <1>3, <1>4 DEF SimulationInv

\* What ends a simulation, and what other services do, changes nothing in it.

LEMMA SimulationEnds ==
  ASSUME SimulationInv, UNCHANGED <<request, cursor, deployed, lifecycle, timeline>>,
         simulation' = "RUNNING" => simulation = "RUNNING"
  PROVE  SimulationInv'
<1>1. /\ request' = request /\ cursor' = cursor /\ deployed' = deployed
      /\ lifecycle' = lifecycle /\ timeline' = timeline
  OBVIOUS
<1>2. ChosenAt' = ChosenAt /\ (ListedOnce' <=> ListedOnce)
  BY <1>1 DEF ChosenAt, ListedOnce
<1>3. \A i \in DOMAIN timeline' : CycleHolds(timeline[i])'
  BY <1>1 DEF SimulationInv, CycleHolds
<1>4. \A i \in DOMAIN timeline' : i > 1 => FollowHolds(timeline[i - 1], timeline[i])'
  BY <1>1 DEF SimulationInv, FollowHolds
<1>5. ListedOnce' => \A i \in DOMAIN lifecycle' : VersionHolds(lifecycle[i].version)'
  <2> SUFFICES ASSUME ListedOnce, NEW i \in DOMAIN lifecycle
               PROVE  VersionHolds(lifecycle[i].version)'
    BY <1>1, <1>2
  <2>1. PICK v : v = lifecycle[i].version
    OBVIOUS
  <2>2. VersionHolds(v) /\ lifecycle'[i].version = v
    BY <1>1, <2>1 DEF SimulationInv
  <2>3. \A state : EventsOf(v, state)' = EventsOf(v, state)
    BY <1>1 DEF EventsOf
  <2>4. VersionHolds(v)'
    BY <1>1, <2>2, <2>3 DEF VersionHolds
  <2> QED
    BY <2>2, <2>4 DEF VersionHolds
<1>6. /\ request' \in Requests /\ cursor' \in Nat
      /\ lifecycle' \in Seq(Events) /\ timeline' \in Seq(Rows)
      /\ deployed' \in Eligible(request', ChosenAt')
      /\ timeline' # << >> => timeline'[Len(timeline')].champion = deployed'
      /\ \E i \in DOMAIN lifecycle' : lifecycle'[i].version = deployed'.version
  BY <1>1, <1>2 DEF SimulationInv
<1>7. simulation' = "RUNNING" =>
        IF timeline' = << >> THEN cursor' = request'.start
        ELSE /\ cursor' = timeline'[Len(timeline')].research.start + request'.cadence
             /\ ~(timeline'[Len(timeline')].flagged /\ request'.stop)
  BY <1>1 DEF SimulationInv
<1> QED
  BY <1>3, <1>4, <1>5, <1>6, <1>7 DEF SimulationInv

LEMMA SimulationInvIsEnough == SimulationInv => ChampionsNeverReturn
<1> SUFFICES ASSUME SimulationInv
             PROVE  ChampionsNeverReturn
  OBVIOUS
<1>1. timeline \in Seq(Rows) /\ DOMAIN timeline = 1 .. Len(timeline) /\ Len(timeline) \in Nat
  BY LenProperties DEF SimulationInv
<1>2. \A i \in DOMAIN timeline : timeline[i] \in Rows /\ CycleHolds(timeline[i])
  BY <1>1, ElementOfSeq DEF SimulationInv
<1>3. \A i \in DOMAIN timeline : i > 1 => i - 1 \in DOMAIN timeline /\ FollowHolds(timeline[i - 1], timeline[i])
  BY <1>1 DEF SimulationInv
<1>4. ASSUME ListedOnce, NEW v \in {lifecycle[i].version : i \in DOMAIN lifecycle}
      PROVE  /\ Cardinality(EventsOf(v, "PROMOTED")) = 1
             /\ EventsOf(v, "RETIRED") = {} <=> v = deployed.version
             /\ \A i \in EventsOf(v, "RETIRED"), j \in EventsOf(v, "ACTIVE") : j < i
  <2>1. VersionHolds(v)
    BY <1>4 DEF SimulationInv
  <2>2. Cardinality(EventsOf(v, "PROMOTED")) = 1
    BY <2>1, FS_Singleton DEF VersionHolds
  <2> QED
    BY <2>1, <2>2 DEF VersionHolds
<1>5. ASSUME NEW i \in DOMAIN timeline
      PROVE  timeline[i].champion.promoted /\ timeline[i].champion.asOf <= timeline[i].research.end
  BY <1>2 DEF CycleHolds, Eligible
<1>6. ASSUME NEW i \in DOMAIN timeline, i > 1
      PROVE  /\ timeline[i - 1].champion.sharpe <= timeline[i].champion.sharpe
             /\ timeline[i].champion.version # timeline[i - 1].champion.version =>
                  timeline[i - 1].champion.sharpe < timeline[i].champion.sharpe
             /\ request.cadence >= request.deployment =>
                  timeline[i - 1].deployment.end <= timeline[i].deployment.start
  <2>1. PICK a \in Rows, b \in Rows : a = timeline[i - 1] /\ b = timeline[i]
    BY <1>2, <1>3, <1>6
  <2>2. CycleHolds(a) /\ CycleHolds(b) /\ FollowHolds(a, b)
    BY <1>2, <1>3, <1>6, <2>1
  <2>3. /\ a.deployment.end \in Int /\ a.deployment.start \in Int /\ a.research.start \in Int
        /\ b.deployment.start \in Int /\ b.research.start \in Int
        /\ request.research \in Nat /\ request.cadence \in Nat /\ request.deployment \in Nat
    BY ManifestFacts DEF Rows, Dates, SimulationInv
  <2>4. /\ a.deployment.end <= a.deployment.start + request.deployment
        /\ a.deployment.start = a.research.start + request.research
        /\ b.deployment.start = b.research.start + request.research
        /\ b.research.start = a.research.start + request.cadence
    BY <2>2 DEF CycleHolds, FollowHolds
  <2>5. request.cadence >= request.deployment => a.deployment.end <= b.deployment.start
    BY <2>3, <2>4
  <2> QED
    BY <2>1, <2>2, <2>5 DEF FollowHolds
<1>7. ASSUME NEW i \in 1 .. (Len(timeline) - 1)
      PROVE  timeline[i].flagged => ~request.stop
  <2>1. i + 1 \in DOMAIN timeline /\ i + 1 > 1 /\ (i + 1) - 1 = i
    BY <1>1
  <2> QED
    BY <1>3, <2>1 DEF FollowHolds
<1> QED
  BY <1>4, <1>5, <1>6, <1>7 DEF ChampionsNeverReturn, ListedOnce, EventsOf

\* The champion of a simulation was known when it was chosen and never falls behind the one

\* before it, deployments of a cadence do not overlap, a stop is final, and no version that is
\* listed once is deployed again after it was retired, for any candidates and windows
\* (create_and_run and _select_candidate of production_simulation/service.py).
THEOREM ChampionsAreFinal == Spec => []ChampionsNeverReturn
<1>1. Init => SimulationInv
  BY SimulationInitInv
<1>2. SimulationInv /\ [Next]_deskVars => SimulationInv'
  <2> SUFFICES ASSUME SimulationInv, [Next]_deskVars
               PROVE  SimulationInv'
    OBVIOUS
  <2>1. SimulationNext \/ UNCHANGED simulationVars
    <3>1. CASE UNCHANGED deskVars
      BY <3>1 DEF deskVars
    <3>2. CASE Next
      BY <3>2 DEF Next, AskSplits, AskReleases, AskSignals, AskPortfolio, AskRegimes, AskSearch,
         AskFactor, AskWeights, AskRouting, AskStress, Answered, Evolve, Simulation, Promote,
         Research
    <3> QED
      BY <3>1, <3>2
  <2>2. CASE Cycle
    BY <2>2, CycleKeeps
  <2>3. CASE Fail \/ Complete
    BY <2>3, SimulationEnds DEF Fail, Complete
  <2>4. CASE UNCHANGED simulationVars
    BY <2>4, SimulationEnds DEF simulationVars
  <2> QED
    BY <2>1, <2>2, <2>3, <2>4 DEF SimulationNext
<1>3. SimulationInv => ChampionsNeverReturn
  BY SimulationInvIsEnough
<1> QED
  BY <1>1, <1>2, <1>3, PTL DEF Spec

-----------------------------------------------------------------------------
(***************************************************************************)
(* Evolution keeps its best.  The invariant follows a generation from its  *)
(* breeding to its selection: the population was bred from the generation  *)
(* before and starts with the best strategy of it, the candidates of the   *)
(* generation are its first strategies in turn, what was measured on the   *)
(* present rows is remembered, and every promoted candidate is below the   *)
(* champion.                                                               *)
(***************************************************************************)

Strategies == {s \in [short : Int, long : Int, scaled : BOOLEAN] : ValidSpecification(s)}

Bred == [spec : Strategies, parents : SUBSET Nat, mutated : BOOLEAN]

Measures == [score : Scores, flags : {RobustnessFlags(p) : p \in Performances}]

Measured ==
  [spec : Strategies, parents : SUBSET Nat, mutated : BOOLEAN, generation : Nat,
   fitness : Measures, rows : Nat, status : {"challenger", "promote", "reject"}]

EvolutionTypes ==
  /\ population \in Seq(Bred) /\ population # << >>
  /\ candidates \in Seq(Measured)
  /\ champion \in Nat /\ generation \in Nat /\ rows \in Nat
  /\ fitness \in [DOMAIN fitness -> Measures]

\* a strategy of the population, or a candidate, as the next one of generation g
ComesFrom(entry, g) ==
  \E p \in BestOf(g) :
    IF entry.mutated THEN entry.parents = {p} /\ entry.spec.long = candidates[p].spec.long
    ELSE entry.parents = candidates[p].parents /\ entry.spec = candidates[p].spec

\* the candidates after the first b are the first strategies of the population
Underway(b) ==
  /\ Len(candidates) - b <= Len(population)
  /\ \A i \in 1..b : candidates[i].generation < generation
  /\ \A i \in (b + 1)..Len(candidates) :
       /\ candidates[i].generation = generation
       /\ candidates[i].spec = population[i - b].spec

\* position p is that of the best of generation g
Leads(p, g) ==
  /\ p \in BestOf(g)
  /\ \A i \in BestOf(g) : candidates[i].fitness.score <= candidates[p].fitness.score

PopulationIsBred ==
  generation > 0 =>
    /\ \A k \in DOMAIN population : ComesFrom(population[k], generation - 1)
    /\ \E p \in BestOf(generation - 1) :
         Leads(p, generation - 1) /\ population[1].spec = candidates[p].spec

CandidatesDescend ==
  \A i \in DOMAIN candidates :
    candidates[i].generation > 0 => ComesFrom(candidates[i], candidates[i].generation - 1)

MeasuresAgree ==
  /\ \A i \in DOMAIN candidates :
       /\ candidates[i].rows <= rows
       /\ candidates[i].rows = rows =>
            candidates[i].spec \in DOMAIN fitness /\ fitness[candidates[i].spec] = candidates[i].fitness
  /\ \A i, j \in DOMAIN candidates :
       candidates[i].rows = candidates[j].rows /\ candidates[i].spec = candidates[j].spec =>
         candidates[i].fitness = candidates[j].fitness

IsPromoted(i) == i \in DOMAIN candidates /\ candidates[i].status = "promote"

\* candidate i replaced champion j
Succeeds(i, j) ==
  /\ candidates[j].fitness.score < candidates[i].fitness.score
  /\ candidates[i].fitness.flags \cap Blocking = {}

ChampionLeads ==
  /\ champion = 0 => \A i \in DOMAIN candidates : ~IsPromoted(i)
  /\ champion # 0 => IsPromoted(champion)
  /\ \A i \in DOMAIN candidates : IsPromoted(i) =>
       /\ candidates[i].generation < generation /\ i <= champion
       /\ \A j \in 1..(i - 1) : IsPromoted(j) => Succeeds(i, j)

\* generations g and g + 1 were measured on the same rows
SameRows(g) ==
  \A i, j \in BestOf(g) \cup BestOf(g + 1) : candidates[i].rows = candidates[j].rows

NeverWorse(g) ==
  SameRows(g) =>
    \A i \in BestOf(g) : \E j \in BestOf(g + 1) :
      candidates[j].fitness.score >= candidates[i].fitness.score

EvolutionInv ==
  /\ EvolutionTypes
  /\ \E b \in 0..Len(candidates) : Underway(b)
  /\ PopulationIsBred /\ CandidatesDescend /\ MeasuresAgree /\ ChampionLeads
  /\ \A g \in 0..(generation - 2) : NeverWorse(g)

\* In a strict order of a finite set every rank is taken.
LEMMA RanksAreTaken ==
  ASSUME NEW S, IsFiniteSet(S), NEW R,
         \A x, y \in S : x # y => <<x, y>> \in R \/ <<y, x>> \in R,
         \A x \in S : <<x, x>> \notin R,
         \A x, y, z \in S : <<x, y>> \in R /\ <<y, z>> \in R => <<x, z>> \in R
  PROVE  \A k \in 1..Cardinality(S) :
           \E x \in S : Cardinality({y \in S : <<y, x>> \in R}) = k - 1
<1> DEFINE Below(x) == {y \in S : <<y, x>> \in R}
           n == Cardinality(S)
           rank == [x \in S |-> Cardinality(Below(x))]
<1>1. n \in Nat
  BY FS_CardinalityType
<1>2. ASSUME NEW x \in S
      PROVE  IsFiniteSet(Below(x)) /\ Cardinality(Below(x)) \in 0..(n - 1)
  <2> DEFINE others == S \ {x}
  <2>1. Below(x) \in SUBSET others
    OBVIOUS
  <2>2. IsFiniteSet(others) /\ Cardinality(others) = n - 1
    BY FS_RemoveElement
  <2>3. IsFiniteSet(Below(x)) /\ Cardinality(Below(x)) <= n - 1
    <3> HIDE DEF Below, others, n
    <3> QED
      BY <2>1, <2>2, FS_Subset
  <2>4. Cardinality(Below(x)) \in Nat
    BY <2>3, FS_CardinalityType
  <2> QED
    BY <1>1, <2>3, <2>4
<1>3. ASSUME NEW x \in S, NEW y \in S, <<x, y>> \in R
      PROVE  Cardinality(Below(x)) < Cardinality(Below(y))
  <2>1. Below(x) \in SUBSET Below(y)
    BY <1>3
  <2>2. x \in Below(y) /\ x \notin Below(x)
    BY <1>3
  <2>3. Cardinality(Below(x)) <= Cardinality(Below(y)) /\ Cardinality(Below(x)) # Cardinality(Below(y))
    BY <1>2, <2>1, <2>2, FS_Subset
  <2> HIDE DEF Below
  <2> QED
    BY <1>1, <1>2, <2>3
<1>4. rank \in Injection(S, 0..(n - 1))
  <2>1. rank \in [S -> 0..(n - 1)]
    BY <1>2
  <2>2. ASSUME NEW x \in S, NEW y \in S, x # y
        PROVE  rank[x] # rank[y]
    <3>1. Cardinality(Below(x)) < Cardinality(Below(y)) \/ Cardinality(Below(y)) < Cardinality(Below(x))
      BY <1>3, <2>2
    <3> HIDE DEF Below
    <3> QED
      BY <1>1, <1>2, <3>1
  <2> HIDE DEF rank
  <2> QED
    BY <2>1, <2>2 DEF Injection, IsInjective
<1>5. IsFiniteSet(0..(n - 1)) /\ Cardinality(0..(n - 1)) = n
  <2> HIDE DEF n
  <2>1. IsFiniteSet(0..(n - 1)) /\ Cardinality(0..(n - 1)) = IF 0 > n - 1 THEN 0 ELSE (n - 1) - 0 + 1
    BY <1>1, FS_Interval
  <2> QED
    BY <1>1, <2>1
<1>6. rank \in Surjection(S, 0..(n - 1))
  <2> HIDE DEF rank, n
  <2> QED
    BY <1>4, <1>5, FS_Injection DEF n
<1>7. ASSUME NEW k \in 1..n
      PROVE  \E x \in S : Cardinality(Below(x)) = k - 1
  <2>1. k - 1 \in 0..(n - 1)
    BY <1>1
  <2>2. \E x \in S : rank[x] = k - 1
    <3> HIDE DEF rank, n
    <3> QED
      BY <1>6, <2>1 DEF Surjection
  <2> QED
    BY <2>2
<1> QED
  BY <1>7

LEMMA MeasuredFacts ==
  ASSUME NEW s \in Seq(Measured)
  PROVE  \A i \in DOMAIN s : s[i] \in Measured /\ s[i].fitness.score \in Int
<1>1. \A i \in DOMAIN s : s[i] \in Measured
  BY ElementOfSeq, LenProperties
<1>2. \A c \in Measured : c.fitness.score \in Int
  BY EvolutionAssumption DEF Measured, Measures
<1> QED
  BY <1>1, <1>2

\* The ranked generation holds candidates of the generation, and none is before the first.

LEMMA RankedFacts ==
  ASSUME candidates \in Seq(Measured), Current # {}
  PROVE  /\ Cardinality(Current) \in Nat \ {0}
         /\ Ranked \in [1..Cardinality(Current) -> Current]
         /\ Leads(Ranked[1], generation)
<1> DEFINE n == Cardinality(Current)
           R == {p \in Current \X Current : Before(p[1], p[2])}
<1>1. /\ Current \subseteq 1..Len(candidates) /\ Len(candidates) \in Nat
      /\ \A i \in Current : i \in Int /\ candidates[i].fitness.score \in Int
  BY MeasuredFacts, LenProperties DEF Current
<1>2. IsFiniteSet(Current) /\ n \in Nat \ {0}
  <2>1. IsFiniteSet(1..Len(candidates))
    BY <1>1, FS_Interval
  <2>2. IsFiniteSet(Current)
    BY <1>1, <2>1, FS_Subset
  <2> QED
    BY <2>2, FS_CardinalityType, FS_EmptySet
<1>3. \A i, j \in Current : <<i, j>> \in R <=> Before(i, j)
  OBVIOUS
<1>4. /\ \A i, j \in Current : i # j => <<i, j>> \in R \/ <<j, i>> \in R
      /\ \A i \in Current : <<i, i>> \notin R
      /\ \A i, j, k \in Current : <<i, j>> \in R /\ <<j, k>> \in R => <<i, k>> \in R
  <2> HIDE DEF R
  <2>1. \A i, j \in Current : i # j => Before(i, j) \/ Before(j, i)
    BY <1>1 DEF Before
  <2>2. \A i \in Current : ~Before(i, i)
    BY <1>1 DEF Before
  <2>3. \A i, j, k \in Current : Before(i, j) /\ Before(j, k) => Before(i, k)
    BY <1>1 DEF Before
  <2> QED
    BY <1>3, <2>1, <2>2, <2>3
<1>5. \A k \in 1..n : \E i \in Current : Cardinality({j \in Current : <<j, i>> \in R}) = k - 1
  <2> HIDE DEF R
  <2> QED
    BY <1>2, <1>4, RanksAreTaken
<1>6. \A i \in Current : {j \in Current : <<j, i>> \in R} = {j \in Current : Before(j, i)}
  BY <1>3
<1>7. \A k \in 1..n : \E i \in Current : Cardinality({j \in Current : Before(j, i)}) = k - 1
  <2> HIDE DEF R
  <2> QED
    BY <1>5, <1>6
<1>8. \A k \in 1..n : /\ Ranked[k] \in Current
                      /\ Cardinality({j \in Current : Before(j, Ranked[k])}) = k - 1
  BY <1>7 DEF Ranked
<1>9. Ranked \in [1..n -> Current]
  BY <1>8 DEF Ranked
<1>10. ASSUME NEW i \in Current
       PROVE  candidates[i].fitness.score <= candidates[Ranked[1]].fitness.score
  <2>1. 1 \in 1..n
    BY <1>2
  <2>2. PICK b \in Current : b = Ranked[1]
    BY <1>8, <2>1
  <2>3. Cardinality({j \in Current : Before(j, b)}) = 0
    BY <1>8, <2>1, <2>2
  <2>4. IsFiniteSet({j \in Current : Before(j, b)})
    BY <1>2, FS_Subset
  <2>5. {j \in Current : Before(j, b)} = {}
    BY <2>3, <2>4, FS_EmptySet
  <2>6. ~Before(i, b)
    BY <2>5
  <2> QED
    BY <1>1, <2>2, <2>6 DEF Before
<1> QED
  BY <1>2, <1>8, <1>9, <1>10 DEF Leads, BestOf, Current

LEMMA EvolutionInitInv == EvolutionInit => EvolutionInv
<1> SUFFICES ASSUME EvolutionInit
             PROVE  EvolutionInv
  OBVIOUS
<1>1. PICK n \in Nat \ {0} :
        /\ n <= Len(InitialPopulation)
        /\ population = [i \in 1..n |-> Entry(InitialPopulation[i], {}, FALSE)]
  <2>1. Len(InitialPopulation) \in Nat \ {0} /\ PopulationSize \in Nat \ {0}
    BY EvolutionAssumption, LenProperties, EmptySeq
  <2> QED
    BY <2>1 DEF EvolutionInit
<1>2. \A i \in 1..n : InitialPopulation[i] \in Strategies
  <2>1. /\ InitialPopulation \in Seq([short : Int, long : Int, scaled : BOOLEAN])
        /\ DOMAIN InitialPopulation = 1..Len(InitialPopulation) /\ Len(InitialPopulation) \in Nat
    BY EvolutionAssumption, LenProperties
  <2>2. \A i \in 1..n : i \in DOMAIN InitialPopulation
    BY <1>1, <2>1
  <2>3. \A i \in 1..n : InitialPopulation[i] \in [short : Int, long : Int, scaled : BOOLEAN]
    BY <2>1, <2>2, ElementOfSeq
  <2> QED
    BY <2>2, <2>3, EvolutionAssumption DEF Strategies
<1>3. population \in [1..n -> Bred]
  BY <1>1, <1>2 DEF Entry, Bred
<1>4. population \in Seq(Bred) /\ Len(population) = n /\ population # << >>
  <2>1. population \in Seq(Bred) /\ Len(population) = n
    BY <1>3
  <2> QED
    BY <2>1, EmptySeq
<1>5. /\ candidates = << >> /\ candidates \in Seq(Measured) /\ Len(candidates) = 0
      /\ DOMAIN candidates = {} /\ champion = 0 /\ generation = 0 /\ rows = 0
  BY EmptySeq DEF EvolutionInit
<1>6. fitness \in [DOMAIN fitness -> Measures]
  BY EmptySeq DEF EvolutionInit
<1>7. EvolutionTypes
  BY <1>4, <1>5, <1>6 DEF EvolutionTypes
<1>8. 0 \in 0..Len(candidates) /\ Underway(0)
  BY <1>4, <1>5 DEF Underway
<1>9. PopulationIsBred /\ CandidatesDescend /\ MeasuresAgree /\ ChampionLeads
  BY <1>5 DEF PopulationIsBred, CandidatesDescend, MeasuresAgree, ChampionLeads
<1>10. \A g \in 0..(generation - 2) : NeverWorse(g)
  BY <1>5
<1> QED
  BY <1>7, <1>8, <1>9, <1>10 DEF EvolutionInv

\* The candidates of a generation that is underway are the last ones.

LEMMA CurrentCounted ==
  ASSUME EvolutionTypes, NEW b \in 0..Len(candidates), Underway(b)
  PROVE  /\ Current = (b + 1)..Len(candidates)
         /\ Cardinality(Current) = Len(candidates) - b
         /\ Len(candidates) \in Nat /\ Len(population) \in Nat \ {0}
<1>1. /\ Len(candidates) \in Nat /\ DOMAIN candidates = 1..Len(candidates)
      /\ Len(population) \in Nat \ {0}
  BY LenProperties, EmptySeq DEF EvolutionTypes
<1>2. \A i \in DOMAIN candidates : candidates[i].generation = generation <=> i \in (b + 1)..Len(candidates)
  <2>1. \A i \in DOMAIN candidates : i \in 1..b \/ i \in (b + 1)..Len(candidates)
    BY <1>1
  <2>2. \A i \in 1..b : i \notin (b + 1)..Len(candidates)
    BY <1>1
  <2> QED
    BY <2>1, <2>2 DEF Underway, EvolutionTypes
<1>3. Current = (b + 1)..Len(candidates)
  BY <1>1, <1>2 DEF Current
<1>4. Cardinality((b + 1)..Len(candidates)) =
        IF b + 1 > Len(candidates) THEN 0 ELSE Len(candidates) - (b + 1) + 1
  <2>1. b + 1 \in Int /\ Len(candidates) \in Int
    BY <1>1
  <2> QED
    BY <2>1, FS_Interval
<1> QED
  BY <1>1, <1>3, <1>4
\* a step that leaves what candidates are and adds at most some to the generation
KeepsOld ==
  /\ \A i \in DOMAIN candidates :
       /\ i \in DOMAIN candidates'
       /\ candidates'[i].spec = candidates[i].spec
       /\ candidates'[i].parents = candidates[i].parents
       /\ candidates'[i].mutated = candidates[i].mutated
       /\ candidates'[i].generation = candidates[i].generation
       /\ candidates'[i].fitness = candidates[i].fitness
       /\ candidates'[i].rows = candidates[i].rows
  /\ \A i \in DOMAIN candidates' \ DOMAIN candidates : candidates'[i].generation = generation

LEMMA OldGenerations ==
  ASSUME KeepsOld, NEW g, g # generation
  PROVE  BestOf(g)' = BestOf(g)
BY DEF KeepsOld, BestOf

LEMMA DescentKept ==
  ASSUME KeepsOld, NEW g, BestOf(g)' = BestOf(g), NEW e, ComesFrom(e, g)
  PROVE  ComesFrom(e, g)'
<1>1. PICK p \in BestOf(g) :
        IF e.mutated THEN e.parents = {p} /\ e.spec.long = candidates[p].spec.long
        ELSE e.parents = candidates[p].parents /\ e.spec = candidates[p].spec
  BY DEF ComesFrom
<1>2. p \in BestOf(g)' /\ p \in DOMAIN candidates
  BY DEF BestOf
<1>3. candidates'[p].spec = candidates[p].spec /\ candidates'[p].parents = candidates[p].parents
  BY <1>2 DEF KeepsOld
<1> QED
  BY <1>1, <1>2, <1>3 DEF ComesFrom

LEMMA LeadsKept ==
  ASSUME KeepsOld, NEW g, BestOf(g)' = BestOf(g), NEW p, Leads(p, g)
  PROVE  Leads(p, g)' /\ candidates'[p].spec = candidates[p].spec
<1>1. BestOf(g)' = BestOf(g)
  OBVIOUS
<1>2. \A i \in BestOf(g) : candidates'[i].fitness = candidates[i].fitness
  BY DEF KeepsOld, BestOf
<1>3. p \in BestOf(g) /\ candidates'[p].spec = candidates[p].spec
  BY DEF Leads, KeepsOld, BestOf
<1> QED
  BY <1>1, <1>2, <1>3 DEF Leads

LEMMA NeverWorseKept ==
  ASSUME KeepsOld, NEW g, BestOf(g)' = BestOf(g), BestOf(g + 1)' = BestOf(g + 1), NeverWorse(g)
  PROVE  NeverWorse(g)'
<1>1. BestOf(g)' = BestOf(g) /\ BestOf(g + 1)' = BestOf(g + 1)
  OBVIOUS
<1>2. \A i \in BestOf(g) \cup BestOf(g + 1) :
        candidates'[i].fitness = candidates[i].fitness /\ candidates'[i].rows = candidates[i].rows
  BY DEF KeepsOld, BestOf
<1>3. SameRows(g)' => SameRows(g)
  BY <1>1, <1>2 DEF SameRows
<1> QED
  BY <1>1, <1>2, <1>3 DEF NeverWorse

\* What was bred and descends stays so in a step within the generation.

LEMMA GenerationKept ==
  ASSUME KeepsOld, EvolutionTypes, population' = population, generation' = generation,
         PopulationIsBred, \A g \in 0..(generation - 2) : NeverWorse(g)
  PROVE  /\ PopulationIsBred'
         /\ \A g \in 0..(generation' - 2) : NeverWorse(g)'
<1>1. generation \in Nat
  BY DEF EvolutionTypes
<1>2. PopulationIsBred'
  <2> SUFFICES ASSUME generation > 0
               PROVE  /\ \A k \in DOMAIN population' : ComesFrom(population[k], generation - 1)'
                      /\ \E p \in BestOf(generation - 1)' :
                           Leads(p, generation - 1)' /\ (population[1].spec = candidates[p].spec)'
    BY DEF PopulationIsBred
  <2>1. PICK h \in Nat : h = generation - 1
    BY <1>1
  <2>2. h # generation
    BY <1>1, <2>1
  <2>3. ASSUME NEW k \in DOMAIN population'
        PROVE  ComesFrom(population[k], generation - 1)'
    <3>1. PICK e : e = population[k]
      OBVIOUS
    <3>2. ComesFrom(e, h)
      BY <2>1, <3>1 DEF PopulationIsBred
    <3>3. ComesFrom(e, h)'
      BY <2>2, <3>2, DescentKept, OldGenerations
    <3> QED
      BY <2>1, <3>1, <3>3
  <2>4. PICK p \in BestOf(h) : Leads(p, h) /\ population[1].spec = candidates[p].spec
    BY <2>1 DEF PopulationIsBred
  <2>5. Leads(p, h)' /\ candidates'[p].spec = candidates[p].spec /\ p \in BestOf(h)'
    BY <2>2, <2>4, LeadsKept, OldGenerations
  <2> QED
    BY <2>1, <2>3, <2>4, <2>5
<1>3. ASSUME NEW g \in 0..(generation' - 2)
      PROVE  NeverWorse(g)'
  <2>1. NeverWorse(g) /\ g # generation /\ g + 1 # generation
    BY <1>1
  <2> QED
    BY <2>1, NeverWorseKept, OldGenerations
<1> QED
  BY <1>2, <1>3

LEMMA EvaluateKeeps == EvolutionInv /\ EvaluateCandidate => EvolutionInv'
<1> SUFFICES ASSUME EvolutionInv, EvaluateCandidate
             PROVE  EvolutionInv'
  OBVIOUS
<1>1. PICK b \in 0..Len(candidates) : Underway(b)
  BY DEF EvolutionInv
<1>2. EvolutionTypes
  BY DEF EvolutionInv
<1>3. PICK n \in Nat, k \in Nat \ {0} :
        /\ n = Len(candidates) /\ k = n - b + 1 /\ k = Cardinality(Current) + 1
        /\ DOMAIN candidates = 1..n
  BY <1>1, <1>2, CurrentCounted, LenProperties DEF EvolutionTypes
<1>4. k <= Len(population) /\ k \in DOMAIN population /\ population[k] \in Bred
  <2>1. k <= Len(population)
    <3>1. Cardinality(Current) + 1 <= Len(population)
      BY DEF EvaluateCandidate
    <3> QED
      BY <1>3, <3>1
  <2>2. population \in Seq(Bred) /\ DOMAIN population = 1..Len(population) /\ Len(population) \in Nat
    BY <1>2, LenProperties DEF EvolutionTypes
  <2>3. k \in 1..Len(population)
    BY <1>3, <2>1, <2>2
  <2> QED
    BY <2>1, <2>2, <2>3, ElementOfSeq
<1>5. PICK e \in Bred : e = population[k]
  BY <1>4
<1>6. PICK f \in Measures :
        /\ e.spec \in DOMAIN fitness => f = fitness[e.spec]
        /\ fitness' = [s \in DOMAIN fitness \cup {e.spec} |-> IF s = e.spec THEN f ELSE fitness[s]]
        /\ candidates' = Append(candidates,
             [spec |-> e.spec, parents |-> e.parents, mutated |-> e.mutated,
              generation |-> generation, fitness |-> f, rows |-> rows, status |-> "challenger"])
  <2> DEFINE due == population[Cardinality(Current) + 1]
  <2>1. PICK f \in IF due.spec \in DOMAIN fitness THEN {fitness[due.spec]}
                   ELSE {[score |-> s, flags |-> RobustnessFlags(p)] : s \in Scores, p \in Performances} :
          /\ fitness' = [s \in DOMAIN fitness \cup {due.spec} |-> IF s = due.spec THEN f ELSE fitness[s]]
          /\ candidates' = Append(candidates,
               [spec |-> due.spec, parents |-> due.parents, mutated |-> due.mutated,
                generation |-> generation, fitness |-> f, rows |-> rows, status |-> "challenger"])
    BY DEF EvaluateCandidate
  <2>2. due = e
    BY <1>3, <1>5
  <2> HIDE DEF due
  <2>3. PICK s : s = due.spec /\ s = e.spec
    BY <2>2
  <2>4. fitness' = [x \in DOMAIN fitness \cup {s} |-> IF x = s THEN f ELSE fitness[x]]
    BY <2>1, <2>3
  <2>5. fitness' = [x \in DOMAIN fitness \cup {e.spec} |-> IF x = e.spec THEN f ELSE fitness[x]]
    BY ONLY <2>3, <2>4
  <2>6. candidates' = Append(candidates,
          [spec |-> e.spec, parents |-> e.parents, mutated |-> e.mutated,
           generation |-> generation, fitness |-> f, rows |-> rows, status |-> "challenger"])
    BY <2>1, <2>2
  <2>7. e.spec \in DOMAIN fitness => f = fitness[e.spec]
    BY <2>1, <2>2
  <2>8. f \in Measures
    <3>1. CASE due.spec \in DOMAIN fitness
      BY <1>2, <2>1, <3>1 DEF EvolutionTypes
    <3>2. CASE due.spec \notin DOMAIN fitness
      BY <2>1, <3>2 DEF Measures
    <3> QED
      BY <3>1, <3>2
  <2> QED
    BY ONLY <2>5, <2>6, <2>7, <2>8
<1>7. PICK c \in Measured :
        c = [spec |-> e.spec, parents |-> e.parents, mutated |-> e.mutated,
             generation |-> generation, fitness |-> f, rows |-> rows, status |-> "challenger"]
  BY <1>2 DEF Measured, Bred, EvolutionTypes
<1>8. UNCHANGED <<population, champion, generation, rows>>
  BY DEF EvaluateCandidate
<1>9. /\ candidates' \in Seq(Measured) /\ Len(candidates') = n + 1
      /\ DOMAIN candidates' = 1..(n + 1) /\ candidates'[n + 1] = c
      /\ \A i \in 1..n : candidates'[i] = candidates[i]
  <2>1. candidates \in Seq(Measured) /\ candidates' = Append(candidates, c)
    BY <1>2, <1>6, <1>7 DEF EvolutionTypes
  <2>2. candidates' \in Seq(Measured) /\ Len(candidates') = n + 1
    BY <1>3, <2>1, AppendProperties
  <2>3. DOMAIN candidates' = 1..(n + 1)
    BY <2>2, LenProperties
  <2> QED
    BY <1>3, <2>1, <2>2, <2>3, AppendProperties
<1>10. KeepsOld
  <2>1. \A i \in 1..(n + 1) : i \notin 1..n => i = n + 1
    BY <1>3
  <2>2. c.generation = generation
    BY <1>7
  <2> QED
    BY <1>3, <1>9, <2>1, <2>2 DEF KeepsOld
<1>11. EvolutionTypes'
  <2>1. fitness' \in [DOMAIN fitness' -> Measures]
    BY <1>2, <1>6 DEF EvolutionTypes
  <2> QED
    BY <1>2, <1>8, <1>9, <2>1 DEF EvolutionTypes
<1>12. b \in 0..Len(candidates') /\ Underway(b)'
  <2>1. b \in 0..(n + 1) /\ (n + 1) - b = k
    BY <1>3
  <2>2. \A i \in 1..b : i \in 1..n /\ candidates'[i] = candidates[i]
    BY <1>3, <1>9
  <2>3. ASSUME NEW i \in (b + 1)..(n + 1)
        PROVE  candidates'[i].generation = generation /\ candidates'[i].spec = population[i - b].spec
    <3>1. CASE i = n + 1
      <4>1. i - b = k
        BY <1>3, <3>1
      <4> QED
        BY <1>5, <1>7, <1>9, <3>1, <4>1
    <3>2. CASE i # n + 1
      <4>1. i \in (b + 1)..n /\ i \in 1..n
        BY <1>3, <3>2
      <4> QED
        BY <1>1, <1>3, <1>9, <4>1 DEF Underway
    <3> QED
      BY <3>1, <3>2
  <2> QED
    BY <1>1, <1>4, <1>8, <1>9, <2>1, <2>2, <2>3 DEF Underway
<1>13. PopulationIsBred' /\ \A g \in 0..(generation' - 2) : NeverWorse(g)'
  BY <1>2, <1>8, <1>10, GenerationKept DEF EvolutionInv
<1>14. CandidatesDescend'
  <2>1. generation \in Nat /\ \A i \in 1..n : candidates[i].generation \in Nat
    BY <1>2, <1>3, MeasuredFacts DEF EvolutionTypes, Measured
  <2>2. ASSUME NEW i \in 1..n, candidates[i].generation > 0
        PROVE  ComesFrom(candidates[i], candidates[i].generation - 1)'
    <3>1. PICK o : o = candidates[i]
      OBVIOUS
    <3>2. PICK h \in Nat : h = o.generation - 1
      BY <2>1, <2>2, <3>1
    <3>3. i \in 1..b \/ i \in (b + 1)..n
      BY <1>3
    <3>4. h # generation
      BY <1>1, <1>3, <2>1, <3>1, <3>2, <3>3 DEF Underway
    <3>5. ComesFrom(o, h)
      BY <1>3, <2>2, <3>1, <3>2 DEF EvolutionInv, CandidatesDescend
    <3>6. ComesFrom(o, h)'
      BY <1>10, <3>4, <3>5, DescentKept, OldGenerations
    <3>7. candidates'[i] = o
      BY <1>9, <3>1
    <3> QED
      BY <3>2, <3>6, <3>7
  <2>3. ASSUME generation > 0
        PROVE  ComesFrom(c, generation - 1)'
    <3>1. PICK h \in Nat : h = generation - 1
      BY <2>1, <2>3
    <3>2. ComesFrom(e, h)
      BY <1>4, <1>5, <2>3, <3>1 DEF EvolutionInv, PopulationIsBred
    <3>3. c.mutated = e.mutated /\ c.parents = e.parents /\ c.spec = e.spec
      BY <1>7
    <3>4. ComesFrom(c, h)
      BY <3>2, <3>3 DEF ComesFrom
    <3>5. h # generation
      BY <2>1, <3>1
    <3>6. ComesFrom(c, h)'
      BY <1>10, <3>4, <3>5, DescentKept, OldGenerations
    <3> QED
      BY <1>8, <3>1, <3>6
  <2>4. c.generation = generation
    BY <1>7
  <2>5. ASSUME NEW i \in 1..(n + 1), candidates'[i].generation > 0
        PROVE  ComesFrom(candidates[i], candidates[i].generation - 1)'
    <3>1. CASE i = n + 1
      BY <1>8, <1>9, <2>3, <2>4, <2>5, <3>1
    <3>2. CASE i # n + 1
      <4>1. i \in 1..n
        BY <1>3, <3>2
      <4> QED
        BY <1>9, <2>2, <2>5, <4>1
    <3> QED
      BY <3>1, <3>2
  <2> QED
    BY <1>9, <2>5 DEF CandidatesDescend
<1>15. MeasuresAgree'
  <2>1. c.rows = rows /\ c.spec = e.spec /\ c.fitness = f /\ rows \in Nat
    BY <1>2, <1>7 DEF EvolutionTypes
  <2>2. ASSUME NEW i \in 1..n
        PROVE  /\ candidates[i].rows <= rows
               /\ candidates[i].rows = rows =>
                    /\ candidates[i].spec \in DOMAIN fitness
                    /\ fitness[candidates[i].spec] = candidates[i].fitness
    BY <1>3 DEF EvolutionInv, MeasuresAgree
  <2>3. ASSUME NEW i \in 1..n, candidates[i].rows = rows
        PROVE  /\ candidates[i].spec \in DOMAIN fitness'
               /\ fitness'[candidates[i].spec] = candidates[i].fitness
               /\ candidates[i].spec = e.spec => candidates[i].fitness = f
    <3>1. PICK s : s = candidates[i].spec
      OBVIOUS
    <3>2. s \in DOMAIN fitness /\ fitness[s] = candidates[i].fitness
      BY <2>2, <2>3, <3>1
    <3>3. s = e.spec => f = fitness[s]
      BY <1>6, <3>2
    <3>4. s \in DOMAIN fitness' /\ fitness'[s] = IF s = e.spec THEN f ELSE fitness[s]
      BY <1>6, <3>2
    <3> QED
      BY <3>1, <3>2, <3>3, <3>4
  <2>4. e.spec \in DOMAIN fitness' /\ fitness'[e.spec] = f
    BY <1>6
  <2>5. ASSUME NEW i \in 1..(n + 1)
        PROVE  /\ candidates'[i].rows <= rows
               /\ candidates'[i].rows = rows =>
                    /\ candidates'[i].spec \in DOMAIN fitness'
                    /\ fitness'[candidates'[i].spec] = candidates'[i].fitness
    <3>1. CASE i = n + 1
      BY <1>9, <2>1, <2>4, <3>1
    <3>2. CASE i # n + 1
      <4>1. i \in 1..n
        BY <1>3, <3>2
      <4> QED
        BY <1>9, <2>2, <2>3, <4>1
    <3> QED
      BY <3>1, <3>2
  <2>6. ASSUME NEW i \in 1..(n + 1), NEW j \in 1..(n + 1),
               candidates'[i].rows = candidates'[j].rows, candidates'[i].spec = candidates'[j].spec
        PROVE  candidates'[i].fitness = candidates'[j].fitness
    <3>1. /\ i \in 1..n \/ i = n + 1
          /\ j \in 1..n \/ j = n + 1
      BY <1>3
    <3>2. CASE i \in 1..n /\ j \in 1..n
      BY <1>3, <1>9, <2>6, <3>2 DEF EvolutionInv, MeasuresAgree
    <3>3. CASE i \in 1..n /\ j = n + 1
      BY <1>9, <2>1, <2>3, <2>6, <3>3
    <3>4. CASE i = n + 1 /\ j \in 1..n
      BY <1>9, <2>1, <2>3, <2>6, <3>4
    <3>5. CASE i = n + 1 /\ j = n + 1
      BY <3>5
    <3> QED
      BY <3>1, <3>2, <3>3, <3>4, <3>5
  <2> QED
    BY <1>8, <1>9, <2>5, <2>6 DEF MeasuresAgree
<1>16. ChampionLeads'
  <2>1. \A i \in 1..(n + 1) : i \in 1..n \/ i = n + 1
    BY <1>3
  <2>2. c.status # "promote"
    BY <1>7
  <2>3. \A i : IsPromoted(i)' <=> IsPromoted(i)
    BY <1>3, <1>9, <2>1, <2>2 DEF IsPromoted
  <2>4. \A i, j : IsPromoted(i) /\ IsPromoted(j) => (Succeeds(i, j)' <=> Succeeds(i, j))
    BY <1>3, <1>9 DEF IsPromoted, Succeeds
  <2>5. \A i : IsPromoted(i) => candidates'[i] = candidates[i] /\ i \in DOMAIN candidates
    BY <1>3, <1>9 DEF IsPromoted
  <2> QED
    BY <1>8, <2>3, <2>4, <2>5 DEF EvolutionInv, ChampionLeads
<1> QED
  BY <1>11, <1>12, <1>13, <1>14, <1>15, <1>16 DEF EvolutionInv

LEMMA Remainders ==
  ASSUME NEW i \in Nat, NEW m \in Nat \ {0}
  PROVE  i % m \in 0..(m - 1)
OBVIOUS

LEMMA MutantsAreValid ==
  ASSUME NEW s \in Strategies, NEW g \in Nat
  PROVE  Mutate(s, g) \in Strategies /\ Mutate(s, g).long = s.long
<1>1. /\ s = [short |-> s.short, long |-> s.long, scaled |-> s.scaled]
      /\ s.short \in Int /\ s.long \in Int /\ s.scaled \in BOOLEAN
      /\ 2 <= s.short /\ s.short < s.long /\ s.long <= 252
  BY DEF Strategies, ValidSpecification
<1>2. PICK step \in 1..3 : step = 1 + (g % 3)
  OBVIOUS
<1>3. PICK short \in Int :
        /\ short = IF g % 2 = 0 THEN (IF s.short - step > 2 THEN s.short - step ELSE 2)
                   ELSE (IF s.short + step < s.long - 1 THEN s.short + step ELSE s.long - 1)
        /\ 2 <= short /\ short < s.long
  BY <1>1
<1>4. CASE Hint
  <2>1. PICK v \in BOOLEAN : v = TRUE
    OBVIOUS
  <2>2. Mutate(s, g) = [s EXCEPT !.scaled = v]
    BY <1>4, <2>1 DEF Mutate
  <2>3. [s EXCEPT !.scaled = v] = [short |-> s.short, long |-> s.long, scaled |-> v]
    BY <1>1
  <2> QED
    BY <1>1, <2>2, <2>3 DEF Strategies, ValidSpecification
<1>5. CASE ~Hint
  <2>1. Mutate(s, g) = [s EXCEPT !.short = short]
    BY <1>2, <1>3, <1>5 DEF Mutate
  <2>2. [s EXCEPT !.short = short] = [short |-> short, long |-> s.long, scaled |-> s.scaled]
    BY <1>1
  <2> QED
    BY <1>1, <1>3, <2>1, <2>2 DEF Strategies, ValidSpecification
<1> QED
  BY <1>4, <1>5

\* The next population starts with the best and was bred from this generation.

LEMMA NextPopulationIsBred ==
  ASSUME EvolutionTypes, Current # {}
  PROVE  /\ NextPopulation(Ranked) \in [1..PopulationSize -> Bred]
         /\ NextPopulation(Ranked)[1].spec = candidates[Ranked[1]].spec
         /\ \A k \in 1..PopulationSize : ComesFrom(NextPopulation(Ranked)[k], generation)
<1> DEFINE n == Cardinality(Current)
           parents == ParentsOf(Ranked)
           next == NextPopulation(Ranked)
<1>1. n \in Nat \ {0} /\ Ranked \in [1..n -> Current]
  BY RankedFacts DEF EvolutionTypes
<1>2. Ranked \in Seq(Current) /\ Len(Ranked) = n
  BY <1>1
<1>3. PICK half \in Nat \ {0} : half = PopulationSize \div 2
  BY EvolutionAssumption
<1>4. PICK m \in Nat \ {0} : m = IF Len(Ranked) < half THEN Len(Ranked) ELSE half
  BY <1>1, <1>2
<1>5. parents = SubSeq(Ranked, 1, m) /\ m <= n
  BY <1>1, <1>2, <1>3, <1>4 DEF ParentsOf
<1>6. /\ Len(parents) = m /\ \A i \in 1..m : parents[i] = Ranked[i] /\ parents[i] \in Current
  <2> HIDE DEF n, parents
  <2>1. /\ SubSeq(Ranked, 1, m) \in Seq(Current) /\ Len(SubSeq(Ranked, 1, m)) = m
        /\ \A i \in 1..m : SubSeq(Ranked, 1, m)[i] = Ranked[1 + i - 1]
    BY <1>1, <1>2, <1>5, SubSeqProperties
  <2>2. \A i \in 1..m : i \in 1..n /\ 1 + i - 1 = i
    BY <1>1, <1>5
  <2> QED
    BY <1>1, <1>5, <2>1, <2>2
<1>7. \A i \in Current : candidates[i] \in Measured /\ i \in Nat /\ i \in BestOf(generation)
  BY MeasuredFacts, LenProperties DEF EvolutionTypes, Current, BestOf
<1>8. \A k \in 1..PopulationSize :
        next[k] = IF k <= m THEN Survivor(parents[k]) ELSE Offspring(parents[((k - 1) % m) + 1])
  BY <1>6 DEF NextPopulation
<1>9. ASSUME NEW k \in 1..PopulationSize
      PROVE  next[k] \in Bred /\ ComesFrom(next[k], generation)
  <2>1. CASE k <= m
    <3>1. PICK p \in Current : p = parents[k] /\ next[k] = Survivor(p)
      <4>1. k \in 1..m
        BY <2>1
      <4> QED
        BY <1>6, <1>8, <2>1, <4>1
    <3>2. next[k] = [spec |-> candidates[p].spec, parents |-> candidates[p].parents, mutated |-> FALSE]
      BY <3>1 DEF Survivor, Entry
    <3> HIDE DEF next
    <3>3. next[k] \in Bred
      BY <1>7, <3>2 DEF Bred, Measured
    <3> QED
      BY <1>7, <3>2, <3>3 DEF ComesFrom
  <2>2. CASE ~(k <= m)
    <3>1. PICK p \in Current : next[k] = Offspring(p)
      <4>1. k - 1 \in Nat /\ (k - 1) % m \in 0..(m - 1)
        BY Remainders
      <4>2. ((k - 1) % m) + 1 \in 1..m
        BY <4>1
      <4> QED
        BY <1>6, <1>8, <2>2, <4>2
    <3>2. PICK spec \in Strategies :
            spec = Mutate(candidates[p].spec, generation + 1) /\ spec.long = candidates[p].spec.long
      <4>1. candidates[p].spec \in Strategies /\ generation + 1 \in Nat
        BY <1>7 DEF Measured, EvolutionTypes
      <4> QED
        BY <4>1, MutantsAreValid
    <3>3. next[k] = [spec |-> spec, parents |-> {p}, mutated |-> TRUE]
      BY <3>1, <3>2 DEF Offspring, Entry
    <3> HIDE DEF next
    <3>4. next[k] \in Bred
      BY <1>7, <3>3 DEF Bred
    <3> QED
      BY <1>7, <3>2, <3>3, <3>4 DEF ComesFrom
  <2> QED
    BY <2>1, <2>2
<1>10. next \in [1..PopulationSize -> Bred]
  BY <1>9 DEF NextPopulation
<1>11. next[1].spec = candidates[Ranked[1]].spec
  <2>1. 1 \in 1..PopulationSize /\ 1 <= m /\ 1 \in 1..m
    BY EvolutionAssumption
  <2> HIDE DEF next, parents
  <2>2. next[1] = Survivor(parents[1]) /\ parents[1] = Ranked[1]
    BY <1>6, <1>8, <2>1
  <2>3. Survivor(parents[1]).spec = candidates[parents[1]].spec
    BY DEF Survivor, Entry
  <2> QED
    BY <2>2, <2>3 DEF next
<1> QED
  BY <1>9, <1>10, <1>11

LEMMA DecisionEarned ==
  ASSUME EvolutionTypes, ChampionLeads, NEW p \in Current
  PROVE  LET d == ChampionDecision(candidates[p])
         IN  /\ d \in {"promote", "reject"}
             /\ d = "promote" => \A j \in DOMAIN candidates : IsPromoted(j) => Succeeds(p, j)
<1>1. \A i \in DOMAIN candidates : candidates[i].fitness.score \in Int /\ i \in Nat
  BY MeasuredFacts, LenProperties DEF EvolutionTypes
<1>2. p \in DOMAIN candidates
  BY DEF Current
<1>3. ChampionDecision(candidates[p]) \in {"promote", "reject"}
  BY DEF ChampionDecision
<1>4. ASSUME ChampionDecision(candidates[p]) = "promote", NEW j \in DOMAIN candidates, IsPromoted(j)
      PROVE  Succeeds(p, j)
  <2>1. champion # 0 /\ champion \in DOMAIN candidates /\ IsPromoted(champion) /\ j <= champion
    BY <1>4 DEF ChampionLeads, IsPromoted
  <2>2. /\ candidates[p].fitness.flags \cap Blocking = {}
        /\ candidates[p].fitness.score >= candidates[champion].fitness.score + 2
    BY <1>4, <2>1 DEF ChampionDecision
  <2>3. candidates[j].fitness.score <= candidates[champion].fitness.score
    <3>1. CASE j = champion
      BY <1>1, <3>1
    <3>2. CASE j # champion
      <4>1. j \in 1..(champion - 1)
        <5>1. j \in Nat /\ champion \in Nat /\ j # 0
          BY <1>1, LenProperties DEF EvolutionTypes
        <5> QED
          BY <2>1, <3>2, <5>1
      <4>2. Succeeds(champion, j)
        BY <1>4, <2>1, <4>1 DEF ChampionLeads
      <4> QED
        BY <1>1, <2>1, <4>2 DEF Succeeds
    <3> QED
      BY <3>1, <3>2
  <2> QED
    BY <1>1, <1>2, <2>1, <2>2, <2>3 DEF Succeeds
<1> QED
  BY <1>3, <1>4

LEMMA SelectKeeps == EvolutionInv /\ SelectGeneration => EvolutionInv'
<1> SUFFICES ASSUME EvolutionInv, SelectGeneration
             PROVE  EvolutionInv'
  OBVIOUS
<1>1. PICK b \in 0..Len(candidates) : Underway(b)
  BY DEF EvolutionInv
<1>2. EvolutionTypes
  BY DEF EvolutionInv
<1>3. PICK n \in Nat \ {0} :
        /\ n = Len(candidates) /\ n - b = Len(population) /\ b + 1 \in Current
        /\ Current = (b + 1)..n /\ DOMAIN candidates = 1..n
  <2>1. /\ Current = (b + 1)..Len(candidates) /\ Cardinality(Current) = Len(candidates) - b
        /\ Len(candidates) \in Nat /\ Len(population) \in Nat \ {0}
    BY <1>1, <1>2, CurrentCounted
  <2>2. Cardinality(Current) = Len(population)
    BY DEF SelectGeneration
  <2>3. DOMAIN candidates = 1..Len(candidates)
    BY <1>2, LenProperties DEF EvolutionTypes
  <2>4. Len(candidates) - b = Len(population) /\ Len(candidates) \in Nat \ {0} /\ b + 1 \in Current
    BY <2>1, <2>2
  <2> QED
    BY <2>1, <2>3, <2>4
<1>4. PICK p \in Current : p = Ranked[1] /\ p = Head(Ranked) /\ Leads(p, generation)
  <2>1. /\ Cardinality(Current) \in Nat \ {0} /\ Ranked \in [1..Cardinality(Current) -> Current]
        /\ Leads(Ranked[1], generation)
    BY <1>2, <1>3, RankedFacts DEF EvolutionTypes
  <2>2. Ranked \in Seq(Current) /\ Ranked # << >>
    BY <2>1, EmptySeq
  <2>3. Head(Ranked) = Ranked[1]
    BY <2>2, HeadTailProperties
  <2> QED
    BY <2>1, <2>3
<1>5. PICK d \in {"promote", "reject"} : d = ChampionDecision(candidates[p])
  BY <1>2, <1>4, DecisionEarned DEF EvolutionInv
<1>6. /\ candidates' = [candidates EXCEPT ![p].status = d]
      /\ champion' = IF d = "promote" THEN p ELSE champion
      /\ population' = NextPopulation(Ranked)
      /\ generation' = generation + 1
      /\ UNCHANGED <<rows, fitness>>
  BY <1>4, <1>5 DEF SelectGeneration
<1>7. \A i \in 1..n : candidates[i] \in Measured
  BY <1>2, <1>3, MeasuredFacts DEF EvolutionTypes
<1>8. p \in 1..n /\ p > b
  BY <1>3
<1>9. PICK c \in Measured :
        /\ c = [candidates[p] EXCEPT !.status = d]
        /\ c.spec = candidates[p].spec /\ c.parents = candidates[p].parents
        /\ c.mutated = candidates[p].mutated /\ c.generation = candidates[p].generation
        /\ c.fitness = candidates[p].fitness /\ c.rows = candidates[p].rows /\ c.status = d
  <2>1. PICK o \in Measured : o = candidates[p]
    BY <1>7, <1>8
  <2>2. [o EXCEPT !.status = d] \in Measured
    BY DEF Measured
  <2> QED
    BY <2>1, <2>2 DEF Measured
<1>10. /\ candidates' = [i \in 1..n |-> IF i = p THEN c ELSE candidates[i]]
  BY <1>2, <1>3, <1>6, <1>8, <1>9 DEF EvolutionTypes
<1>11. /\ candidates' \in Seq(Measured) /\ Len(candidates') = n /\ DOMAIN candidates' = 1..n
       /\ candidates'[p] = c /\ \A i \in 1..n : i # p => candidates'[i] = candidates[i]
  <2>1. candidates' \in [1..n -> Measured]
    BY <1>7, <1>10
  <2>2. candidates' \in Seq(Measured) /\ Len(candidates') = n
    BY <2>1
  <2> QED
    BY <1>8, <1>10, <2>1, <2>2
<1>12. KeepsOld
  BY <1>3, <1>9, <1>11 DEF KeepsOld
<1>13. \A g : BestOf(g)' = BestOf(g)
  BY <1>3, <1>11, <1>12 DEF KeepsOld, BestOf
<1>14. /\ population' \in [1..PopulationSize -> Bred]
       /\ population'[1].spec = candidates[p].spec
       /\ \A k \in 1..PopulationSize : ComesFrom(population'[k], generation)
  BY <1>2, <1>3, <1>4, <1>6, NextPopulationIsBred
<1>15. population' \in Seq(Bred) /\ Len(population') = PopulationSize /\ population' # << >>
  <2>1. PopulationSize \in Nat \ {0}
    BY EvolutionAssumption
  <2>2. population' \in Seq(Bred) /\ Len(population') = PopulationSize
    BY <1>14, <2>1
  <2> QED
    BY <2>1, <2>2, EmptySeq
<1>16. EvolutionTypes'
  <2>1. p \in Nat /\ generation' \in Nat
    BY <1>2, <1>6, <1>8 DEF EvolutionTypes
  <2> QED
    BY <1>2, <1>6, <1>11, <1>15, <2>1 DEF EvolutionTypes
<1>17. n \in 0..Len(candidates') /\ Underway(n)'
  <2>1. \A i \in 1..n : i \in 1..b \/ i \in (b + 1)..n
    BY <1>3
  <2>2. ASSUME NEW i \in 1..n
        PROVE  candidates'[i].generation < generation'
    <3>1. candidates'[i].generation = candidates[i].generation
      BY <1>3, <1>12, <2>2 DEF KeepsOld
    <3>2. candidates[i].generation < generation \/ candidates[i].generation = generation
      BY <1>1, <1>3, <2>1 DEF Underway
    <3>3. generation \in Nat /\ candidates[i].generation \in Nat
      BY <1>2, <1>7 DEF EvolutionTypes, Measured
    <3> QED
      BY <1>6, <3>1, <3>2, <3>3
  <2>3. n - n <= PopulationSize /\ (n + 1)..n = {}
    BY EvolutionAssumption
  <2> QED
    BY <1>11, <1>15, <2>2, <2>3 DEF Underway
<1>18. PopulationIsBred'
  <2>1. generation \in Nat /\ generation' - 1 = generation
    BY <1>2, <1>6 DEF EvolutionTypes
  <2>2. ASSUME NEW k \in DOMAIN population'
        PROVE  ComesFrom(population[k], generation - 1)'
    <3>1. PICK e : e = population'[k]
      OBVIOUS
    <3>2. PICK h : h = generation
      OBVIOUS
    <3>3. ComesFrom(e, h)
      BY <1>14, <3>1, <3>2
    <3>4. ComesFrom(e, h)'
      BY <1>12, <1>13, <3>3, DescentKept
    <3> QED
      BY <2>1, <3>1, <3>2, <3>4
  <2>3. /\ p \in BestOf(generation - 1)' /\ Leads(p, generation - 1)'
        /\ population'[1].spec = candidates'[p].spec
    <3>1. PICK h : h = generation
      OBVIOUS
    <3>2. Leads(p, h)' /\ candidates'[p].spec = candidates[p].spec
      BY <1>4, <1>12, <1>13, <3>1, LeadsKept
    <3> QED
      BY <1>14, <2>1, <3>1, <3>2 DEF Leads
  <2> QED
    BY <2>1, <2>2, <2>3 DEF PopulationIsBred
<1>19. CandidatesDescend'
  <2>1. ASSUME NEW i \in 1..n, candidates'[i].generation > 0
        PROVE  ComesFrom(candidates[i], candidates[i].generation - 1)'
    <3>1. PICK o : o = candidates[i]
      OBVIOUS
    <3>2. PICK t : t = candidates'[i]
      OBVIOUS
    <3>3. t.mutated = o.mutated /\ t.parents = o.parents /\ t.spec = o.spec /\ t.generation = o.generation
      BY <1>3, <1>12, <3>1, <3>2 DEF KeepsOld
    <3>4. PICK h : h = o.generation - 1
      OBVIOUS
    <3>5. ComesFrom(o, h)
      BY <1>3, <2>1, <3>1, <3>2, <3>3, <3>4 DEF EvolutionInv, CandidatesDescend
    <3>6. ComesFrom(t, h)
      BY <3>3, <3>5 DEF ComesFrom
    <3>7. ComesFrom(t, h)'
      BY <1>12, <1>13, <3>6, DescentKept
    <3> QED
      BY <3>2, <3>3, <3>4, <3>7
  <2> QED
    BY <1>11, <2>1 DEF CandidatesDescend
<1>20. MeasuresAgree'
  <2>1. \A i \in 1..n : /\ candidates'[i].spec = candidates[i].spec
                        /\ candidates'[i].fitness = candidates[i].fitness
                        /\ candidates'[i].rows = candidates[i].rows
    BY <1>3, <1>12 DEF KeepsOld
  <2>2. ASSUME NEW i \in 1..n, NEW j \in 1..n,
               candidates'[i].rows = candidates'[j].rows /\ candidates'[i].spec = candidates'[j].spec
        PROVE  candidates'[i].fitness = candidates'[j].fitness
    <3>1. candidates[i].rows = candidates[j].rows /\ candidates[i].spec = candidates[j].spec
      BY ONLY <2>1, <2>2
    <3>2. candidates[i].fitness = candidates[j].fitness
      BY <1>3, <3>1 DEF EvolutionInv, MeasuresAgree
    <3> QED
      BY ONLY <2>1, <3>2
  <2>3. DOMAIN candidates' = 1..n
    BY <1>11
  <2>4. \A i, j \in 1..n :
          candidates'[i].rows = candidates'[j].rows /\ candidates'[i].spec = candidates'[j].spec =>
            candidates'[i].fitness = candidates'[j].fitness
    BY ONLY <2>2
  <2>5. ASSUME NEW i \in 1..n
        PROVE  /\ candidates'[i].rows <= rows'
               /\ candidates'[i].rows = rows' =>
                    /\ candidates'[i].spec \in DOMAIN fitness'
                    /\ fitness'[candidates'[i].spec] = candidates'[i].fitness
    <3>1. /\ candidates[i].rows <= rows
          /\ candidates[i].rows = rows =>
               candidates[i].spec \in DOMAIN fitness /\ fitness[candidates[i].spec] = candidates[i].fitness
      BY <1>3 DEF EvolutionInv, MeasuresAgree
    <3> QED
      BY <1>6, <2>1, <3>1
  <2> QED
    BY ONLY <2>3, <2>4, <2>5 DEF MeasuresAgree
<1>21. ChampionLeads'
  <2>1. ChampionLeads /\ generation \in Nat /\ champion \in Nat
    BY <1>2 DEF EvolutionInv, EvolutionTypes
  <2>2. /\ ~IsPromoted(p)
        /\ \A i : IsPromoted(i) => i \in 1..b
    <3>1. \A i \in 1..n : i \in 1..b \/ i \in (b + 1)..n
      BY <1>3
    <3>2. \A i \in (b + 1)..n : ~IsPromoted(i)
      <4>1. \A i \in (b + 1)..n : candidates[i].generation = generation
        BY <1>1, <1>3 DEF Underway
      <4> QED
        BY <1>3, <2>1, <4>1 DEF ChampionLeads, IsPromoted
    <3> QED
      BY <1>3, <3>1, <3>2 DEF IsPromoted
  <2>3. \A i : i # p => (IsPromoted(i)' <=> IsPromoted(i))
    BY <1>3, <1>11 DEF IsPromoted
  <2>4. IsPromoted(p)' <=> d = "promote"
    BY <1>8, <1>9, <1>11 DEF IsPromoted
  <2>5. \A i, j \in 1..n : Succeeds(i, j)' <=> Succeeds(i, j)
    BY <1>3, <1>12 DEF KeepsOld, Succeeds
  <2>6. \A i \in 1..n : candidates'[i].generation = candidates[i].generation
    BY <1>3, <1>12 DEF KeepsOld
  <2>7. \A i \in 1..n : candidates[i].generation \in Nat
    BY <1>7 DEF Measured
  <2>8. candidates[p].generation = generation
    BY <1>4 DEF Leads, BestOf
  <2>9. \A i : IsPromoted(i)' => i \in 1..n
    BY <1>11 DEF IsPromoted
  <2>10. champion' = 0 => \A i \in DOMAIN candidates' : ~IsPromoted(i)'
    BY <1>3, <1>6, <1>8, <1>11, <2>1, <2>3, <2>4 DEF ChampionLeads
  <2>11. champion' # 0 => IsPromoted(champion)'
    <3>1. CASE d = "promote"
      BY <1>6, <2>4, <3>1
    <3>2. CASE d # "promote"
      <4>1. champion' = champion
        BY <1>6, <3>2
      <4>2. champion # 0 => IsPromoted(champion) /\ champion # p
        BY <2>1, <2>2 DEF ChampionLeads
      <4>3. PICK i : i = champion
        OBVIOUS
      <4>4. i # 0 => IsPromoted(i)'
        BY <2>3, <4>2, <4>3
      <4> QED
        BY <4>1, <4>3, <4>4 DEF IsPromoted
    <3> QED
      BY <3>1, <3>2
  <2>12. ASSUME NEW i \in 1..n, IsPromoted(i)'
         PROVE  /\ candidates'[i].generation < generation' /\ i <= champion'
                /\ \A j \in 1..(i - 1) : IsPromoted(j)' => Succeeds(i, j)'
    <3>1. candidates'[i].generation < generation'
      <4>1. candidates[i].generation < generation + 1
        <5>1. CASE i = p
          BY <2>1, <2>8, <5>1
        <5>2. CASE i # p
          <6>1. IsPromoted(i)
            BY <2>3, <2>12, <5>2
          <6>2. candidates[i].generation < generation
            BY <1>3, <2>1, <6>1 DEF ChampionLeads
          <6> QED
            BY <2>1, <2>7, <6>2
        <5> QED
          BY <5>1, <5>2
      <4> QED
        BY <1>6, <2>6, <4>1
    <3>2. i <= champion'
      <4>1. CASE d = "promote"
        <5>1. champion' = p
          BY <1>6, <4>1
        <5>2. i # p => i \in 1..b
          BY <2>2, <2>3, <2>12
        <5> QED
          BY <1>3, <1>8, <5>1, <5>2
      <4>2. CASE d # "promote"
        <5>1. i # p /\ champion' = champion
          BY <1>6, <2>4, <2>12, <4>2
        <5>2. IsPromoted(i)
          BY <2>3, <2>12, <5>1
        <5> QED
          BY <1>3, <2>1, <5>1, <5>2 DEF ChampionLeads
      <4> QED
        BY <4>1, <4>2
    <3>3. ASSUME NEW j \in 1..(i - 1), IsPromoted(j)'
          PROVE  Succeeds(i, j)'
      <4>1. j \in 1..n /\ j < i
        BY <1>3
      <4>2. j # p
        <5>1. CASE i = p
          BY <1>8, <4>1, <5>1
        <5>2. CASE i # p
          <6>1. i \in 1..b
            BY <2>2, <2>3, <2>12, <5>2
          <6> QED
            BY <1>3, <1>8, <4>1, <6>1
        <5> QED
          BY <5>1, <5>2
      <4>3. IsPromoted(j)
        BY <2>3, <3>3, <4>2
      <4>4. Succeeds(i, j)
        <5>1. CASE i = p
          BY <1>2, <1>3, <1>5, <2>1, <2>4, <2>12, <4>1, <4>3, <5>1, DecisionEarned
        <5>2. CASE i # p
          <6>1. IsPromoted(i)
            BY <2>3, <2>12, <5>2
          <6> QED
            BY <1>3, <2>1, <4>3, <6>1 DEF ChampionLeads
        <5> QED
          BY <5>1, <5>2
      <4> QED
        BY <2>5, <4>1, <4>4
    <3> QED
      BY <3>1, <3>2, <3>3
  <2> QED
    BY <1>11, <2>10, <2>11, <2>12 DEF ChampionLeads
<1>22. \A g \in 0..(generation' - 2) : NeverWorse(g)'
  <2>1. generation \in Nat
    BY <1>2 DEF EvolutionTypes
  <2>2. ASSUME generation > 0
        PROVE  NeverWorse(generation - 1)
    <3>1. PICK q \in BestOf(generation - 1) :
            Leads(q, generation - 1) /\ population[1].spec = candidates[q].spec
      BY <2>2 DEF EvolutionInv, PopulationIsBred
    <3>2. /\ b + 1 \in BestOf(generation) /\ candidates[b + 1].spec = population[1].spec
      <4>1. b + 1 \in (b + 1)..Len(candidates) /\ (b + 1) - b = 1
        BY <1>3
      <4>2. candidates[b + 1].spec = population[(b + 1) - b].spec
        BY <1>1, <4>1 DEF Underway
      <4> QED
        BY <1>3, <4>1, <4>2 DEF Current, BestOf
    <3>3. ASSUME SameRows(generation - 1)
          PROVE  candidates[b + 1].fitness = candidates[q].fitness
      <4>1. (generation - 1) + 1 = generation
        BY <2>1
      <4>2. candidates[b + 1].rows = candidates[q].rows
        BY <3>1, <3>2, <3>3, <4>1 DEF SameRows
      <4> QED
        BY <3>1, <3>2, <4>2 DEF EvolutionInv, MeasuresAgree, BestOf
    <3>4. ASSUME SameRows(generation - 1), NEW i \in BestOf(generation - 1)
          PROVE  candidates[b + 1].fitness.score >= candidates[i].fitness.score
      <4>1. candidates[i].fitness.score <= candidates[q].fitness.score
        BY <3>1 DEF Leads
      <4>2. candidates[i].fitness.score \in Int /\ candidates[q].fitness.score \in Int
        BY <1>2, <3>1, MeasuredFacts DEF EvolutionTypes, BestOf
      <4>3. candidates[b + 1].fitness = candidates[q].fitness
        BY <3>3, <3>4
      <4> QED
        BY <4>1, <4>2, <4>3
    <3>5. (generation - 1) + 1 = generation
      BY <2>1
    <3> QED
      BY <3>2, <3>4, <3>5 DEF NeverWorse
  <2>3. ASSUME NEW g \in 0..(generation' - 2)
        PROVE  NeverWorse(g)'
    <3>1. g = generation - 1 \/ g \in 0..(generation - 2)
      BY <1>6, <2>1
    <3>2. NeverWorse(g)
      BY <1>6, <2>1, <2>2, <3>1 DEF EvolutionInv
    <3> QED
      BY <1>12, <1>13, <3>2, NeverWorseKept
  <2> QED
    BY <2>3
<1> QED
  BY SMTT(30), <1>16, <1>17, <1>18, <1>19, <1>20, <1>21, <1>22 DEF EvolutionInv

\* The candidates do not change, and what was measured on old rows is forgotten or kept.
LEMMA CandidatesStay ==
  ASSUME EvolutionInv, UNCHANGED <<population, candidates, champion, generation>>,
         \/ rows' = rows + 1 /\ fitness' = << >>
         \/ UNCHANGED <<rows, fitness>>
  PROVE  EvolutionInv'
<1>1. EvolutionTypes /\ candidates' = candidates /\ population' = population
  BY DEF EvolutionInv
<1>2. rows \in Nat /\ \A i \in DOMAIN candidates : candidates[i].rows \in Nat
  BY <1>1, MeasuredFacts DEF EvolutionTypes, Measured
<1>3. EvolutionTypes'
  <2>1. DOMAIN << >> = {}
    BY EmptySeq
  <2>2. << >> \in [DOMAIN << >> -> Measures]
    BY <2>1
  <2> QED
    <3>1. rows' \in Nat
      BY <1>2
    <3>2. fitness' \in [DOMAIN fitness' -> Measures]
      BY <1>1, <2>2 DEF EvolutionTypes
    <3> QED
      BY <1>1, <3>1, <3>2 DEF EvolutionTypes
<1>4. \E b \in 0..Len(candidates') : Underway(b)'
  BY DEF EvolutionInv, Underway
<1>5. PopulationIsBred' /\ CandidatesDescend'
  BY DEF EvolutionInv, PopulationIsBred, CandidatesDescend, ComesFrom, Leads, BestOf
<1>6. MeasuresAgree'
  <2>1. CASE rows' = rows + 1
    BY <1>1, <1>2, <2>1 DEF EvolutionInv, MeasuresAgree
  <2>2. CASE UNCHANGED <<rows, fitness>>
    BY <1>1, <2>2 DEF EvolutionInv, MeasuresAgree
  <2> QED
    BY <2>1, <2>2
<1>7. ChampionLeads'
  BY DEF EvolutionInv, ChampionLeads, IsPromoted, Succeeds
<1>8. \A g \in 0..(generation' - 2) : NeverWorse(g)'
  BY DEF EvolutionInv, NeverWorse, SameRows, BestOf
<1> QED
  BY <1>3, <1>4, <1>5, <1>6, <1>7, <1>8 DEF EvolutionInv

LEMMA EvolutionInvKeepsBest == EvolutionInv => EvolutionKeepsBest
<1> SUFFICES ASSUME EvolutionInv
             PROVE  EvolutionKeepsBest
  OBVIOUS
<1>1. /\ \A i \in DOMAIN candidates : candidates[i] \in Measured /\ candidates[i].fitness.score \in Int
      /\ DOMAIN candidates = 1..Len(candidates) /\ Len(candidates) \in Nat
      /\ champion \in Nat /\ generation \in Nat
  BY MeasuredFacts, LenProperties DEF EvolutionInv, EvolutionTypes
<1>2. ReportedChampion = champion
  <2> DEFINE promoted == {i \in DOMAIN candidates : candidates[i].status = "promote"}
  <2>1. CASE champion = 0
    <3>1. promoted = {}
      BY <2>1 DEF EvolutionInv, ChampionLeads, IsPromoted
    <3> QED
      BY <2>1, <3>1 DEF ReportedChampion
  <2>2. CASE champion # 0
    <3>1. /\ champion \in promoted
          /\ \A j \in promoted : j # champion =>
               candidates[j].fitness.score < candidates[champion].fitness.score
      <4>1. IsPromoted(champion) /\ \A j \in promoted : IsPromoted(j) /\ j <= champion
        BY <2>2 DEF EvolutionInv, ChampionLeads, IsPromoted
      <4>2. \A j \in promoted : j # champion => j \in 1..(champion - 1)
        BY <1>1, <4>1
      <4> QED
        BY <4>1, <4>2 DEF EvolutionInv, ChampionLeads, IsPromoted, Succeeds
    <3>2. \A j \in promoted : candidates[j].fitness.score \in Int /\ j \in Nat
      BY <1>1
    <3> HIDE DEF promoted
    <3>3. \A j \in promoted : ~Before(j, champion)
      BY <3>1, <3>2 DEF Before
    <3>4. \A i \in promoted : (\A j \in promoted : ~Before(j, i)) => i = champion
      BY <3>1, <3>2 DEF Before
    <3>5. champion = CHOOSE i \in promoted : \A j \in promoted : ~Before(j, i)
      BY <3>1, <3>3, <3>4
    <3> QED
      BY <3>1, <3>5 DEF ReportedChampion, promoted
  <2> QED
    BY <2>1, <2>2
<1>3. ASSUME NEW i \in DOMAIN candidates
      PROVE  /\ ValidSpecification(candidates[i].spec)
             /\ candidates[i].generation > 0 =>
                  \E p \in BestOf(candidates[i].generation - 1) :
                    IF candidates[i].mutated
                      THEN candidates[i].parents = {p} /\ candidates[i].spec.long = candidates[p].spec.long
                      ELSE candidates[i].parents = candidates[p].parents
                           /\ candidates[i].spec = candidates[p].spec
             /\ candidates[i].status = "promote" =>
                  \A j \in 1..(i - 1) : candidates[j].status = "promote" =>
                    /\ candidates[j].fitness.score < candidates[i].fitness.score
                    /\ candidates[i].fitness.flags \cap Blocking = {}
  <2>1. ValidSpecification(candidates[i].spec)
    BY <1>1 DEF Measured, Strategies
  <2>2. candidates[i].generation > 0 => ComesFrom(candidates[i], candidates[i].generation - 1)
    BY DEF EvolutionInv, CandidatesDescend
  <2>3. \A j \in 1..(i - 1) : j \in DOMAIN candidates
    BY <1>1
  <2>4. \A j \in 1..(i - 1) : IsPromoted(i) /\ IsPromoted(j) => Succeeds(i, j)
    BY DEF EvolutionInv, ChampionLeads
  <2> QED
    BY <2>1, <2>2, <2>3, <2>4 DEF ComesFrom, IsPromoted, Succeeds
<1>4. ASSUME NEW g \in 0..(generation - 2),
             Cardinality({candidates[i].rows : i \in BestOf(g) \cup BestOf(g + 1)}) = 1
      PROVE  \A i \in BestOf(g) : \E j \in BestOf(g + 1) :
               candidates[j].fitness.score >= candidates[i].fitness.score
  <2> DEFINE both == BestOf(g) \cup BestOf(g + 1)
             versions == {candidates[i].rows : i \in both}
  <2>1. IsFiniteSet(both)
    <3>1. both \subseteq DOMAIN candidates /\ IsFiniteSet(DOMAIN candidates)
      BY <1>1, FS_Interval DEF BestOf
    <3> HIDE DEF both
    <3> QED
      BY <3>1, FS_Subset
  <2>2. IsFiniteSet(versions)
    <3> DEFINE at == [i \in both |-> candidates[i].rows]
    <3> HIDE DEF both
    <3>1. at \in [both -> versions] /\ \A v \in versions : \E i \in both : at[i] = v
      OBVIOUS
    <3> HIDE DEF at, versions
    <3>2. at \in Surjection(both, versions)
      BY <3>1 DEF Surjection
    <3> QED
      BY <2>1, <3>2, FS_Surjection
  <2>3. PICK v : versions = {v}
    <3>1. Cardinality(versions) = 1
      BY <1>4
    <3> HIDE DEF versions
    <3> QED
      BY <2>2, <3>1, FS_Singleton
  <2>4. SameRows(g)
    <3>1. \A i \in both : candidates[i].rows = v
      <4>1. \A i \in both : candidates[i].rows \in versions
        OBVIOUS
      <4> HIDE DEF versions
      <4> QED
        BY <2>3, <4>1
    <3> QED
      BY <3>1 DEF SameRows
  <2>5. NeverWorse(g)
    BY DEF EvolutionInv
  <2> QED
    BY <2>4, <2>5 DEF NeverWorse
<1> QED
  BY <1>2, <1>3, <1>4 DEF EvolutionKeepsBest

\* An evolution never loses what it found: the champion it tracks is the one it reports, each

\* champion was better than those before it and failed in no regime, no generation measured on
\* the rows of the one before it is worse, and every candidate descends from the generation
\* before, for any population, scores and market rows committed meanwhile (create_run of
\* evolution/service.py).
THEOREM EvolutionIsMonotone == Spec => []EvolutionKeepsBest
<1>1. Init => EvolutionInv
  BY EvolutionInitInv DEF Init
<1>2. EvolutionInv /\ [Next]_deskVars => EvolutionInv'
  <2> SUFFICES ASSUME EvolutionInv, [Next]_deskVars
               PROVE  EvolutionInv'
    OBVIOUS
  <2>1. EvolutionNext \/ UNCHANGED evolutionVars
    <3>1. CASE UNCHANGED deskVars
      BY <3>1 DEF deskVars
    <3>2. CASE Next
      BY <3>2 DEF Next, AskSplits, AskReleases, AskSignals, AskPortfolio, AskRegimes, AskSearch,
         AskFactor, AskWeights, AskRouting, AskStress, Answered, Evolve, Simulation, Promote,
         Research
    <3> QED
      BY <3>1, <3>2
  <2>2. CASE EvaluateCandidate
    BY <2>2, EvaluateKeeps
  <2>3. CASE SelectGeneration
    BY <2>3, SelectKeeps
  <2>4. CASE MarketRowsChange
    BY <2>4, CandidatesStay DEF MarketRowsChange
  <2>5. CASE UNCHANGED evolutionVars
    BY <2>5, CandidatesStay DEF evolutionVars
  <2> QED
    BY <2>1, <2>2, <2>3, <2>4, <2>5 DEF EvolutionNext
<1>3. EvolutionInv => EvolutionKeepsBest
  BY EvolutionInvKeepsBest
<1> QED
  BY <1>1, <1>2, <1>3, PTL DEF Spec
=============================================================================
