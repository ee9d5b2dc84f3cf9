-------------------------- MODULE HealthProperties --------------------------
(***************************************************************************)
(* What the health of a strategy promises while requests overlap.          *)
(***************************************************************************)
EXTENDS StrategyHealth

HealthRow == [state : States \cup {None}, lifecycle : Lifecycles]

Observation == [at : Times, alpha : 0..4, enough : BOOLEAN, state : States]

DecisionRow == [type : {"STRATEGY_HEALTH_TRANSITION", "STRATEGY_LIFECYCLE_TRANSITION",
                        "RESEARCH_TRIGGERED"},
                outcome : States \cup {"CAMPAIGN_CREATED"}]

TriggerRow == [schedule : Schedules, type : {"PERIODIC_REVIEW", "STRATEGY_DEGRADED"},
               day : 1..MaxDay]

Rows == [health : HealthRow, observations : Seq(Observation), ledger : Seq(DecisionRow),
         lastRun : UNION {[S -> 0..MaxDay] : S \in SUBSET Schedules},
         triggers : Seq(TriggerRow)]

TypeOK ==
  /\ db \in Rows
  /\ open \in [Clients -> {None} \cup [call : Calls, read : Rows]]
  /\ day \in 1..MaxDay
  /\ requests \in 0..MaxRequests
  /\ overwritten \in BOOLEAN

\* the decisions about the state
Decided(ledger) == {i \in DOMAIN ledger : ledger[i].outcome \in States}

WasDecided(ledger, state) == \E i \in Decided(ledger) : ledger[i].outcome = state

LastDecided(ledger, state) ==
  \E i \in Decided(ledger) : /\ ledger[i].outcome = state
                             /\ \A j \in Decided(ledger) : j <= i

\* Every state the row has held was decided, and the last decision about the state names the
\* one it is in; only a commit over a row its transaction had not read can part them.
LedgerExplainsState ==
  db.health # Absent =>
    /\ WasDecided(db.ledger, db.health.state)
    /\ ~overwritten => LastDecided(db.ledger, db.health.state)

\* A strategy is never found degraded on its first poor window, whatever order windows
\* arrive in and whatever overlaps: an earlier commit holds another poor one.
DegradedTwice ==
  \A i \in 1..Len(db.observations) :
    db.observations[i].state = "DEGRADED" =>
      /\ Poor(db.observations[i])
      /\ \E j \in 1..(i - 1) : Poor(db.observations[j])

\* A retired strategy keeps its state, its lifecycle and its allocation of nothing, and no
\* window is recorded for it; only a request that had read it before may undo that.
RetiredForGood ==
  [][db.health.state = "RETIRED" /\ ~overwritten' =>
       /\ db'.health = db.health
       /\ db'.observations = db.observations
       /\ AllocationMultiplier(db'.health.state) = 0]_vars

\* the lifecycles that go with a state
Matching(state) ==
  CASE state = "RETIRED"   -> {"RETIRE"}
    [] state = "SUSPENDED" -> {"DE_RISK"}
    [] state = "DEGRADED"  -> {"DE_RISK", "INVESTIGATE"}
    [] state = "WATCH"     -> {"INVESTIGATE"}
    [] OTHER               -> {"ACTIVE", "RETAIN"}

\* State and lifecycle say the same, although they are columns that two transactions may
\* each write one of; only a commit over an unread row can tear them.
LifecycleMatchesState ==
  db.health # Absent /\ ~overwritten => db.health.lifecycle \in Matching(db.health.state)

\* What an open transaction has read is behind the rows: they only grow.
ReadsBehind ==
  \A c \in Clients : open[c] # None =>
    LET read == open[c].read
    IN  /\ read.health # Absent => read.health.state \in States /\ db.health # Absent
        /\ DOMAIN read.lastRun \subseteq DOMAIN db.lastRun
        /\ \A i \in DOMAIN read.observations :
             i \in DOMAIN db.observations /\ read.observations[i] = db.observations[i]

\* Triggers are of the past, and last_run_at is not before the last review it counts.
ReviewsDated ==
  \A i \in DOMAIN db.triggers :
    LET t == db.triggers[i]
    IN  /\ t.day <= day
        /\ t.type = "PERIODIC_REVIEW" =>
             t.schedule \in DOMAIN db.lastRun /\ db.lastRun[t.schedule] >= t.day

\* What is recorded of a strategy agrees: every state it had was decided, whatever overlaps,
\* and until a commit overwrites a row its transaction had not read the last decision names its
\* state and its lifecycle says the same.  What open transactions have read makes it inductive.
HealthInv ==
  TypeOK /\ ReadsBehind /\ ReviewsDated /\ LedgerExplainsState /\ LifecycleMatchesState

\* A schedule starts one campaign a day for each kind of trigger, and reviews no more often
\* than its cadence unless two runs of the schedules overlap.
CadenceKept ==
  \A i, j \in 1..Len(db.triggers) :
    LET s == db.triggers[i]
        t == db.triggers[j]
    IN  i < j /\ s.schedule = t.schedule /\ s.type = t.type =>
          /\ s.day # t.day
          /\ s.type = "PERIODIC_REVIEW" /\ ~overwritten => t.day >= s.day + Cadence
=============================================================================
