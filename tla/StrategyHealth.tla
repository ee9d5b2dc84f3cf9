--------------------------- MODULE StrategyHealth ---------------------------
(***************************************************************************)
(* The health of one deployed strategy and the research it triggers        *)
(* (app/strategy_health/service.py, app/api/routes/strategy_health.py).    *)
(*                                                                         *)
(* Every request is a transaction of its own: a step that reads and a step *)
(* that commits, between which other requests commit.  A flush writes the  *)
(* columns whose value differs from the one that was read.                 *)
(***************************************************************************)
EXTENDS Naturals, Sequences, FiniteSets, Functions

CONSTANTS
  Clients,      \* of the HTTP API
  None,
  Windows,      \* what a request may report: see Window
  Times,        \* observed_at of a window
  Schedules,    \* rows of research_schedules that may be created
  Mode,         \* of each schedule; an event schedule lists STRATEGY_DEGRADED
  Cadence,      \* cadence_days
  MaxRequests,  \* bound on the requests
  MaxDay        \* bound on the calendar

Window == [enough : BOOLEAN,   \* MIN_OBSERVATIONS and MIN_TRADES are reached
           alpha  : 0..4,      \* components of the strategy below their threshold
           costly : BOOLEAN,   \* the execution component is
           weak   : BOOLEAN]   \* regime_context expects weakness

ASSUME HealthAssumption ==
  /\ Windows \subseteq Window
  /\ Times \subseteq Nat
  /\ IsFiniteSet(Schedules)
  /\ Mode \in [Schedules -> {"PERIODIC", "EVENT_TRIGGERED", "HYBRID"}]
  /\ Cadence \in Nat \ {0} /\ MaxRequests \in Nat /\ MaxDay \in Nat \ {0}
  /\ None \notin {"HEALTHY", "WATCH", "DEGRADED", "SUSPENDED", "RETIRED"}

VARIABLES
  db,          \* the committed rows: see Init
  open,        \* the open transaction of each client: its call and what it has read
  day,         \* the date
  requests,    \* how many requests there were
  overwritten  \* has a transaction committed over a row it had not read?

vars == <<db, open, day, requests, overwritten>>

States     == {"HEALTHY", "WATCH", "DEGRADED", "SUSPENDED", "RETIRED"}
Lifecycles == {"ACTIVE", "MONITORED", "RETAIN", "INVESTIGATE", "DE_RISK", "RETIRE"}

\* no row in strategy_health; MONITORED is what the code reads from a missing row
Absent == [state |-> None, lifecycle |-> "MONITORED"]

Init ==
  /\ db = [health |-> Absent,
           observations |-> <<>>,                \* in the order of their commits
           ledger |-> <<>>,                      \* decisions of the strategy
           lastRun |-> [s \in {} |-> 0],         \* of each schedule, 0 for never
           triggers |-> <<>>]
  /\ open = [c \in Clients |-> None]
  /\ day = 1
  /\ requests = 0
  /\ overwritten = FALSE

-----------------------------------------------------------------------------
(* The assessment of a window. *)

\* flags of the strategy itself are raised on sufficient samples only
AlphaFlags(w) == IF w.enough THEN w.alpha ELSE 0
Poor(o)       == o.alpha >= 2

\* The faulty AssessHealth of a mutant: the window itself counts as a prior one.
AssessAtOnce(w, priorDegraded) ==
  CASE ~w.enough                   -> "HEALTHY"
    [] w.enough /\ w.alpha >= 2    -> "DEGRADED"
    [] OTHER                       -> "WATCH"

AssessHealth(w, priorDegraded) ==
  CASE ~w.enough                                     -> "HEALTHY"
    [] w.enough /\ w.alpha = 0 /\ (w.weak \/ w.costly) -> "WATCH"
    [] w.enough /\ w.alpha = 0 /\ ~w.weak /\ ~w.costly -> "HEALTHY"
    [] w.enough /\ w.alpha = 1                       -> "WATCH"
    [] w.enough /\ w.alpha >= 2                      -> IF priorDegraded > 0 THEN "DEGRADED"
                                                       ELSE "WATCH"

\* how many of the last two windows by observed_at were poor, whatever order they were
\* reported in; equal timestamps come in any order
PriorDegraded(observations) ==
  {Cardinality({i \in last : Poor(observations[i])}) :
     last \in {L \in SUBSET DOMAIN observations :
                /\ Cardinality(L) = IF Len(observations) > 2 THEN 2 ELSE Len(observations)
                /\ \A i \in L, j \in DOMAIN observations \ L :
                     observations[j].at <= observations[i].at}}

LifecycleAfter(state, lifecycle) ==
  CASE state = "DEGRADED" -> "DE_RISK"
    [] state = "WATCH"    -> "INVESTIGATE"
    [] state = "HEALTHY" /\ lifecycle \in {"MONITORED", "INVESTIGATE", "DE_RISK"} -> "RETAIN"
    [] OTHER              -> lifecycle

LifecycleOf(target) ==
  CASE target = "RETIRED"   -> "RETIRE"
    [] target = "SUSPENDED" -> "DE_RISK"
    [] target = "HEALTHY"   -> "ACTIVE"
    [] OTHER                -> "INVESTIGATE"

AllocationMultiplier(state) ==
  CASE state = "HEALTHY" -> 100 [] state = "WATCH" -> 90 [] state = "DEGRADED" -> 50 [] OTHER -> 0

-----------------------------------------------------------------------------
(* Rows. *)

\* UPDATE strategy_health SET the columns that differ from what was read
Flush(read, row) ==
  [state |-> IF row.state = read.state THEN db.health.state ELSE row.state,
   lifecycle |-> IF row.lifecycle = read.lifecycle THEN db.health.lifecycle ELSE row.lifecycle]

Decision(type, outcome) == [type |-> type, outcome |-> outcome]

Trigger(s, type) == [schedule |-> s, type |-> type, day |-> day]

\* SELECT on the deduplication key, and the unique constraint behind it
Duplicate(rows, t) == \E i \in 1..Len(rows.triggers) : rows.triggers[i] = t

\* a trigger, its campaign and its decision, unless it repeats one of the day
CreateTrigger(rows, t) ==
  IF Duplicate(rows, t) THEN rows
  ELSE [rows EXCEPT !.triggers = Append(@, t),
                    !.ledger = Append(@, Decision("RESEARCH_TRIGGERED", "CAMPAIGN_CREATED"))]

Created == DOMAIN db.lastRun

EventSchedules == {s \in Created : Mode[s] \in {"EVENT_TRIGGERED", "HYBRID"}}

\* The faulty PeriodicDue of a mutant: due again a day early.
PeriodicDueEarly(lastRun, s) ==
  /\ Mode[s] \in {"PERIODIC", "HYBRID"}
  /\ lastRun[s] = 0 \/ day + 1 >= lastRun[s] + Cadence

PeriodicDue(lastRun, s) ==
  /\ Mode[s] \in {"PERIODIC", "HYBRID"}
  /\ lastRun[s] = 0 \/ day >= lastRun[s] + Cadence

-----------------------------------------------------------------------------
(* Transactions. *)

Calls ==
  [op : {"observe"}, window : Windows, at : Times] \cup [op : {"transition"}, target : States]
    \cup [op : {"schedule"}, id : Schedules] \cup [op : {"run"}]

Begin(c, call) ==
  /\ open[c] = None
  /\ requests < MaxRequests
  /\ requests' = requests + 1
  /\ open' = [open EXCEPT ![c] = [call |-> call, read |-> db]]
  /\ UNCHANGED <<db, day, overwritten>>

Commit(c, rows) ==
  /\ db' = rows
  /\ overwritten' =
       \/ overwritten
       \/ open[c].call.op \in {"observe", "transition"} /\ db.health # open[c].read.health
       \/ open[c].call.op = "run" /\ db.lastRun # open[c].read.lastRun
  /\ open' = [open EXCEPT ![c] = None]
  /\ UNCHANGED <<day, requests>>

\* The faulty Retired of a mutant: windows of a retired strategy are accepted.
NeverRetired(call, row) == call.op = "transition" /\ row.state = "RETIRED"

\* what a request that meets a retired strategy is refused for
Retired(call, row) ==
  \/ call.op = "observe" /\ row.lifecycle = "RETIRE"
  \/ call.op = "transition" /\ row.state = "RETIRED"

\* The faulty Recorded of a mutant: a decision only when the strategy gets worse.
RecordedWhenWorse(rows, read, state) ==
  IF state = "HEALTHY" THEN rows
  ELSE [rows EXCEPT !.ledger = Append(@, Decision("STRATEGY_HEALTH_TRANSITION", state))]

Recorded(rows, read, state) ==
  IF read.state = state THEN rows
  ELSE [rows EXCEPT !.ledger = Append(@, Decision("STRATEGY_HEALTH_TRANSITION", state))]

RecordObservation(c) == \E prior \in PriorDegraded(open[c].read.observations) :
  LET call  == open[c].call
      read  == open[c].read.health
      state == AssessHealth(call.window, prior)
      row   == [state |-> state, lifecycle |-> LifecycleAfter(state, read.lifecycle)]
      rows  == Recorded([db EXCEPT !.health = Flush(read, row),
                                   !.observations =
                                     Append(@, [at |-> call.at, alpha |-> AlphaFlags(call.window),
                                                enough |-> call.window.enough, state |-> state])],
                        read, state)
  IN  /\ call.op = "observe"
      /\ ~Retired(call, read)
      /\ read = Absent => db.health = Absent   \* else the second INSERT fails
      /\ IF state = "DEGRADED" /\ EventSchedules # {}
           THEN \E s \in EventSchedules :
                  Commit(c, CreateTrigger(rows, Trigger(s, "STRATEGY_DEGRADED")))
           ELSE Commit(c, rows)

Transition(c) ==
  LET call == open[c].call
      read == open[c].read.health
      row  == [state |-> call.target, lifecycle |-> LifecycleOf(call.target)]
  IN  /\ call.op = "transition"
      /\ read # Absent
      /\ ~Retired(call, read)
      /\ Commit(c, [db EXCEPT !.health = Flush(read, row),
                              !.ledger = Append(@, Decision("STRATEGY_LIFECYCLE_TRANSITION",
                                                            call.target))])

CreateSchedule(c) ==
  LET call == open[c].call
  IN  /\ call.op = "schedule"
      /\ call.id \notin Created
      /\ Commit(c, [db EXCEPT !.lastRun = [s \in Created \cup {call.id} |->
                                             IF s = call.id THEN 0 ELSE db.lastRun[s]]])

\* every due schedule gets its trigger, in any order and in one transaction; a schedule
\* whose trigger is a duplicate keeps its last_run_at
RunDueSchedules(c) ==
  LET read == open[c].read
      due  == {s \in DOMAIN read.lastRun : PeriodicDue(read.lastRun, s)}
      new  == {s \in due : ~Duplicate(db, Trigger(s, "PERIODIC_REVIEW"))}
      last == [s \in Created |-> IF s \in new THEN day ELSE db.lastRun[s]]
  IN  /\ open[c].call.op = "run"
      /\ \E order \in Bijection(1..Cardinality(new), new) :
           Commit(c, [db EXCEPT
             !.lastRun = last,
             !.triggers = @ \o [i \in DOMAIN order |-> Trigger(order[i], "PERIODIC_REVIEW")],
             !.ledger = @ \o [i \in DOMAIN order |->
                                Decision("RESEARCH_TRIGGERED", "CAMPAIGN_CREATED")]])

\* a refusal, a failed INSERT, an error in the campaign a trigger creates, a crash
Abort(c) ==
  /\ open' = [open EXCEPT ![c] = None]
  /\ UNCHANGED <<db, day, requests, overwritten>>

NextDay ==
  /\ day < MaxDay
  /\ day' = day + 1
  /\ UNCHANGED <<db, open, requests, overwritten>>

Next ==
  \/ \E c \in Clients :
       \/ \E call \in Calls : Begin(c, call)
       \/ /\ open[c] # None
          /\ \/ RecordObservation(c) \/ Transition(c)
             \/ CreateSchedule(c) \/ RunDueSchedules(c) \/ Abort(c)
  \/ NextDay

Spec == Init /\ [][Next]_vars
=============================================================================
