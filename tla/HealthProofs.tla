----------------------------- MODULE HealthProofs -----------------------------
(***************************************************************************)
(* Proofs about the health of a strategy: for any number of clients,       *)
(* windows, schedules, days and requests, overlapping and aborting         *)
(* anywhere.                                                               *)
(***************************************************************************)
EXTENDS HealthProperties, SequenceTheorems, FiniteSetTheorems, TLAPS

LEMMA CallFacts ==
  ASSUME NEW call \in Calls
  PROVE  /\ call.op = "observe" => call.window \in Window /\ call.at \in Times
         /\ call.op = "transition" => call.target \in States
         /\ call.op = "schedule" => call.id \in Schedules
BY HealthAssumption DEF Calls

LEMMA RowFields ==
  ASSUME NEW r \in Rows
  PROVE  /\ r = [health |-> r.health, observations |-> r.observations, ledger |-> r.ledger,
                 lastRun |-> r.lastRun, triggers |-> r.triggers]
         /\ r.health \in HealthRow /\ r.observations \in Seq(Observation)
         /\ r.ledger \in Seq(DecisionRow) /\ r.triggers \in Seq(TriggerRow)
         /\ DOMAIN r.lastRun \subseteq Schedules
         /\ r.lastRun \in [DOMAIN r.lastRun -> 0..MaxDay]
         /\ \A s \in DOMAIN r.lastRun : r.lastRun[s] \in Nat
<1>1. PICK S \in SUBSET Schedules : r.lastRun \in [S -> 0..MaxDay]
  BY DEF Rows
<1>2. 0..MaxDay \subseteq Nat
  BY HealthAssumption
<1> QED
  BY <1>1, <1>2 DEF Rows

LEMMA MakeRows ==
  ASSUME NEW h \in HealthRow, NEW o \in Seq(Observation), NEW l \in Seq(DecisionRow),
         NEW S \in SUBSET Schedules, NEW f \in [S -> 0..MaxDay], NEW t \in Seq(TriggerRow)
  PROVE  [health |-> h, observations |-> o, ledger |-> l, lastRun |-> f, triggers |-> t] \in Rows
BY DEF Rows

\* The rows of the database, and what an update of some columns makes of them.
LEMMA Columns ==
  ASSUME HealthInv
  PROVE  /\ db \in Rows
         /\ db = [health |-> db.health, observations |-> db.observations, ledger |-> db.ledger,
                  lastRun |-> db.lastRun, triggers |-> db.triggers]
         /\ db.health \in HealthRow /\ db.observations \in Seq(Observation)
         /\ db.ledger \in Seq(DecisionRow) /\ db.triggers \in Seq(TriggerRow)
         /\ DOMAIN db.lastRun \in SUBSET Schedules
         /\ db.lastRun \in [DOMAIN db.lastRun -> 0..MaxDay]
BY RowFields DEF HealthInv, TypeOK

\* an update of several columns
LEMMA UpdateHealth ==
  ASSUME HealthInv, NEW h, NEW x
  PROVE  /\ [db EXCEPT !.health = h, !.ledger = x]
              = [health |-> h, observations |-> db.observations, ledger |-> x,
                 lastRun |-> db.lastRun, triggers |-> db.triggers]
         /\ [db EXCEPT !.health = h, !.observations = x]
              = [health |-> h, observations |-> x, ledger |-> db.ledger,
                 lastRun |-> db.lastRun, triggers |-> db.triggers]
<1> DEFINE a == [db EXCEPT !.health = h]
<1>1. db = [health |-> db.health, observations |-> db.observations, ledger |-> db.ledger,
            lastRun |-> db.lastRun, triggers |-> db.triggers]
  BY Columns
<1>2. a = [health |-> h, observations |-> db.observations, ledger |-> db.ledger,
           lastRun |-> db.lastRun, triggers |-> db.triggers]
  BY <1>1
<1> HIDE DEF a
<1>3. /\ [a EXCEPT !.ledger = x]
           = [health |-> h, observations |-> db.observations, ledger |-> x,
              lastRun |-> db.lastRun, triggers |-> db.triggers]
      /\ [a EXCEPT !.observations = x]
           = [health |-> h, observations |-> x, ledger |-> db.ledger,
              lastRun |-> db.lastRun, triggers |-> db.triggers]
  BY <1>2
<1> QED
  BY <1>3, Zenon DEF a

LEMMA UpdateReviews ==
  ASSUME HealthInv, NEW f, NEW t, NEW l
  PROVE  [db EXCEPT !.lastRun = f, !.triggers = t, !.ledger = l]
           = [health |-> db.health, observations |-> db.observations, ledger |-> l,
              lastRun |-> f, triggers |-> t]
<1> DEFINE a == [db EXCEPT !.lastRun = f]
           b == [a EXCEPT !.triggers = t]
<1>1. db = [health |-> db.health, observations |-> db.observations, ledger |-> db.ledger,
            lastRun |-> db.lastRun, triggers |-> db.triggers]
  BY Columns
<1>2. a = [health |-> db.health, observations |-> db.observations, ledger |-> db.ledger,
           lastRun |-> f, triggers |-> db.triggers]
  BY <1>1
<1> HIDE DEF a
<1>3. b = [health |-> db.health, observations |-> db.observations, ledger |-> db.ledger,
           lastRun |-> f, triggers |-> t]
  BY <1>2
<1> HIDE DEF b
<1>4. [b EXCEPT !.ledger = l]
        = [health |-> db.health, observations |-> db.observations, ledger |-> l,
           lastRun |-> f, triggers |-> t]
  BY <1>3
<1> QED
  BY <1>4, Zenon DEF a, b

\* A row appended to a table leaves the others where they are.
LEMMA AppendRow ==
  ASSUME NEW T, NEW s \in Seq(T), NEW row \in T
  PROVE  /\ Append(s, row) \in Seq(T) /\ Len(s) \in Nat /\ DOMAIN s = 1..Len(s)
         /\ DOMAIN Append(s, row) = 1..(Len(s) + 1) /\ Len(Append(s, row)) = Len(s) + 1
         /\ Append(s, row)[Len(s) + 1] = row
         /\ \A i \in 1..Len(s) : Append(s, row)[i] = s[i]
BY AppendProperties, LenProperties

\* Rows appended together leave the others where they are, too.
LEMMA ConcatRows ==
  ASSUME NEW T, NEW s \in Seq(T), NEW u \in Seq(T)
  PROVE  /\ s \o u \in Seq(T) /\ Len(s) \in Nat /\ Len(u) \in Nat
         /\ DOMAIN s = 1..Len(s) /\ DOMAIN u = 1..Len(u)
         /\ DOMAIN (s \o u) = 1..(Len(s) + Len(u)) /\ Len(s \o u) = Len(s) + Len(u)
         /\ \A i \in 1..Len(s) : (s \o u)[i] = s[i]
         /\ \A i \in 1..(Len(s) + Len(u)) :
              i \notin 1..Len(s) => i - Len(s) \in 1..Len(u) /\ (s \o u)[i] = u[i - Len(s)]
<1>1. /\ s \o u \in Seq(T) /\ Len(s \o u) = Len(s) + Len(u)
      /\ \A i \in 1..(Len(s) + Len(u)) :
           (s \o u)[i] = IF i <= Len(s) THEN s[i] ELSE u[i - Len(s)]
  BY ConcatProperties
<1>2. /\ Len(s) \in Nat /\ Len(u) \in Nat /\ DOMAIN s = 1..Len(s) /\ DOMAIN u = 1..Len(u)
      /\ DOMAIN (s \o u) = 1..Len(s \o u)
  BY <1>1, LenProperties
<1> QED
  BY <1>1, <1>2

-----------------------------------------------------------------------------
(* The ledger *)

\* A decision about the state becomes the last one; others leave the last one as it was.
LEMMA AppendDecided ==
  ASSUME NEW l \in Seq(DecisionRow), NEW d \in DecisionRow
  PROVE  /\ d.outcome \in States => LastDecided(Append(l, d), d.outcome)
         /\ d.outcome \notin States =>
              \A x : LastDecided(l, x) => LastDecided(Append(l, d), x)
         /\ \A x : WasDecided(l, x) => WasDecided(Append(l, d), x)
<1> DEFINE n == Len(l) + 1
<1>1. /\ Len(l) \in Nat /\ DOMAIN l = 1..Len(l) /\ DOMAIN Append(l, d) = 1..n
      /\ Append(l, d)[n] = d /\ \A i \in 1..Len(l) : Append(l, d)[i] = l[i]
  BY AppendRow
<1>2. n \in Nat /\ n \notin 1..Len(l) /\ 1..n = (1..Len(l)) \cup {n} /\ \A j \in 1..n : j <= n
  BY <1>1
<1> HIDE DEF n
<1>3. Decided(Append(l, d)) = IF d.outcome \in States THEN Decided(l) \cup {n} ELSE Decided(l)
  BY <1>1, <1>2 DEF Decided
<1>4. Decided(l) \subseteq 1..Len(l)
  BY <1>1 DEF Decided
<1>5. d.outcome \in States => LastDecided(Append(l, d), d.outcome)
  <2>1. ASSUME d.outcome \in States
        PROVE  n \in Decided(Append(l, d)) /\ \A j \in Decided(Append(l, d)) : j <= n
    BY <1>2, <1>3, <1>4, <2>1
  <2> QED
    BY <1>1, <2>1 DEF LastDecided
<1>6. ASSUME d.outcome \notin States, NEW x, LastDecided(l, x)
      PROVE  LastDecided(Append(l, d), x)
  BY <1>1, <1>3, <1>4, <1>6 DEF LastDecided
<1>7. ASSUME NEW x, WasDecided(l, x)
      PROVE  WasDecided(Append(l, d), x)
  BY <1>1, <1>3, <1>4, <1>7 DEF WasDecided
<1> QED
  BY <1>5, <1>6, <1>7

\* Decisions that are not about the state do not touch it.
LEMMA ConcatDecided ==
  ASSUME NEW l \in Seq(DecisionRow), NEW m \in Seq(DecisionRow),
         \A i \in 1..Len(m) : m[i].outcome \notin States
  PROVE  /\ \A x : LastDecided(l, x) => LastDecided(l \o m, x)
         /\ \A x : WasDecided(l, x) => WasDecided(l \o m, x)
<1>1. /\ Len(l) \in Nat /\ Len(m) \in Nat /\ DOMAIN l = 1..Len(l)
      /\ DOMAIN (l \o m) = 1..(Len(l) + Len(m))
      /\ \A i \in 1..Len(l) : (l \o m)[i] = l[i]
      /\ \A i \in 1..(Len(l) + Len(m)) :
           i \notin 1..Len(l) => i - Len(l) \in 1..Len(m) /\ (l \o m)[i] = m[i - Len(l)]
  BY ConcatRows
<1>2. 1..Len(l) \subseteq 1..(Len(l) + Len(m))
  BY <1>1
<1>3. Decided(l \o m) = Decided(l) /\ \A i \in Decided(l) : (l \o m)[i] = l[i]
  BY <1>1, <1>2 DEF Decided
<1> QED
  BY <1>3 DEF LastDecided, WasDecided

LEMMA LastWasDecided ==
  ASSUME NEW l, NEW x, LastDecided(l, x)
  PROVE  WasDecided(l, x)
BY DEF LastDecided, WasDecided

-----------------------------------------------------------------------------
(* The initial rows, and the steps that do not write them *)

LEMMA InitHealth == Init => HealthInv /\ DegradedTwice /\ CadenceKept
<1> SUFFICES ASSUME Init
             PROVE  HealthInv /\ DegradedTwice /\ CadenceKept
  OBVIOUS
<1>1. /\ db = [health |-> Absent, observations |-> <<>>, ledger |-> <<>>,
               lastRun |-> [s \in {} |-> 0], triggers |-> <<>>]
      /\ open = [c \in Clients |-> None] /\ day = 1 /\ requests = 0 /\ overwritten = FALSE
  BY DEF Init
<1>2. Absent \in HealthRow
  BY DEF Absent, HealthRow, Lifecycles
<1>3. db \in Rows
  <2>1. <<>> \in Seq(Observation) /\ <<>> \in Seq(DecisionRow) /\ <<>> \in Seq(TriggerRow)
    BY EmptySeq
  <2>2. [s \in {} |-> 0] \in [{} -> 0..MaxDay]
    OBVIOUS
  <2> QED
    BY <1>1, <1>2, <2>1, <2>2, MakeRows
<1>4. TypeOK
  <2>1. 1 \in 1..MaxDay /\ 0 \in 0..MaxRequests
    BY HealthAssumption
  <2> QED
    BY <1>1, <1>3, <2>1 DEF TypeOK
<1>5. ReadsBehind /\ LedgerExplainsState /\ LifecycleMatchesState
  BY <1>1 DEF ReadsBehind, LedgerExplainsState, LifecycleMatchesState
<1>6. Len(<<>>) = 0 /\ DOMAIN <<>> = {} /\ 1..0 = {}
  OBVIOUS
<1>7. ReviewsDated /\ DegradedTwice /\ CadenceKept
  BY <1>1, <1>6 DEF ReviewsDated, DegradedTwice, CadenceKept
<1> QED
  BY <1>4, <1>5, <1>7 DEF HealthInv

\* What a step that is not a commit shows: the rows stay, and reads are of the present.
LEMMA RowsStay ==
  ASSUME HealthInv, db' = db, overwritten' = overwritten, day' \in 1..MaxDay, day' >= day,
         requests' \in 0..MaxRequests,
         open' \in [Clients -> {None} \cup [call : Calls, read : Rows]],
         \A c \in Clients : open'[c] # None => open'[c] = open[c] \/ open'[c].read = db
  PROVE  HealthInv' /\ (DegradedTwice => DegradedTwice') /\ (CadenceKept => CadenceKept')
<1>1. TypeOK'
  BY DEF HealthInv, TypeOK
<1>2. ReadsBehind'
  <2>1. db.health # Absent => db.health.state \in States
    BY DEF HealthInv, LedgerExplainsState, WasDecided, Decided
  <2> QED
    BY <2>1 DEF HealthInv, ReadsBehind
<1>3. ReviewsDated'
  <2>1. \A i \in DOMAIN db.triggers : db.triggers[i].day \in Nat
    <3>1. db.triggers \in Seq(TriggerRow)
      BY RowFields DEF HealthInv, TypeOK
    <3>2. \A i \in DOMAIN db.triggers : db.triggers[i] \in TriggerRow
      BY <3>1
    <3> QED
      BY <3>2, HealthAssumption DEF TriggerRow
  <2>2. day \in Nat /\ day' \in Nat
    BY HealthAssumption DEF HealthInv, TypeOK
  <2> QED
    BY <2>1, <2>2 DEF HealthInv, ReviewsDated
<1>4. LedgerExplainsState' /\ LifecycleMatchesState'
  BY DEF HealthInv, LedgerExplainsState, LifecycleMatchesState
<1>5. (DegradedTwice => DegradedTwice') /\ (CadenceKept => CadenceKept')
  BY DEF DegradedTwice, CadenceKept
<1> QED
  BY <1>1, <1>2, <1>3, <1>4, <1>5 DEF HealthInv

-----------------------------------------------------------------------------
(* What a commit shows of the rows it leaves alone *)

\* no window counts for a retired strategy
RetiredStep ==
  db.health.state = "RETIRED" /\ ~overwritten' =>
    /\ db'.health = db.health
    /\ db'.observations = db.observations
    /\ AllocationMultiplier(db'.health.state) = 0

\* the step properties of this module, of any step
Step == /\ HealthInv'
        /\ DegradedTwice => DegradedTwice'
        /\ CadenceKept => CadenceKept'
        /\ RetiredStep

LEMMA OpenFacts ==
  ASSUME HealthInv, NEW c \in Clients, open[c] # None
  PROVE  /\ open[c] \in [call : Calls, read : Rows]
         /\ open[c].call \in Calls /\ open[c].read \in Rows
         /\ open[c].read.health # Absent => open[c].read.health.state \in States /\ db.health # Absent
         /\ DOMAIN open[c].read.lastRun \subseteq DOMAIN db.lastRun
         /\ \A i \in DOMAIN open[c].read.observations :
              i \in DOMAIN db.observations /\ open[c].read.observations[i] = db.observations[i]
<1>1. open[c] \in [call : Calls, read : Rows]
  BY DEF HealthInv, TypeOK
<1>2. open[c].call \in Calls /\ open[c].read \in Rows
  BY <1>1
<1> QED
  BY <1>1, <1>2 DEF HealthInv, ReadsBehind

LEMMA CommitKeeps ==
  ASSUME HealthInv, NEW c \in Clients, NEW rows \in Rows, Commit(c, rows),
         db.health # Absent => rows.health # Absent,
         DOMAIN db.lastRun \subseteq DOMAIN rows.lastRun,
         \A i \in DOMAIN db.observations :
           i \in DOMAIN rows.observations /\ rows.observations[i] = db.observations[i]
  PROVE  TypeOK' /\ ReadsBehind'
<1>1. db' = rows /\ day' = day /\ requests' = requests /\ open' = [open EXCEPT ![c] = None]
  BY DEF Commit
<1>2. overwritten' \in BOOLEAN
  BY DEF Commit, HealthInv, TypeOK
<1>3. TypeOK'
  BY <1>1, <1>2 DEF HealthInv, TypeOK
<1>4. ASSUME NEW b \in Clients, open'[b] # None
      PROVE  open'[b] = open[b] /\ open[b] # None
  BY <1>1, <1>4 DEF HealthInv, TypeOK
<1>5. ReadsBehind'
  BY <1>1, <1>4 DEF HealthInv, ReadsBehind
<1> QED
  BY <1>3, <1>5

\* Runs of the schedules only move forward, and triggers are kept.
LEMMA TriggersStay ==
  ASSUME HealthInv, db'.triggers = db.triggers, day' = day, overwritten => overwritten',
         \A s \in DOMAIN db.lastRun : s \in DOMAIN db'.lastRun /\ db'.lastRun[s] = db.lastRun[s]
  PROVE  ReviewsDated' /\ (CadenceKept => CadenceKept')
<1>1. ReviewsDated'
  BY DEF HealthInv, ReviewsDated
<1>2. CadenceKept => CadenceKept'
  BY DEF CadenceKept
<1> QED
  BY <1>1, <1>2

\* A health event starts no second campaign on the day of an earlier one.
LEMMA EventTriggered ==
  ASSUME HealthInv, NEW s \in Schedules, ~Duplicate(db, Trigger(s, "STRATEGY_DEGRADED")),
         db'.triggers = Append(db.triggers, Trigger(s, "STRATEGY_DEGRADED")),
         db'.lastRun = db.lastRun, day' = day, overwritten => overwritten'
  PROVE  ReviewsDated' /\ (CadenceKept => CadenceKept')
<1> DEFINE t == Trigger(s, "STRATEGY_DEGRADED")
           n == Len(db.triggers) + 1
<1>1. t \in TriggerRow /\ t.type = "STRATEGY_DEGRADED" /\ t.day = day /\ t.schedule = s
  BY DEF Trigger, TriggerRow, HealthInv, TypeOK
<1>2. db.triggers \in Seq(TriggerRow) /\ day \in Nat
  BY RowFields, HealthAssumption DEF HealthInv, TypeOK
<1>3. /\ Len(db.triggers) \in Nat /\ DOMAIN db.triggers = 1..Len(db.triggers)
      /\ DOMAIN db'.triggers = 1..n /\ Len(db'.triggers) = n /\ db'.triggers[n] = t
      /\ \A i \in 1..Len(db.triggers) : db'.triggers[i] = db.triggers[i]
  BY <1>1, <1>2, AppendRow
<1>4. n \in Nat /\ n \notin 1..Len(db.triggers) /\ 1..n = (1..Len(db.triggers)) \cup {n}
      /\ \A i \in 1..Len(db.triggers) : i < n
  BY <1>3
<1>5. \A i \in 1..Len(db.triggers) :
        db.triggers[i].schedule = s /\ db.triggers[i].type = "STRATEGY_DEGRADED" =>
          db.triggers[i].day # day
  <2> SUFFICES ASSUME NEW i \in 1..Len(db.triggers), db.triggers[i].schedule = s,
                      db.triggers[i].type = "STRATEGY_DEGRADED", db.triggers[i].day = day
               PROVE  FALSE
    OBVIOUS
  <2>1. db.triggers[i] \in TriggerRow
    BY <1>2, <1>3
  <2>2. db.triggers[i] = t
    BY <2>1 DEF TriggerRow, Trigger
  <2> QED
    BY <2>2 DEF Duplicate
<1> HIDE DEF n, t
<1>6. ReviewsDated'
  BY <1>1, <1>2, <1>3, <1>4 DEF HealthInv, ReviewsDated
<1>7. ASSUME CadenceKept
      PROVE  CadenceKept'
  <2> SUFFICES ASSUME NEW i \in 1..n, NEW j \in 1..n, i < j,
                      db'.triggers[i].schedule = db'.triggers[j].schedule,
                      db'.triggers[i].type = db'.triggers[j].type
               PROVE  /\ db'.triggers[i].day # db'.triggers[j].day
                      /\ db'.triggers[i].type = "PERIODIC_REVIEW" /\ ~overwritten' =>
                           db'.triggers[j].day >= db'.triggers[i].day + Cadence
    BY <1>3 DEF CadenceKept
  <2>1. i \in 1..Len(db.triggers)
    BY <1>3, <1>4
  <2>2. CASE j = n
    BY <1>1, <1>3, <1>5, <2>1, <2>2
  <2>3. CASE j # n
    <3>1. j \in 1..Len(db.triggers)
      BY <1>4, <2>3
    <3> QED
      BY <1>3, <1>7, <2>1, <3>1 DEF CadenceKept
  <2> QED
    BY <2>2, <2>3
<1> QED
  BY <1>6, <1>7

\* A commit that does not write the health of the strategy.
LEMMA HealthStays ==
  ASSUME HealthInv, db'.health = db.health, db'.observations = db.observations,
         overwritten => overwritten',
         \A x : LastDecided(db.ledger, x) => LastDecided(db'.ledger, x),
         \A x : WasDecided(db.ledger, x) => WasDecided(db'.ledger, x)
  PROVE  /\ LedgerExplainsState' /\ LifecycleMatchesState'
         /\ DegradedTwice => DegradedTwice'
         /\ RetiredStep
<1>1. LedgerExplainsState'
  BY DEF HealthInv, LedgerExplainsState, LastDecided, WasDecided, Decided
<1>2. LifecycleMatchesState'
  BY DEF HealthInv, LifecycleMatchesState
<1>3. DegradedTwice => DegradedTwice'
  BY DEF DegradedTwice
<1>4. RetiredStep
  BY DEF RetiredStep, AllocationMultiplier
<1> QED
  BY <1>1, <1>2, <1>3, <1>4

-----------------------------------------------------------------------------
(* The steps *)

LEMMA NoCommit ==
  ASSUME HealthInv, db' = db, overwritten' = overwritten, HealthInv',
         DegradedTwice => DegradedTwice', CadenceKept => CadenceKept'
  PROVE  Step
BY DEF Step, RetiredStep, AllocationMultiplier

LEMMA BeginStep ==
  ASSUME HealthInv, NEW c \in Clients, NEW call \in Calls, Begin(c, call)
  PROVE  Step
<1>1. /\ db' = db /\ overwritten' = overwritten /\ day' = day /\ day \in 1..MaxDay
      /\ db \in Rows /\ requests' = requests + 1 /\ requests < MaxRequests
      /\ open' = [open EXCEPT ![c] = [call |-> call, read |-> db]]
  BY DEF Begin, HealthInv, TypeOK
<1>2. requests' \in 0..MaxRequests /\ day' >= day
  BY <1>1, HealthAssumption DEF HealthInv, TypeOK
<1>3. [call |-> call, read |-> db] \in [call : Calls, read : Rows]
  BY <1>1
<1>4. open' \in [Clients -> {None} \cup [call : Calls, read : Rows]]
  BY <1>1, <1>3 DEF HealthInv, TypeOK
<1>5. \A b \in Clients : open'[b] # None => open'[b] = open[b] \/ open'[b].read = db
  BY <1>1 DEF HealthInv, TypeOK
<1> QED
  BY <1>1, <1>2, <1>4, <1>5, RowsStay, NoCommit

LEMMA OtherSteps ==
  ASSUME HealthInv, NextDay \/ (\E c \in Clients : Abort(c)) \/ UNCHANGED vars
  PROVE  Step
<1>1. /\ db' = db /\ overwritten' = overwritten /\ requests' = requests
      /\ requests \in 0..MaxRequests /\ day \in 1..MaxDay
  BY DEF NextDay, Abort, vars, HealthInv, TypeOK
<1>2. day' \in 1..MaxDay /\ day' >= day
  <2>1. day' = day \/ (day' = day + 1 /\ day < MaxDay)
    BY DEF NextDay, Abort, vars
  <2> QED
    BY <1>1, <2>1, HealthAssumption
<1>3. open' = open \/ \E c \in Clients : open' = [open EXCEPT ![c] = None]
  BY DEF NextDay, Abort, vars
<1>4. /\ open' \in [Clients -> {None} \cup [call : Calls, read : Rows]]
      /\ \A b \in Clients : open'[b] # None => open'[b] = open[b]
  BY <1>3 DEF HealthInv, TypeOK
<1> QED
  BY <1>1, <1>2, <1>4, RowsStay, NoCommit

LEMMA TransitionStep ==
  ASSUME HealthInv, NEW c \in Clients, open[c] # None, Transition(c)
  PROVE  Step
<1> DEFINE call == open[c].call
           read == open[c].read.health
           row  == [state |-> call.target, lifecycle |-> LifecycleOf(call.target)]
           d    == Decision("STRATEGY_LIFECYCLE_TRANSITION", call.target)
           rows == [db EXCEPT !.health = Flush(read, row), !.ledger = Append(@, d)]
<1>1. call.op = "transition" /\ read # Absent /\ ~Retired(call, read) /\ Commit(c, rows)
  BY DEF Transition
<1>2. /\ call \in Calls /\ open[c].read \in Rows
      /\ read.state \in States /\ db.health # Absent
  BY <1>1, OpenFacts
<1>3. call.target \in States /\ read.state # "RETIRED"
  BY <1>1, <1>2, CallFacts DEF Retired
<1>4. /\ db \in Rows /\ db.health \in HealthRow /\ read \in HealthRow
      /\ db.ledger \in Seq(DecisionRow) /\ db.health.state \in States
  <2>1. db \in Rows
    BY DEF HealthInv, TypeOK
  <2>2. db.health.state \in States
    BY <1>2 DEF HealthInv, LedgerExplainsState, WasDecided, Decided
  <2> QED
    BY <1>2, <2>1, <2>2, RowFields
<1>5. row.lifecycle \in Lifecycles /\ row.state = call.target
      /\ LifecycleOf(call.target) \in Matching(call.target)
  BY <1>3 DEF LifecycleOf, Lifecycles, Matching, States
<1>6. /\ Flush(read, row) \in HealthRow /\ Flush(read, row).state \in States
      /\ Flush(read, row) # Absent
      /\ db.health = read => Flush(read, row) = row
      /\ Flush(read, row).state = IF call.target = read.state THEN db.health.state
                                  ELSE call.target
  <2>1. row \in HealthRow
    BY <1>3, <1>5 DEF HealthRow
  <2> HIDE DEF row
  <2>2. Flush(read, row) \in HealthRow /\ Flush(read, row).state \in States
    BY <1>3, <1>4, <1>5, <2>1 DEF Flush, HealthRow
  <2>3. db.health = read => Flush(read, row) = row
    BY <1>4, <2>1 DEF Flush, HealthRow
  <2>4. Flush(read, row) # Absent
    BY <2>2, HealthAssumption DEF States, Absent
  <2> QED
    BY <1>5, <2>2, <2>3, <2>4 DEF Flush
<1>7. d \in DecisionRow /\ d.outcome = call.target
  BY <1>3 DEF Decision, DecisionRow
<1> HIDE DEF row, d
<1>8. /\ rows = [health |-> Flush(read, row), observations |-> db.observations,
                 ledger |-> Append(db.ledger, d), lastRun |-> db.lastRun,
                 triggers |-> db.triggers]
      /\ rows \in Rows
  <2>1. Append(db.ledger, d) \in Seq(DecisionRow)
    BY <1>4, <1>7, AppendRow
  <2>2. rows = [health |-> Flush(read, row), observations |-> db.observations,
                ledger |-> Append(db.ledger, d), lastRun |-> db.lastRun,
                triggers |-> db.triggers]
    BY UpdateHealth, Zenon
  <2> HIDE DEF rows
  <2>3. rows \in Rows
    BY <1>6, <2>1, <2>2, Columns, MakeRows
  <2> QED
    BY <2>2, <2>3
<1> HIDE DEF rows
<1>9. /\ db' = rows /\ day' = day /\ (overwritten => overwritten')
      /\ (~overwritten' => ~overwritten /\ db.health = read)
  BY <1>1 DEF Commit
<1>10. TypeOK' /\ ReadsBehind'
  BY <1>1, <1>6, <1>8, CommitKeeps
<1>11. ReviewsDated' /\ (CadenceKept => CadenceKept')
  BY <1>8, <1>9, TriggersStay
<1>12. LastDecided(db'.ledger, call.target) /\ \A x : WasDecided(db.ledger, x) => WasDecided(db'.ledger, x)
  BY <1>3, <1>4, <1>7, <1>8, <1>9, AppendDecided
<1>13. LedgerExplainsState'
  <2>1. WasDecided(db.ledger, db.health.state)
    BY <1>2 DEF HealthInv, LedgerExplainsState
  <2>2. WasDecided(db'.ledger, db'.health.state)
    BY <1>6, <1>8, <1>9, <1>12, <2>1, LastWasDecided
  <2>3. ASSUME ~overwritten'
        PROVE  LastDecided(db'.ledger, db'.health.state)
    BY <1>5, <1>6, <1>8, <1>9, <1>12, <2>3
  <2> QED
    BY <2>2, <2>3 DEF LedgerExplainsState
<1>14. LifecycleMatchesState'
  <2>1. ASSUME ~overwritten'
        PROVE  db'.health.lifecycle \in Matching(db'.health.state)
    <3>1. db'.health = row
      BY <1>6, <1>8, <1>9, <2>1
    <3> QED
      BY <1>5, <3>1 DEF row
  <2> QED
    BY <2>1 DEF LifecycleMatchesState
<1>15. DegradedTwice => DegradedTwice'
  BY <1>8, <1>9 DEF DegradedTwice
<1>16. RetiredStep
  BY <1>3, <1>9 DEF RetiredStep
<1> QED
  BY <1>10, <1>11, <1>13, <1>14, <1>15, <1>16 DEF Step, HealthInv

LEMMA CreateScheduleStep ==
  ASSUME HealthInv, NEW c \in Clients, open[c] # None, CreateSchedule(c)
  PROVE  Step
<1> DEFINE call == open[c].call
           S    == Created \cup {call.id}
           f    == [s \in S |-> IF s = call.id THEN 0 ELSE db.lastRun[s]]
           rows == [db EXCEPT !.lastRun = f]
<1>1. call.op = "schedule" /\ call.id \notin Created /\ Commit(c, rows)
  BY DEF CreateSchedule
<1>2. call \in Calls /\ call.id \in Schedules /\ db \in Rows
  <2>1. call \in Calls
    BY OpenFacts
  <2> QED
    BY <1>1, <2>1, CallFacts DEF HealthInv, TypeOK
<1>3. S \in SUBSET Schedules /\ f \in [S -> 0..MaxDay]
  <2>1. db.lastRun \in [DOMAIN db.lastRun -> 0..MaxDay] /\ DOMAIN db.lastRun \subseteq Schedules
    BY <1>2, RowFields
  <2>2. 0 \in 0..MaxDay
    BY HealthAssumption
  <2> QED
    BY <1>2, <2>1, <2>2 DEF Created
<1>4. \A s \in DOMAIN db.lastRun : s \in DOMAIN f /\ f[s] = db.lastRun[s]
  BY <1>1 DEF Created
<1> HIDE DEF S, f
<1>5. /\ rows = [health |-> db.health, observations |-> db.observations, ledger |-> db.ledger,
                 lastRun |-> f, triggers |-> db.triggers]
      /\ rows \in Rows
  <2>1. rows = [health |-> db.health, observations |-> db.observations, ledger |-> db.ledger,
                lastRun |-> f, triggers |-> db.triggers]
    BY Columns
  <2> HIDE DEF rows
  <2>2. rows \in Rows
    BY <1>3, <2>1, Columns, MakeRows
  <2> QED
    BY <2>1, <2>2
<1> HIDE DEF rows
<1>6. db' = rows /\ day' = day /\ (overwritten => overwritten')
  BY <1>1 DEF Commit
<1>7. TypeOK' /\ ReadsBehind'
  BY <1>1, <1>4, <1>5, CommitKeeps
<1>8. ReviewsDated' /\ (CadenceKept => CadenceKept')
  BY <1>4, <1>5, <1>6, TriggersStay
<1>9. /\ LedgerExplainsState' /\ LifecycleMatchesState'
      /\ DegradedTwice => DegradedTwice'
      /\ RetiredStep
  BY <1>5, <1>6, HealthStays
<1> QED
  BY <1>7, <1>8, <1>9 DEF Step, HealthInv

\* A window is found degraded only if a poor one had been read before it.
LEMMA AssessedDegraded ==
  ASSUME NEW w \in Window, NEW prior, AssessHealth(w, prior) = "DEGRADED"
  PROVE  w.enough /\ w.alpha >= 2 /\ prior > 0
<1>1. w.alpha \in 0..4 /\ w.enough \in BOOLEAN /\ w.weak \in BOOLEAN /\ w.costly \in BOOLEAN
  BY DEF Window
<1>2. w.alpha = 0 \/ w.alpha = 1 \/ w.alpha >= 2
  BY <1>1
<1>3. CASE ~w.enough
  BY <1>3 DEF AssessHealth
<1>4. CASE w.enough /\ w.alpha = 0
  BY <1>1, <1>4 DEF AssessHealth
<1>5. CASE w.enough /\ w.alpha = 1
  BY <1>1, <1>5 DEF AssessHealth
<1>6. CASE w.enough /\ w.alpha >= 2
  BY <1>1, <1>6 DEF AssessHealth
<1> QED
  BY <1>1, <1>2, <1>3, <1>4, <1>5, <1>6

LEMMA AssessedState ==
  ASSUME NEW w \in Window, NEW prior
  PROVE  AssessHealth(w, prior) \in {"HEALTHY", "WATCH", "DEGRADED"}
<1>1. w.alpha \in 0..4 /\ w.enough \in BOOLEAN /\ w.weak \in BOOLEAN /\ w.costly \in BOOLEAN
  BY DEF Window
<1>2. w.alpha = 0 \/ w.alpha = 1 \/ w.alpha >= 2
  BY <1>1
<1>3. CASE ~w.enough
  BY <1>3 DEF AssessHealth
<1>4. CASE w.enough /\ w.alpha = 0
  BY <1>1, <1>4 DEF AssessHealth
<1>5. CASE w.enough /\ w.alpha = 1
  BY <1>1, <1>5 DEF AssessHealth
<1>6. CASE w.enough /\ w.alpha >= 2
  BY <1>1, <1>6 DEF AssessHealth
<1> QED
  BY <1>1, <1>2, <1>3, <1>4, <1>5, <1>6

\* A count of earlier poor windows that is not zero names one.
LEMMA PriorIsPoor ==
  ASSUME NEW observations, NEW prior \in PriorDegraded(observations), prior > 0
  PROVE  \E j \in DOMAIN observations : Poor(observations[j])
<1>1. PICK last \in SUBSET DOMAIN observations :
        prior = Cardinality({i \in last : Poor(observations[i])})
  BY DEF PriorDegraded
<1>2. {i \in last : Poor(observations[i])} # {}
  <2>1. Cardinality({}) = 0
    BY FS_EmptySet
  <2> QED
    BY <1>1, <2>1
<1> QED
  BY <1>1, <1>2

\* The lifecycle after a window goes with the state it is found in.
LEMMA LifecycleMatches ==
  ASSUME NEW state \in {"HEALTHY", "WATCH", "DEGRADED"}, NEW lifecycle \in Lifecycles,
         lifecycle # "RETIRE"
  PROVE  /\ LifecycleAfter(state, lifecycle) \in Lifecycles
         /\ LifecycleAfter(state, lifecycle) \in Matching(state)
<1>1. CASE state = "HEALTHY"
  BY <1>1 DEF LifecycleAfter, Matching, Lifecycles
<1>2. CASE state = "WATCH"
  BY <1>2 DEF LifecycleAfter, Matching, Lifecycles
<1>3. CASE state = "DEGRADED"
  BY <1>3 DEF LifecycleAfter, Matching, Lifecycles
<1> QED
  BY <1>1, <1>2, <1>3

\* the row of health after a window, and the observation recorded of it
HealthAfter(read, state) ==
  Flush(read, [state |-> state, lifecycle |-> LifecycleAfter(state, read.lifecycle)])

ObservationOf(call, state) ==
  [at |-> call.at, alpha |-> AlphaFlags(call.window), enough |-> call.window.enough,
   state |-> state]

\* What is recorded of a window, whether or not it starts a campaign.
LEMMA WindowRecorded ==
  ASSUME HealthInv, NEW c \in Clients, open[c] # None,
         NEW prior \in PriorDegraded(open[c].read.observations),
         NEW state, state = AssessHealth(open[c].call.window, prior),
         open[c].call.op = "observe", ~Retired(open[c].call, open[c].read.health),
         open[c].read.health = Absent => db.health = Absent,
         NEW rows, Commit(c, rows), rows.ledger \in Seq(DecisionRow), rows.triggers \in Seq(TriggerRow),
         rows = [health |-> HealthAfter(open[c].read.health, state),
                 observations |-> Append(db.observations, ObservationOf(open[c].call, state)),
                 ledger |-> rows.ledger, lastRun |-> db.lastRun, triggers |-> rows.triggers],
         \A x : WasDecided(db.ledger, x) => WasDecided(rows.ledger, x),
         open[c].read.health.state = state =>
           \A x : LastDecided(db.ledger, x) => LastDecided(rows.ledger, x),
         open[c].read.health.state # state => LastDecided(rows.ledger, state)
  PROVE  /\ TypeOK' /\ ReadsBehind' /\ LedgerExplainsState' /\ LifecycleMatchesState'
         /\ DegradedTwice => DegradedTwice'
         /\ RetiredStep
<1> DEFINE call == open[c].call
           read == open[c].read.health
           row  == [state |-> state, lifecycle |-> LifecycleAfter(state, read.lifecycle)]
           seen == ObservationOf(call, state)
           n    == Len(db.observations) + 1
<1>1. /\ call \in Calls /\ open[c].read \in Rows /\ read \in HealthRow
      /\ read # Absent => read.state \in States /\ db.health # Absent
      /\ \A i \in DOMAIN open[c].read.observations :
           i \in DOMAIN db.observations /\ open[c].read.observations[i] = db.observations[i]
  BY OpenFacts, RowFields
<1>2. /\ call.window \in Window /\ call.at \in Times
      /\ read.lifecycle # "RETIRE" /\ read.lifecycle \in Lifecycles
  BY <1>1, CallFacts DEF Retired, HealthRow
<1>3. state \in {"HEALTHY", "WATCH", "DEGRADED"} /\ state \in States
  BY <1>2, AssessedState DEF States
<1>4. row.lifecycle \in Lifecycles /\ row.lifecycle \in Matching(state) /\ row.state = state
  BY <1>2, <1>3, LifecycleMatches
<1>5. db.health # Absent => db.health.state \in States
  BY DEF HealthInv, LedgerExplainsState, WasDecided, Decided
<1>6. read.state = state => read # Absent /\ db.health # Absent /\ db.health.state \in States
  BY <1>1, <1>3, <1>5, HealthAssumption DEF Absent, States
<1>7. row \in HealthRow /\ rows.health = Flush(read, row)
  BY <1>3, <1>4 DEF HealthRow, HealthAfter
<1> HIDE DEF row
<1>8. /\ rows.health \in HealthRow /\ rows.health.state \in States
      /\ db.health = read => rows.health = row
      /\ rows.health.state = IF state = read.state THEN db.health.state ELSE state
  <2>1. /\ rows.health \in HealthRow
        /\ db.health = read => rows.health = row
    BY <1>1, <1>7, Columns DEF Flush, HealthRow
  <2>2. rows.health.state = IF state = read.state THEN db.health.state ELSE state
    BY <1>4, <1>7 DEF Flush
  <2> QED
    BY <1>3, <1>6, <2>1, <2>2
<1>9. rows.health # Absent
  BY <1>8, HealthAssumption DEF Absent, States
<1>10. seen \in Observation /\ seen.state = state
  <2>1. AlphaFlags(call.window) \in 0..4 /\ call.window.enough \in BOOLEAN
    BY <1>2 DEF AlphaFlags, Window
  <2> QED
    BY <1>2, <1>3, <2>1 DEF Observation, ObservationOf
<1>11. /\ Append(db.observations, seen) \in Seq(Observation) /\ Len(db.observations) \in Nat
       /\ DOMAIN db.observations = 1..Len(db.observations)
       /\ DOMAIN rows.observations = 1..n /\ Len(rows.observations) = n
       /\ rows.observations[n] = seen
       /\ \A i \in 1..Len(db.observations) : rows.observations[i] = db.observations[i]
  <2>1. rows.observations = Append(db.observations, seen)
    OBVIOUS
  <2> HIDE DEF seen
  <2> QED
    BY <1>10, <2>1, AppendRow, Columns
<1>12. 1..n = (1..Len(db.observations)) \cup {n} /\ n - 1 = Len(db.observations)
       /\ n \notin 1..Len(db.observations) /\ n \in Nat
  BY <1>11
<1>13. rows \in Rows
  <2>1. rows.observations = Append(db.observations, seen) /\ rows.lastRun = db.lastRun
        /\ rows.health = HealthAfter(read, state)
    OBVIOUS
  <2>2. rows = [health |-> rows.health, observations |-> rows.observations,
                ledger |-> rows.ledger, lastRun |-> db.lastRun, triggers |-> rows.triggers]
    BY <2>1
  <2>3. rows.observations \in Seq(Observation) /\ rows.ledger \in Seq(DecisionRow)
        /\ rows.triggers \in Seq(TriggerRow)
    BY <1>11, <2>1
  <2>4. DOMAIN db.lastRun \in SUBSET Schedules /\ db.lastRun \in [DOMAIN db.lastRun -> 0..MaxDay]
    BY Columns
  <2>5. [health |-> rows.health, observations |-> rows.observations,
         ledger |-> rows.ledger, lastRun |-> db.lastRun, triggers |-> rows.triggers] \in Rows
    BY <1>8, <2>3, <2>4, MakeRows
  <2> QED
    BY <2>2, <2>5
<1>14. /\ db' = rows /\ (overwritten => overwritten')
       /\ (~overwritten' => ~overwritten /\ db.health = read)
  BY DEF Commit
<1>15. rows.lastRun = db.lastRun
  OBVIOUS
<1> HIDE DEF seen, n
<1>16. TypeOK' /\ ReadsBehind'
  BY <1>9, <1>11, <1>12, <1>13, <1>15, CommitKeeps
<1>17. LedgerExplainsState'
  <2>1. WasDecided(rows.ledger, rows.health.state)
    <3>1. CASE state = read.state
      BY <1>6, <1>8, <3>1 DEF HealthInv, LedgerExplainsState
    <3>2. CASE state # read.state
      BY <1>8, <3>2, LastWasDecided
    <3> QED
      BY <3>1, <3>2
  <2>2. ASSUME ~overwritten'
        PROVE  LastDecided(rows.ledger, rows.health.state)
    <3>1. CASE state = read.state
      BY <1>6, <1>8, <1>14, <2>2, <3>1 DEF HealthInv, LedgerExplainsState
    <3>2. CASE state # read.state
      BY <1>8, <3>2
    <3> QED
      BY <3>1, <3>2
  <2> QED
    BY <1>14, <2>1, <2>2 DEF LedgerExplainsState
<1>18. LifecycleMatchesState'
  BY <1>4, <1>8, <1>14 DEF LifecycleMatchesState
<1>19. ASSUME DegradedTwice
       PROVE  DegradedTwice'
  <2> SUFFICES ASSUME NEW i \in 1..n, rows.observations[i].state = "DEGRADED"
               PROVE  /\ Poor(rows.observations[i])
                      /\ \E j \in 1..(i - 1) : Poor(rows.observations[j])
    BY <1>11, <1>14 DEF DegradedTwice
  <2>1. CASE i \in 1..Len(db.observations)
    <3>1. /\ Poor(db.observations[i])
          /\ \E j \in 1..(i - 1) : Poor(db.observations[j])
      BY <1>11, <1>19, <2>1 DEF DegradedTwice
    <3>2. 1..(i - 1) \subseteq 1..Len(db.observations)
      BY <1>11, <2>1
    <3> QED
      BY <1>11, <2>1, <3>1, <3>2
  <2>2. CASE i = n
    <3>1. state = "DEGRADED"
      BY <1>10, <1>11, <2>2
    <3>2. call.window.enough /\ call.window.alpha >= 2 /\ prior > 0
      BY <1>2, <3>1, AssessedDegraded
    <3>3. Poor(rows.observations[i])
      BY <1>11, <2>2, <3>2 DEF seen, ObservationOf, Poor, AlphaFlags
    <3>4. PICK j \in DOMAIN open[c].read.observations : Poor(open[c].read.observations[j])
      BY <3>2, PriorIsPoor
    <3>5. j \in 1..Len(db.observations) /\ Poor(rows.observations[j])
      BY <1>1, <1>11, <3>4
    <3> QED
      BY <1>12, <2>2, <3>3, <3>5
  <2> QED
    BY <1>12, <2>1, <2>2
<1>20. RetiredStep
  <2> SUFFICES ASSUME db.health.state = "RETIRED", ~overwritten'
               PROVE  FALSE
    BY DEF RetiredStep
  <2>1. db.health # Absent /\ db.health = read /\ ~overwritten
    BY <1>14, HealthAssumption DEF Absent
  <2>2. db.health.lifecycle = "RETIRE"
    BY <2>1 DEF HealthInv, LifecycleMatchesState, Matching
  <2> QED
    BY <1>2, <2>1, <2>2
<1> QED
  BY <1>16, <1>17, <1>18, <1>19, <1>20

LEMMA RecordObservationStep ==
  ASSUME HealthInv, NEW c \in Clients, open[c] # None, RecordObservation(c)
  PROVE  Step
<1> DEFINE call == open[c].call
           read == open[c].read.health
<1>1. PICK prior \in PriorDegraded(open[c].read.observations) :
        LET state == AssessHealth(call.window, prior)
            row   == [state |-> state, lifecycle |-> LifecycleAfter(state, read.lifecycle)]
            rows  == Recorded([db EXCEPT !.health = Flush(read, row),
                                !.observations =
                                  Append(@, [at |-> call.at, alpha |-> AlphaFlags(call.window),
                                             enough |-> call.window.enough, state |-> state])],
                              read, state)
        IN  /\ call.op = "observe"
            /\ ~Retired(call, read)
            /\ read = Absent => db.health = Absent
            /\ IF state = "DEGRADED" /\ EventSchedules # {}
                 THEN \E s \in EventSchedules :
                        Commit(c, CreateTrigger(rows, Trigger(s, "STRATEGY_DEGRADED")))
                 ELSE Commit(c, rows)
  BY DEF RecordObservation
<1> DEFINE state == AssessHealth(call.window, prior)
           h     == HealthAfter(read, state)
           o     == Append(db.observations, ObservationOf(call, state))
           new   == [db EXCEPT !.health = h, !.observations = o]
           rows  == Recorded(new, read, state)
           d     == Decision("STRATEGY_HEALTH_TRANSITION", state)
           e     == Decision("RESEARCH_TRIGGERED", "CAMPAIGN_CREATED")
<1>2. /\ call.op = "observe" /\ ~Retired(call, read)
      /\ read = Absent => db.health = Absent
      /\ \/ Commit(c, rows)
         \/ \E s \in EventSchedules :
              Commit(c, CreateTrigger(rows, Trigger(s, "STRATEGY_DEGRADED")))
  BY <1>1 DEF HealthAfter, ObservationOf
<1>3. call.window \in Window /\ state \in States
  <2>1. call \in Calls
    BY OpenFacts
  <2>2. call.window \in Window
    BY <1>2, <2>1, CallFacts
  <2> QED
    BY <2>2, AssessedState DEF States
<1>4. /\ d \in DecisionRow /\ d.outcome = state
      /\ e \in DecisionRow /\ e.outcome \notin States
  BY <1>3 DEF Decision, DecisionRow, States
<1> HIDE DEF h, o, d, e, state
<1>5. new = [health |-> h, observations |-> o, ledger |-> db.ledger, lastRun |-> db.lastRun,
             triggers |-> db.triggers]
  BY UpdateHealth, Zenon
<1> HIDE DEF new
<1> DEFINE l == IF read.state = state THEN db.ledger ELSE Append(db.ledger, d)
<1>6. rows = [health |-> h, observations |-> o, ledger |-> l, lastRun |-> db.lastRun,
              triggers |-> db.triggers]
  <2>1. CASE read.state = state
    BY <1>5, <2>1 DEF Recorded
  <2>2. CASE read.state # state
    <3>1. rows = [new EXCEPT !.ledger = Append(new.ledger, d)] /\ new.ledger = db.ledger
      BY <1>5, <2>2 DEF Recorded, d
    <3> HIDE DEF rows
    <3> QED
      BY <1>5, <2>2, <3>1
  <2> QED
    BY <2>1, <2>2
<1>7. /\ l \in Seq(DecisionRow)
      /\ \A x : WasDecided(db.ledger, x) => WasDecided(l, x)
      /\ read.state = state => \A x : LastDecided(db.ledger, x) => LastDecided(l, x)
      /\ read.state # state => LastDecided(l, state)
  <2>1. CASE read.state = state
    BY <2>1, Columns
  <2>2. CASE read.state # state
    BY <1>3, <1>4, <2>2, Columns, AppendRow, AppendDecided
  <2> QED
    BY <2>1, <2>2
<1> HIDE DEF rows, l
<1>8. ASSUME NEW final, Commit(c, final),
             NEW m \in Seq(DecisionRow), NEW t \in Seq(TriggerRow),
             \A x : WasDecided(l, x) => WasDecided(m, x),
             \A x : LastDecided(l, x) => LastDecided(m, x),
             final = [health |-> h, observations |-> o, ledger |-> m, lastRun |-> db.lastRun,
                      triggers |-> t]
      PROVE  /\ TypeOK' /\ ReadsBehind' /\ LedgerExplainsState' /\ LifecycleMatchesState'
             /\ DegradedTwice => DegradedTwice'
             /\ RetiredStep
  <2>1. final.ledger = m /\ final.triggers = t
    BY <1>8
  <2>2. /\ \A x : WasDecided(db.ledger, x) => WasDecided(m, x)
        /\ read.state = state => \A x : LastDecided(db.ledger, x) => LastDecided(m, x)
        /\ read.state # state => LastDecided(m, state)
    BY <1>7, <1>8
  <2> QED
    BY <1>2, <1>8, <2>1, <2>2, WindowRecorded DEF h, o, state
<1>9. CASE Commit(c, rows)
  <2>1. /\ TypeOK' /\ ReadsBehind' /\ LedgerExplainsState' /\ LifecycleMatchesState'
        /\ DegradedTwice => DegradedTwice'
        /\ RetiredStep
    BY <1>6, <1>7, <1>8, <1>9, Columns
  <2>2. db' = rows /\ day' = day /\ (overwritten => overwritten')
    BY <1>9 DEF Commit
  <2>3. ReviewsDated' /\ (CadenceKept => CadenceKept')
    BY <1>6, <2>2, TriggersStay
  <2> QED
    BY <2>1, <2>3 DEF Step, HealthInv
<1>10. ASSUME NEW s \in EventSchedules,
              Commit(c, CreateTrigger(rows, Trigger(s, "STRATEGY_DEGRADED")))
       PROVE  Step
  <2> DEFINE t == Trigger(s, "STRATEGY_DEGRADED")
  <2>1. CASE Duplicate(rows, t)
    <3>1. Commit(c, rows)
      BY <1>10, <2>1 DEF CreateTrigger
    <3> QED
      BY <1>9, <3>1
  <2>2. CASE ~Duplicate(rows, t)
    <3> DEFINE final == [rows EXCEPT !.triggers = Append(@, t), !.ledger = Append(@, e)]
    <3>1. Commit(c, final)
      BY <1>10, <2>2 DEF CreateTrigger, e
    <3>2. s \in Schedules /\ day \in 1..MaxDay
      BY Columns DEF EventSchedules, Created, HealthInv, TypeOK
    <3>3. t \in TriggerRow
      BY <3>2 DEF Trigger, TriggerRow
    <3> HIDE DEF t
    <3>4. /\ Append(l, e) \in Seq(DecisionRow) /\ Append(db.triggers, t) \in Seq(TriggerRow)
          /\ \A x : WasDecided(l, x) => WasDecided(Append(l, e), x)
          /\ \A x : LastDecided(l, x) => LastDecided(Append(l, e), x)
      BY <1>4, <1>7, <3>3, Columns, AppendRow, AppendDecided
    <3>5. final = [health |-> h, observations |-> o, ledger |-> Append(l, e),
                   lastRun |-> db.lastRun, triggers |-> Append(db.triggers, t)]
      <4> DEFINE q == Append(rows.triggers, t)
                 a == [rows EXCEPT !.triggers = q]
                 m == Append(a.ledger, e)
      <4>1. rows.triggers = db.triggers /\ rows.ledger = l
        BY <1>6
      <4>2. q = Append(db.triggers, t)
        BY <4>1
      <4> HIDE DEF q
      <4>3. a = [health |-> h, observations |-> o, ledger |-> l,
                 lastRun |-> db.lastRun, triggers |-> q]
        BY <1>6
      <4> HIDE DEF a
      <4>4. m = Append(l, e)
        BY <4>3
      <4> HIDE DEF m
      <4>5. [a EXCEPT !.ledger = m]
               = [health |-> h, observations |-> o, ledger |-> m,
                  lastRun |-> db.lastRun, triggers |-> q]
        BY <4>3
      <4>6. final = [a EXCEPT !.ledger = m]
        BY Zenon DEF a, q, m
      <4> HIDE DEF final
      <4> QED
        BY <4>2, <4>4, <4>5, <4>6
    <3> HIDE DEF final
    <3>6. /\ TypeOK' /\ ReadsBehind' /\ LedgerExplainsState' /\ LifecycleMatchesState'
          /\ DegradedTwice => DegradedTwice'
          /\ RetiredStep
      BY <1>8, <3>1, <3>4, <3>5
    <3>7. db' = final /\ day' = day /\ (overwritten => overwritten')
      BY <3>1 DEF Commit
    <3>8. ~Duplicate(db, t)
      BY <1>6, <2>2 DEF Duplicate
    <3>9. ReviewsDated' /\ (CadenceKept => CadenceKept')
      BY <3>2, <3>5, <3>7, <3>8, EventTriggered DEF t
    <3> QED
      BY <3>6, <3>9 DEF Step, HealthInv
  <2> QED
    BY <2>1, <2>2
<1> QED
  BY <1>2, <1>9, <1>10

\* the triggers u are reviews of different schedules of new, none of which repeats one of the day
Reviewing(new, u) ==
  /\ new \subseteq DOMAIN db.lastRun
  /\ \A x \in new : ~Duplicate(db, Trigger(x, "PERIODIC_REVIEW"))
  /\ ~overwritten' => ~overwritten /\ \A x \in new : PeriodicDue(db.lastRun, x)
  /\ u \in Seq(TriggerRow)
  /\ \A i \in 1..Len(u) :
       u[i].type = "PERIODIC_REVIEW" /\ u[i].day = day /\ u[i].schedule \in new
  /\ \A i, j \in 1..Len(u) : u[i].schedule = u[j].schedule => i = j
  /\ db'.triggers = db.triggers \o u /\ day' = day
  /\ DOMAIN db.lastRun \subseteq DOMAIN db'.lastRun
  /\ \A x \in DOMAIN db.lastRun : db'.lastRun[x] = IF x \in new THEN day ELSE db.lastRun[x]

\* Such reviews, and last_run_at set with them, keep the cadence.
LEMMA ReviewsTriggered ==
  ASSUME HealthInv, NEW new, NEW u, Reviewing(new, u)
  PROVE  ReviewsDated' /\ (CadenceKept => CadenceKept')
<1> DEFINE k == Len(u)
<1>0. k \in Nat
  BY LenProperties DEF Reviewing
<1> HIDE DEF k
<1>r. /\ new \subseteq DOMAIN db.lastRun
      /\ \A x \in new : ~Duplicate(db, Trigger(x, "PERIODIC_REVIEW"))
      /\ ~overwritten' => ~overwritten /\ \A x \in new : PeriodicDue(db.lastRun, x)
      /\ u \in Seq(TriggerRow) /\ Len(u) = k
      /\ \A i \in 1..k :
           u[i].type = "PERIODIC_REVIEW" /\ u[i].day = day /\ u[i].schedule \in new
      /\ \A i, j \in 1..k : u[i].schedule = u[j].schedule => i = j
      /\ db'.triggers = db.triggers \o u /\ day' = day
      /\ DOMAIN db.lastRun \subseteq DOMAIN db'.lastRun
      /\ \A x \in DOMAIN db.lastRun : db'.lastRun[x] = IF x \in new THEN day ELSE db.lastRun[x]
  BY DEF Reviewing, k
<1> USE <1>0, <1>r
<1> DEFINE n == Len(db.triggers)
<1>1. /\ db.triggers \in Seq(TriggerRow) /\ day \in Nat /\ Cadence \in Nat
      /\ \A x \in DOMAIN db.lastRun : db.lastRun[x] \in Nat
  BY RowFields, HealthAssumption DEF HealthInv, TypeOK
<1>2. /\ n \in Nat /\ DOMAIN db.triggers = 1..n
      /\ DOMAIN db'.triggers = 1..(n + k) /\ Len(db'.triggers) = n + k
      /\ \A i \in 1..n : db'.triggers[i] = db.triggers[i]
      /\ \A i \in 1..(n + k) :
           i \notin 1..n => i - n \in 1..k /\ db'.triggers[i] = u[i - n]
  <2> DEFINE w == db.triggers \o u
  <2>1. /\ n \in Nat /\ DOMAIN db.triggers = 1..n
        /\ DOMAIN w = 1..(n + Len(u)) /\ Len(w) = n + Len(u)
        /\ \A i \in 1..n : w[i] = db.triggers[i]
        /\ \A i \in 1..(n + Len(u)) :
             i \notin 1..n => i - n \in 1..Len(u) /\ w[i] = u[i - n]
    <3> DEFINE v == db.triggers
    <3>1. v \in Seq(TriggerRow) /\ u \in Seq(TriggerRow)
      BY <1>1
    <3> HIDE DEF v
    <3>2. /\ Len(v) \in Nat /\ DOMAIN v = 1..Len(v)
          /\ DOMAIN (v \o u) = 1..(Len(v) + Len(u)) /\ Len(v \o u) = Len(v) + Len(u)
          /\ \A i \in 1..Len(v) : (v \o u)[i] = v[i]
          /\ \A i \in 1..(Len(v) + Len(u)) :
               i \notin 1..Len(v) => i - Len(v) \in 1..Len(u) /\ (v \o u)[i] = u[i - Len(v)]
      BY ONLY <3>1, ConcatRows
    <3> QED
      BY <3>2 DEF v
  <2>2. db'.triggers = w
    OBVIOUS
  <2> HIDE DEF w, n
  <2> QED
    BY <2>1, <2>2
<1>3. \A i \in 1..n : db.triggers[i] \in TriggerRow /\ db.triggers[i].day \in Nat
                      /\ db.triggers[i].day > 0
  <2> SUFFICES ASSUME NEW i \in 1..n
               PROVE  db.triggers[i] \in TriggerRow /\ db.triggers[i].day \in Nat
                      /\ db.triggers[i].day > 0
    OBVIOUS
  <2>1. db.triggers[i] \in TriggerRow
    BY <1>1, <1>2
  <2> QED
    BY <2>1, HealthAssumption DEF TriggerRow
<1>4. \A i \in 1..n : /\ db.triggers[i].day <= day
                      /\ db.triggers[i].type = "PERIODIC_REVIEW" =>
                           /\ db.triggers[i].schedule \in DOMAIN db.lastRun
                           /\ db.lastRun[db.triggers[i].schedule] >= db.triggers[i].day
  BY <1>2 DEF HealthInv, ReviewsDated
<1> HIDE DEF n
<1>5. ReviewsDated'
  <2> SUFFICES ASSUME NEW i \in 1..(n + k)
               PROVE  /\ db'.triggers[i].day <= day
                      /\ db'.triggers[i].type = "PERIODIC_REVIEW" =>
                           /\ db'.triggers[i].schedule \in DOMAIN db'.lastRun
                           /\ db'.lastRun[db'.triggers[i].schedule] >= db'.triggers[i].day
    BY <1>2 DEF ReviewsDated
  <2>1. CASE i \in 1..n
    <3>1. db'.triggers[i] = db.triggers[i]
      BY <1>2, <2>1
    <3> QED
      BY <1>1, <1>3, <1>4, <2>1, <3>1
  <2>2. CASE i \notin 1..n
    <3>1. i - n \in 1..k /\ db'.triggers[i] = u[i - n]
      BY <1>2, <2>2
    <3> DEFINE t == u[i - n]
    <3>2. t.type = "PERIODIC_REVIEW" /\ t.day = day /\ t.schedule \in new
      BY <3>1
    <3> HIDE DEF t
    <3> QED
      BY <1>1, <3>1, <3>2 DEF t
  <2> QED
    BY <2>1, <2>2
<1>6. ASSUME NEW i \in 1..n, NEW x \in new, db.triggers[i].schedule = x,
             db.triggers[i].type = "PERIODIC_REVIEW"
      PROVE  /\ db.triggers[i].day # day
             /\ ~overwritten' => day >= db.triggers[i].day + Cadence
  <2>1. ASSUME db.triggers[i].day = day
        PROVE  FALSE
    <3>1. db.triggers[i] = Trigger(x, "PERIODIC_REVIEW")
      BY <1>3, <1>6, <2>1 DEF TriggerRow, Trigger
    <3> QED
      BY <3>1 DEF Duplicate, n
  <2>2. ASSUME ~overwritten'
        PROVE  day >= db.triggers[i].day + Cadence
    <3>1. db.lastRun[x] = 0 \/ day >= db.lastRun[x] + Cadence
      BY <2>2 DEF PeriodicDue
    <3>2. db.lastRun[x] >= db.triggers[i].day /\ db.lastRun[x] \in Nat
      BY <1>1, <1>4, <1>6
    <3>3. /\ day \in Nat /\ Cadence \in Nat
          /\ db.triggers[i].day \in Nat /\ db.triggers[i].day > 0
      BY <1>1, <1>3
    <3> QED
      BY ONLY <3>1, <3>2, <3>3
  <2> QED
    BY <2>1, <2>2
<1>7. ASSUME CadenceKept
      PROVE  CadenceKept'
  <2> SUFFICES ASSUME NEW i \in 1..(n + k), NEW j \in 1..(n + k), i < j,
                      db'.triggers[i].schedule = db'.triggers[j].schedule,
                      db'.triggers[i].type = db'.triggers[j].type
               PROVE  /\ db'.triggers[i].day # db'.triggers[j].day
                      /\ db'.triggers[i].type = "PERIODIC_REVIEW" /\ ~overwritten' =>
                           db'.triggers[j].day >= db'.triggers[i].day + Cadence
    BY <1>2 DEF CadenceKept
  <2>1. CASE i \in 1..n /\ j \in 1..n
    <3>1. db'.triggers[i] = db.triggers[i] /\ db'.triggers[j] = db.triggers[j]
      BY <1>2, <2>1
    <3>2. /\ db.triggers[i].day # db.triggers[j].day
          /\ db.triggers[i].type = "PERIODIC_REVIEW" /\ ~overwritten =>
               db.triggers[j].day >= db.triggers[i].day + Cadence
      <4>1. i \in 1..Len(db.triggers) /\ j \in 1..Len(db.triggers)
        BY <2>1 DEF n
      <4> QED
        BY <1>7, <3>1, <4>1 DEF CadenceKept
    <3> QED
      BY <3>1, <3>2
  <2>2. CASE i \in 1..n /\ j \notin 1..n
    <3>1. db'.triggers[i] = db.triggers[i]
      BY <1>2, <2>2
    <3>2. /\ db'.triggers[j].type = "PERIODIC_REVIEW" /\ db'.triggers[j].day = day
          /\ db'.triggers[j].schedule \in new
      <4>1. j - n \in 1..k /\ db'.triggers[j] = u[j - n]
        BY <1>2, <2>2
      <4> QED
        BY <4>1
    <3> QED
      BY <1>6, <2>2, <3>1, <3>2
  <2>3. CASE i \notin 1..n /\ j \notin 1..n
    <3>1. /\ i - n \in 1..k /\ db'.triggers[i] = u[i - n]
          /\ j - n \in 1..k /\ db'.triggers[j] = u[j - n]
      BY <1>2, <2>3
    <3>2. i - n = j - n
      BY <3>1
    <3> QED
      BY <1>2, <3>2
  <2>4. ~(i \notin 1..n /\ j \in 1..n)
    BY <1>2
  <2> QED
    BY <2>1, <2>2, <2>3, <2>4
<1> QED
  BY <1>5, <1>7

LEMMA RunDueSchedulesStep ==
  ASSUME HealthInv, NEW c \in Clients, open[c] # None, RunDueSchedules(c)
  PROVE  Step
<1> DEFINE read == open[c].read
           due  == {s \in DOMAIN read.lastRun : PeriodicDue(read.lastRun, s)}
           new  == {s \in due : ~Duplicate(db, Trigger(s, "PERIODIC_REVIEW"))}
           last == [s \in Created |-> IF s \in new THEN day ELSE db.lastRun[s]]
           k    == Cardinality(new)
           e    == Decision("RESEARCH_TRIGGERED", "CAMPAIGN_CREATED")
<1>1. open[c].call.op = "run"
  BY DEF RunDueSchedules
<1>2. PICK order \in Bijection(1..k, new) :
        Commit(c, [db EXCEPT
          !.lastRun = last,
          !.triggers = @ \o [i \in DOMAIN order |-> Trigger(order[i], "PERIODIC_REVIEW")],
          !.ledger = @ \o [i \in DOMAIN order |-> e]])
  BY DEF RunDueSchedules
<1> DEFINE u == [i \in DOMAIN order |-> Trigger(order[i], "PERIODIC_REVIEW")]
           m == [i \in DOMAIN order |-> e]
<1>3. /\ DOMAIN read.lastRun \subseteq DOMAIN db.lastRun /\ DOMAIN db.lastRun \subseteq Schedules
      /\ new \in SUBSET DOMAIN db.lastRun /\ new \in SUBSET Schedules
      /\ \A x \in new : PeriodicDue(read.lastRun, x)
      /\ \A x \in new : ~Duplicate(db, Trigger(x, "PERIODIC_REVIEW"))
  BY OpenFacts, Columns
<1>4. /\ last \in [DOMAIN db.lastRun -> 0..MaxDay]
      /\ \A x \in DOMAIN db.lastRun : last[x] = IF x \in new THEN day ELSE db.lastRun[x]
  <2>1. day \in 0..MaxDay /\ db.lastRun \in [DOMAIN db.lastRun -> 0..MaxDay]
    BY Columns, HealthAssumption DEF HealthInv, TypeOK
  <2> HIDE DEF new
  <2> QED
    BY <2>1 DEF Created
<1> HIDE DEF new, last
<1>5. k \in Nat
  <2>1. IsFiniteSet(new)
    BY <1>3, FS_Subset, HealthAssumption
  <2> QED
    BY <2>1, FS_CardinalityType
<1> HIDE DEF k
<1>6. /\ order \in [1..k -> new] /\ DOMAIN order = 1..k
      /\ \A i, j \in 1..k : order[i] = order[j] => i = j
  BY DEF Bijection, Injection, IsInjective
<1>7. /\ \A i \in 1..k : /\ u[i] \in TriggerRow
                         /\ u[i].type = "PERIODIC_REVIEW" /\ u[i].day = day
                         /\ u[i].schedule = order[i] /\ u[i].schedule \in new
      /\ \A i, j \in 1..k : u[i].schedule = u[j].schedule => i = j
  <2>1. \A i \in 1..k : u[i] = Trigger(order[i], "PERIODIC_REVIEW") /\ order[i] \in new
    BY <1>6
  <2>2. day \in 1..MaxDay
    BY DEF HealthInv, TypeOK
  <2> HIDE DEF u
  <2>3. \A i \in 1..k : /\ u[i] \in TriggerRow
                        /\ u[i].type = "PERIODIC_REVIEW" /\ u[i].day = day
                        /\ u[i].schedule = order[i] /\ u[i].schedule \in new
    <3> SUFFICES ASSUME NEW i \in 1..k
                 PROVE  /\ u[i] \in TriggerRow
                        /\ u[i].type = "PERIODIC_REVIEW" /\ u[i].day = day
                        /\ u[i].schedule = order[i] /\ u[i].schedule \in new
      OBVIOUS
    <3>1. u[i] = Trigger(order[i], "PERIODIC_REVIEW") /\ order[i] \in new
      BY <2>1
    <3>2. order[i] \in Schedules
      BY <1>3, <3>1
    <3> QED
      BY <2>2, <3>1, <3>2 DEF Trigger, TriggerRow
  <2> QED
    BY <1>6, <2>3
<1>8. u \in Seq(TriggerRow) /\ Len(u) = k
  <2>1. u \in [1..k -> TriggerRow] /\ DOMAIN u = 1..k
    BY <1>6, <1>7
  <2> HIDE DEF u
  <2>2. u \in Seq(TriggerRow)
    BY <1>5, <2>1
  <2> QED
    BY <1>5, <2>1, <2>2, LenProperties
<1>9. /\ m \in Seq(DecisionRow) /\ Len(m) = k
      /\ \A i \in 1..Len(m) : m[i].outcome \notin States
  <2>1. e \in DecisionRow /\ e.outcome \notin States
    BY DEF Decision, DecisionRow, States
  <2> HIDE DEF e
  <2>2. m \in [1..k -> DecisionRow] /\ DOMAIN m = 1..k /\ \A i \in 1..k : m[i] = e
    BY <1>6, <2>1
  <2> HIDE DEF m
  <2>3. m \in Seq(DecisionRow)
    BY <1>5, <2>2
  <2>4. Len(m) = k
    BY <1>5, <2>2, <2>3, LenProperties
  <2> QED
    BY <2>1, <2>2, <2>3, <2>4
<1> HIDE DEF u, m
<1> DEFINE t == db.triggers \o u
           l == db.ledger \o m
           rows == [db EXCEPT !.lastRun = last, !.triggers = t, !.ledger = l]
<1>10. Commit(c, rows)
  BY <1>2, Zenon DEF u, m
<1>11. t \in Seq(TriggerRow) /\ l \in Seq(DecisionRow)
  BY <1>8, <1>9, Columns, ConcatRows
<1> HIDE DEF t, l
<1>12. rows = [health |-> db.health, observations |-> db.observations, ledger |-> l,
               lastRun |-> last, triggers |-> t]
  BY UpdateReviews, Zenon
<1> HIDE DEF rows
<1>13. rows \in Rows
  <2>1. DOMAIN db.lastRun \in SUBSET Schedules /\ db.health \in HealthRow
        /\ db.observations \in Seq(Observation)
    BY Columns
  <2> QED
    BY <1>4, <1>11, <1>12, <2>1, MakeRows
<1>14. /\ rows.health = db.health /\ rows.observations = db.observations /\ rows.ledger = l
       /\ rows.lastRun = last /\ rows.triggers = t /\ DOMAIN last = DOMAIN db.lastRun
  BY <1>4, <1>12
<1>15. TypeOK' /\ ReadsBehind'
  BY <1>10, <1>13, <1>14, CommitKeeps
<1>16. /\ db' = rows /\ day' = day /\ (overwritten => overwritten')
       /\ (~overwritten' => ~overwritten /\ db.lastRun = read.lastRun)
  BY <1>1, <1>10 DEF Commit
<1>17. ReviewsDated' /\ (CadenceKept => CadenceKept')
  <2>1. ~overwritten' => ~overwritten /\ \A x \in new : PeriodicDue(db.lastRun, x)
    BY <1>3, <1>16
  <2>2. db'.triggers = db.triggers \o u
    BY <1>14, <1>16 DEF t
  <2>3. \A i \in 1..k : u[i].type = "PERIODIC_REVIEW" /\ u[i].day = day /\ u[i].schedule \in new
    BY <1>7
  <2>4. DOMAIN db.lastRun \subseteq DOMAIN db'.lastRun
    BY <1>14, <1>16
  <2>5. \A x \in DOMAIN db.lastRun : db'.lastRun[x] = IF x \in new THEN day ELSE db.lastRun[x]
    BY <1>4, <1>14, <1>16
  <2>6. Reviewing(new, u)
    BY <1>3, <1>7, <1>8, <1>16, <2>1, <2>2, <2>3, <2>4, <2>5 DEF Reviewing
  <2> QED
    BY <2>6, ReviewsTriggered
<1>18. /\ LedgerExplainsState' /\ LifecycleMatchesState'
       /\ DegradedTwice => DegradedTwice'
       /\ RetiredStep
  <2>1. /\ \A x : LastDecided(db.ledger, x) => LastDecided(l, x)
        /\ \A x : WasDecided(db.ledger, x) => WasDecided(l, x)
    BY <1>9, Columns, ConcatDecided DEF l
  <2> QED
    BY <1>14, <1>16, <2>1, HealthStays
<1> QED
  BY <1>15, <1>17, <1>18 DEF Step, HealthInv

-----------------------------------------------------------------------------
(* The theorems *)

\* One step of any client, or of the calendar.
LEMMA NextStep == HealthInv /\ [Next]_vars => Step
<1> SUFFICES ASSUME HealthInv, [Next]_vars
             PROVE  Step
  OBVIOUS
<1>1. CASE UNCHANGED vars \/ NextDay
  BY <1>1, OtherSteps
<1>2. ASSUME NEW c \in Clients, NEW call \in Calls, Begin(c, call)
      PROVE  Step
  BY <1>2, BeginStep
<1>3. ASSUME NEW c \in Clients, open[c] # None,
             RecordObservation(c) \/ Transition(c) \/ CreateSchedule(c)
               \/ RunDueSchedules(c) \/ Abort(c)
      PROVE  Step
  BY <1>3, RecordObservationStep, TransitionStep, CreateScheduleStep, RunDueSchedulesStep, OtherSteps
<1> QED
  BY <1>1, <1>2, <1>3 DEF Next

\* The ledger explains the state a strategy is in and its lifecycle says the same, unless a
\* commit wrote over a row its transaction had not read; every row keeps its type, and what
\* open transactions have read stays behind what is committed.
THEOREM HealthIsExplained == Spec => []HealthInv
<1>1. Init => HealthInv
  BY InitHealth
<1>2. HealthInv /\ [Next]_vars => HealthInv'
  BY NextStep DEF Step
<1> QED
  BY <1>1, <1>2, PTL DEF Spec

\* Whatever overlaps and in whatever order windows arrive, a strategy is found degraded on a
\* poor window only when an earlier commit holds another one.
THEOREM DegradationIsConfirmed == Spec => []DegradedTwice
<1>1. Init => HealthInv /\ DegradedTwice
  BY InitHealth
<1>2. HealthInv /\ DegradedTwice /\ [Next]_vars => HealthInv' /\ DegradedTwice'
  BY NextStep DEF Step
<1> QED
  BY <1>1, <1>2, PTL DEF Spec

\* A schedule starts one campaign a day for each kind of trigger, and reviews no more often
\* than its cadence unless runs of the schedules overlap.
THEOREM ReviewsKeepTheirCadence == Spec => []CadenceKept
<1>1. Init => HealthInv /\ CadenceKept
  BY InitHealth
<1>2. HealthInv /\ CadenceKept /\ [Next]_vars => HealthInv' /\ CadenceKept'
  BY NextStep DEF Step
<1> QED
  BY <1>1, <1>2, PTL DEF Spec

\* A retired strategy keeps its state, lifecycle and allocation of nothing, and no window is
\* recorded for it, except by a commit over a row its transaction had not read.
THEOREM RetirementIsFinal == Spec => RetiredForGood
<1>1. HealthInv /\ [Next]_vars => RetiredStep
  BY NextStep DEF Step
<1>2. HealthInv /\ [Next]_vars =>
        [db.health.state = "RETIRED" /\ ~overwritten' =>
           /\ db'.health = db.health
           /\ db'.observations = db.observations
           /\ AllocationMultiplier(db'.health.state) = 0]_vars
  BY <1>1 DEF RetiredStep
<1> QED
  BY <1>2, HealthIsExplained, PTL DEF Spec, RetiredForGood
=============================================================================
