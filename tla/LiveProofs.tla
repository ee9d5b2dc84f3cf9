------------------------------ MODULE LiveProofs ------------------------------
(***************************************************************************)
(* The safety of a live session, for every limit, feed and number of       *)
(* faults.  The inductive invariant says where each bound comes from: a    *)
(* bar in hand is counted but not yet recorded, a bar recorded at the      *)
(* limit has set the stop event, after which no bar is taken in hand, and  *)
(* the memory of the thread is never older than its rows.                  *)
(***************************************************************************)
EXTENDS LiveProperties, TLAPS

\* the reconnections left while the thread is in its loop
AttemptsLeft ==
  pc \in {"created", "loop", "stream", "bar", "dropped"} => memory.attempts <= MaxReconnects

\* the bars recorded without an error are counted, and reach the limit only with the stop set
Counted ==
  /\ row.bars - row.errors <= memory.events
  /\ pc = "bar" => row.bars - row.errors < memory.events
  /\ row.bars - row.errors < MaxEvents \/ (row.bars - row.errors = MaxEvents /\ stop /\ pc # "bar")

\* the bar in hand is newer than any that is recorded
Ahead == row.last <= memory.last /\ (pc = "bar" => row.last < memory.last)

LiveIInv == TypeOK /\ AttemptsLeft /\ Counted /\ Ahead /\ LostFillsBounded

Row == [status : Status, ended : BOOLEAN, bars : Nat, errors : Nat, last : Times \cup {0},
        net : Int]

Memory == [events : Nat, attempts : 0..(MaxReconnects + 1), last : Times \cup {0},
           position : {0, 1}]

LEMMA LiveInitInv == Init => LiveIInv
<1> SUFFICES ASSUME Init  PROVE LiveIInv
  OBVIOUS
<1>1. /\ row.bars = 0 /\ row.errors = 0 /\ row.last = 0 /\ row.net = 0
      /\ memory.events = 0 /\ memory.attempts = 0 /\ memory.last = 0 /\ memory.position = 0
      /\ pc = "created" /\ faults = 0
  BY DEF Init
<1>2. MaxEvents \in Nat \ {0} /\ MaxReconnects \in Nat /\ MaxFaults \in Nat /\ MaxDrops \in Nat
      /\ MaxStops \in Nat
  BY LiveAssumption
<1>3. TypeOK
  <2>1. row \in Row /\ memory \in Memory
    BY <1>2 DEF Init, Row, Memory, Status, Ended
  <2>2. /\ 0 \in 0..MaxFaults /\ 0 \in 0..MaxDrops /\ 0 \in 0..MaxStops
    BY <1>2
  <2>3. "DISCONNECTED" \in Status
    BY DEF Status
  <2> QED
    BY <2>1, <2>2, <2>3 DEF Init, TypeOK, Row, Memory
<1>4. AttemptsLeft /\ Counted /\ Ahead /\ LostFillsBounded
  BY <1>1, <1>2 DEF AttemptsLeft, Counted, Ahead, LostFillsBounded
<1> QED
  BY <1>3, <1>4 DEF LiveIInv

\* A wider range holds what a narrower one does.
LEMMA Widen ==
  ASSUME NEW x \in Int, NEW f \in Nat, NEW g \in {f, f + 1}, x \in (-f)..f
  PROVE  x \in (-g)..g
OBVIOUS

LEMMA Numbers ==
  ASSUME TypeOK
  PROVE  /\ row.bars \in Nat /\ row.errors \in Nat /\ row.net \in Int /\ row.last \in Nat
         /\ memory.events \in Nat /\ memory.attempts \in Nat /\ memory.position \in Int
         /\ memory.last \in Nat
         /\ faults \in Nat /\ MaxEvents \in Nat \ {0} /\ MaxReconnects \in Nat
<1>1. Times \subseteq Nat /\ MaxFaults \in Nat /\ MaxReconnects \in Nat /\ MaxEvents \in Nat \ {0}
  BY LiveAssumption
<1>2. faults \in Nat
  BY <1>1 DEF TypeOK
<1>3. row \in Row /\ memory \in Memory
  BY DEF TypeOK, Row, Memory
<1>4. /\ row.bars \in Nat /\ row.errors \in Nat /\ row.net \in Int /\ row.last \in Times \cup {0}
      /\ memory.events \in Nat /\ memory.last \in Times \cup {0}
      /\ memory.attempts \in 0..(MaxReconnects + 1) /\ memory.position \in {0, 1}
  BY <1>3 DEF Row, Memory
<1>5. row.last \in Nat /\ memory.last \in Nat
  <2>1. Times \cup {0} \subseteq Nat
    <3>1. ASSUME NEW x \in Times  PROVE x \in Nat
      BY <1>1
    <3> QED
      BY <3>1
  <2> QED
    BY <1>4, <2>1, Zenon
<1> QED
  BY <1>1, <1>2, <1>4, <1>5

\* What the row of the session is after a bar has been committed.
LEMMA BarRowIs ==
  ASSUME TypeOK, NEW trade \in {-1, 0, 1}
  PROVE  /\ BarRow(trade).status \in Status /\ BarRow(trade).ended = row.ended
         /\ BarRow(trade).bars = row.bars + 1 /\ BarRow(trade).errors = row.errors
         /\ BarRow(trade).last = memory.last /\ BarRow(trade).net = row.net + trade
         /\ BarRow(trade) \in Row
<1>1. /\ row.status \in Status /\ "STREAMING" \in Status /\ memory.last \in Times \cup {0}
      /\ row.ended \in BOOLEAN /\ row.bars \in Nat /\ row.errors \in Nat /\ row.net \in Int
  BY DEF TypeOK, Status
<1> QED
  BY <1>1 DEF BarRow, Row

\* A transaction that writes the status leaves everything the bounds are about.
LEMMA StatusIsAllThatChanges ==
  ASSUME TypeOK, NEW s \in Status, NEW b \in BOOLEAN,
         \/ row' = row
         \/ row' = [row EXCEPT !.status = s]
         \/ row' = [row EXCEPT !.status = s, !.ended = b]
  PROVE  /\ row' \in Row
         /\ row'.bars = row.bars /\ row'.errors = row.errors
         /\ row'.last = row.last /\ row'.net = row.net
BY DEF TypeOK, Row

\* Any step that leaves the recorded bars and fills and the memory alone keeps the bounds
\* unless it takes a bar in hand or spends the last reconnection.
LEMMA QuietStep ==
  ASSUME LiveIInv,
         row' \in Row,
         row'.bars = row.bars, row'.errors = row.errors, row'.last = row.last, row'.net = row.net,
         memory' \in Memory,
         memory'.events = memory.events, memory'.last = memory.last,
         memory'.position = memory.position,
         pc' = "bar" => pc = "bar", stop => stop',
         faults' \in {faults, faults + 1}
  PROVE  Counted' /\ Ahead' /\ LostFillsBounded'
<1>1. /\ row.bars \in Nat /\ row.errors \in Nat /\ row.net \in Int /\ row.last \in Nat
      /\ memory.events \in Nat /\ memory.position \in Int /\ memory.last \in Nat
      /\ faults \in Nat /\ MaxEvents \in Nat
  BY Numbers DEF LiveIInv
<1>2. Counted'
  BY <1>1 DEF LiveIInv, Counted
<1>3. Ahead'
  BY <1>1 DEF LiveIInv, Ahead
<1>4. LostFillsBounded'
  <2>1. row.net - memory.position \in (-faults)..faults
    BY DEF LiveIInv, LostFillsBounded
  <2>2. row'.net - memory'.position \in (-(faults'))..faults'
    BY <1>1, <2>1, Widen
  <2> QED
    BY <2>2 DEF LostFillsBounded
<1> QED
  BY <1>2, <1>3, <1>4

-----------------------------------------------------------------------------
(* The steps of the thread *)

\* A transaction that commits a status, fails, or has not been tried.
LEMMA Commit ==
  ASSUME TypeOK, NEW s \in Status, NEW a, NEW b,
         \/ Commits(s, a) \/ Fails(b)
         \/ UNCHANGED <<row, faults>>
  PROVE  /\ row' \in Row
         /\ row'.bars = row.bars /\ row'.errors = row.errors
         /\ row'.last = row.last /\ row'.net = row.net
         /\ faults' \in {faults, faults + 1} /\ faults' \in 0..MaxFaults
<1>1. \/ row' = row
      \/ row' = [row EXCEPT !.status = s]
  BY DEF Commits, Fails
<1>2. faults' \in {faults, faults + 1} /\ faults' \in 0..MaxFaults
  <2>1. faults \in 0..MaxFaults /\ MaxFaults \in Nat
    BY LiveAssumption DEF TypeOK
  <2>2. CASE UNCHANGED faults
    BY <2>1, <2>2
  <2>3. CASE faults < MaxFaults /\ faults' = faults + 1
    BY <2>1, <2>3
  <2> QED
    BY <2>2, <2>3 DEF Commits, Fails
<1> QED
  BY <1>1, <1>2, StatusIsAllThatChanges

\* The steps of the thread outside a bar: what they write is at most a status.
QuietRunner ==
  \/ Start \/ Connect \/ LeaveLoop \/ Disconnect \/ StreamEnds \/ Reconnect
  \/ Finish \/ RecordFailure

LEMMA QuietRunnerKeeps ==
  ASSUME LiveIInv, QuietRunner
  PROVE  LiveIInv'
<1>1. TypeOK /\ MaxReconnects \in Nat /\ memory \in Memory
  BY Numbers DEF LiveIInv, TypeOK, Memory
<1>2. /\ row' \in Row
      /\ row'.bars = row.bars /\ row'.errors = row.errors
      /\ row'.last = row.last /\ row'.net = row.net
      /\ faults' \in {faults, faults + 1} /\ faults' \in 0..MaxFaults
  <2>1. {"CONNECTING", "CONNECTED", "RECONNECTING", "FAILED", "STOPPED"} \subseteq Status
    BY DEF Status, Ended
  <2>2. CASE Start
    BY <1>1, <2>1, <2>2, Commit DEF Start
  <2>3. CASE Connect
    BY <1>1, <2>1, <2>3, Commit DEF Connect
  <2>4. CASE LeaveLoop \/ Disconnect \/ StreamEnds
    BY <1>1, <2>1, <2>4, Commit DEF LeaveLoop, Disconnect, StreamEnds
  <2>5. CASE Reconnect
    BY <1>1, <2>1, <2>5, Commit DEF Reconnect
  <2>6. CASE RecordFailure
    BY <1>1, <2>1, <2>6, Commit DEF RecordFailure
  <2>7. CASE Finish
    <3>1. CASE Fails("failing")
      BY <1>1, <2>1, <3>1, Commit
    <3>2. CASE row' = [row EXCEPT !.status = "STOPPED", !.ended = TRUE] /\ UNCHANGED faults
      BY <1>1, <2>1, <3>2, StatusIsAllThatChanges DEF TypeOK
    <3> QED
      BY <2>7, <3>1, <3>2 DEF Finish
  <2> QED
    BY <2>2, <2>3, <2>4, <2>5, <2>6, <2>7 DEF QuietRunner
<1>3. /\ memory' = memory \/ (pc = "dropped" /\ memory' = [memory EXCEPT !.attempts = @ + 1])
      /\ stop' = stop /\ UNCHANGED <<stops, caller, asked, loaded>>
      /\ pc' \in {"loop", "failing", "stream", "dropped", "ending", "done", "lost"}
      /\ offset' \in {0, offset} /\ (drops' = drops \/ (drops < MaxDrops /\ drops' = drops + 1))
  BY DEF QuietRunner, Start, Connect, LeaveLoop, Disconnect, StreamEnds, Reconnect, Finish,
     RecordFailure, Commits, Fails, request
<1>4. memory.attempts \in 0..(MaxReconnects + 1) /\ (pc = "dropped" => memory.attempts <= MaxReconnects)
  BY DEF LiveIInv, TypeOK, AttemptsLeft
<1>5. /\ memory' \in Memory /\ memory'.events = memory.events /\ memory'.last = memory.last
      /\ memory'.position = memory.position
  <2>1. CASE memory' = memory
    BY <1>1, <2>1
  <2>2. CASE pc = "dropped" /\ memory' = [memory EXCEPT !.attempts = @ + 1]
    <3>1. memory.attempts + 1 \in 0..(MaxReconnects + 1)
      BY <1>1, <1>4, <2>2
    <3> QED
      BY <1>1, <2>2, <3>1 DEF Memory
  <2> QED
    BY <1>3, <2>1, <2>2
<1>6. Counted' /\ Ahead' /\ LostFillsBounded'
  BY <1>2, <1>3, <1>5, QuietStep
<1>7. AttemptsLeft'
  <2>1. CASE Reconnect
    <3>1. memory'.attempts > MaxReconnects => pc' = "failing"
      BY <2>1 DEF Reconnect, Commits, Fails
    <3>2. memory'.attempts \in Nat
      BY <1>1, <1>5 DEF Memory
    <3> QED
      BY <1>1, <3>1, <3>2 DEF AttemptsLeft
  <2>2. CASE memory' = memory /\ (Start \/ Connect \/ Disconnect \/ LeaveLoop \/ StreamEnds)
    BY <2>2 DEF LiveIInv, AttemptsLeft, Start, Connect, Disconnect, LeaveLoop, StreamEnds
  <2>3. CASE pc' \in {"failing", "done", "lost"}
    BY <2>3 DEF AttemptsLeft
  <2> QED
    BY <2>1, <2>2, <2>3 DEF QuietRunner, Start, Connect, Disconnect, LeaveLoop, StreamEnds,
       Finish, RecordFailure, Commits, Fails
<1>8. drops' \in 0..MaxDrops
  <2>1. drops \in 0..MaxDrops /\ MaxDrops \in Nat
    BY LiveAssumption DEF LiveIInv, TypeOK
  <2> QED
    BY <1>3, <2>1
<1>9. TypeOK'
  BY <1>2, <1>3, <1>5, <1>8 DEF LiveIInv, TypeOK, Row, Memory
<1> QED
  BY <1>6, <1>7, <1>9 DEF LiveIInv

LEMMA ReceiveKeeps ==
  ASSUME LiveIInv, NEW t \in Times, Receive(t)
  PROVE  LiveIInv'
<1>1. /\ row.bars \in Nat /\ row.errors \in Nat /\ row.net \in Int /\ row.last \in Nat
      /\ memory.events \in Nat /\ memory.attempts \in Nat /\ memory.position \in Int
      /\ memory.last \in Nat
      /\ faults \in Nat /\ MaxEvents \in Nat \ {0} /\ MaxReconnects \in Nat
  BY Numbers DEF LiveIInv
<1>2. TypeOK /\ memory \in Memory /\ row \in Row /\ row.status \in Status
  BY DEF LiveIInv, TypeOK, Memory, Row
<1>3. UNCHANGED <<stop, drops, stops, caller, asked>> /\ offset' = t /\ pc = "stream"
  BY DEF Receive, request
<1>4. CASE /\ pc' = "ending"
           /\ UNCHANGED <<row, memory, loaded, faults>>
  <2>1. Counted' /\ Ahead' /\ LostFillsBounded'
    BY <1>2, <1>3, <1>4, QuietStep
  <2>2. TypeOK' /\ AttemptsLeft'
    BY <1>3, <1>4 DEF LiveIInv, TypeOK, AttemptsLeft
  <2> QED
    BY <2>1, <2>2 DEF LiveIInv
<1>5. CASE /\ memory' = [memory EXCEPT !.attempts = 0]
           /\ Commits(row.status, "stream") \/ Fails("dropped")
           /\ UNCHANGED loaded
  <2>1. /\ row' \in Row
        /\ row'.bars = row.bars /\ row'.errors = row.errors
        /\ row'.last = row.last /\ row'.net = row.net
        /\ faults' \in {faults, faults + 1} /\ faults' \in 0..MaxFaults
    BY <1>2, <1>5, Commit
  <2>2. memory' \in Memory /\ memory'.events = memory.events /\ memory'.last = memory.last
        /\ memory'.position = memory.position /\ memory'.attempts = 0
    BY <1>1, <1>2, <1>5 DEF Memory
  <2>3. pc' \in {"stream", "dropped"}
    BY <1>5 DEF Commits, Fails
  <2>4. Counted' /\ Ahead' /\ LostFillsBounded'
    BY <1>3, <2>1, <2>2, <2>3, QuietStep
  <2>5. AttemptsLeft'
    BY <1>1, <2>2 DEF AttemptsLeft
  <2>6. TypeOK'
    BY <1>3, <1>5, <2>1, <2>2, <2>3 DEF LiveIInv, TypeOK, Row, Memory
  <2> QED
    BY <2>4, <2>5, <2>6 DEF LiveIInv
<1>6. CASE /\ ~stop /\ t > memory.last
           /\ memory' = [events |-> memory.events + 1, attempts |-> 0, last |-> t,
                         position |-> memory.position]
           /\ loaded' = row.status
           /\ pc' = "bar"
           /\ UNCHANGED <<row, faults>>
  <2>1. /\ memory' \in Memory /\ memory'.events = memory.events + 1 /\ memory'.last = t
        /\ memory'.position = memory.position /\ memory'.attempts = 0
    <3>1. memory.position \in {0, 1} /\ memory.events + 1 \in Nat /\ 0 \in 0..(MaxReconnects + 1)
      BY <1>1, <1>2 DEF Memory
    <3> QED
      BY <1>6, <3>1 DEF Memory
  <2>2. t \in Nat
    BY LiveAssumption
  <2>3. Counted'
    BY <1>1, <1>3, <1>6, <2>1 DEF LiveIInv, Counted
  <2>4. Ahead'
    BY <1>1, <1>6, <2>1, <2>2 DEF LiveIInv, Ahead
  <2>5. LostFillsBounded'
    BY <1>6, <2>1 DEF LiveIInv, LostFillsBounded
  <2>6. AttemptsLeft'
    BY <1>1, <2>1 DEF AttemptsLeft
  <2>7. TypeOK'
    BY <1>2, <1>3, <1>6, <2>1 DEF LiveIInv, TypeOK, Memory
  <2> QED
    BY <2>3, <2>4, <2>5, <2>6, <2>7 DEF LiveIInv
<1> QED
  BY <1>4, <1>5, <1>6 DEF Receive

-----------------------------------------------------------------------------
(* The end of a bar *)

\* A bar that is committed is recorded once, and the portfolio moves with its fill.
LEMMA TradeKeeps ==
  ASSUME LiveIInv, Trade
  PROVE  LiveIInv' /\ row'.last > row.last
<1>1. /\ row.bars \in Nat /\ row.errors \in Nat /\ row.net \in Int /\ row.last \in Nat
      /\ memory.events \in Nat /\ memory.attempts \in Nat /\ memory.position \in Int
      /\ memory.last \in Nat
      /\ faults \in Nat /\ MaxEvents \in Nat \ {0} /\ MaxReconnects \in Nat
  BY Numbers DEF LiveIInv
<1>2. TypeOK /\ memory \in Memory /\ memory.position \in {0, 1} /\ pc = "bar"
  BY DEF LiveIInv, TypeOK, Memory, Trade
<1>3. PICK trade \in Trades :
        row' = BarRow(trade) /\ memory' = [memory EXCEPT !.position = @ + trade]
  BY DEF Trade
<1>4. trade \in {-1, 0, 1} /\ memory.position + trade \in {0, 1}
  BY <1>2, <1>3 DEF Trades
<1>5. /\ row' \in Row /\ row'.bars = row.bars + 1 /\ row'.errors = row.errors
      /\ row'.last = memory.last /\ row'.net = row.net + trade
  BY <1>2, <1>3, <1>4, BarRowIs
<1>6. /\ memory' \in Memory /\ memory'.events = memory.events /\ memory'.last = memory.last
      /\ memory'.attempts = memory.attempts /\ memory'.position = memory.position + trade
  BY <1>2, <1>3, <1>4 DEF Memory
<1>7. /\ stop' = (stop \/ AtLimit) /\ pc' = IF AtLimit THEN "ending" ELSE "stream"
      /\ UNCHANGED <<offset, loaded, faults, drops, caller, asked, stops>>
  BY DEF Trade, request
<1>8. Counted'
  <2>1. row.bars - row.errors < MaxEvents /\ row.bars - row.errors < memory.events
    BY <1>2 DEF LiveIInv, Counted
  <2>2. row'.bars - row'.errors = (row.bars - row.errors) + 1
    BY <1>1, <1>5
  <2>3. row'.bars - row'.errors <= memory.events /\ row'.bars - row'.errors <= MaxEvents
    <3> DEFINE good == row.bars - row.errors
    <3>1. good \in Int /\ good < memory.events /\ good < MaxEvents
      BY <1>1, <2>1
    <3> HIDE DEF good
    <3>2. good + 1 <= memory.events /\ good + 1 <= MaxEvents
      BY <1>1, <3>1
    <3> QED
      BY <2>2, <3>2 DEF good
  <2>4. pc' # "bar" /\ (AtLimit => stop')
    BY <1>7
  <2>5. row'.bars - row'.errors < MaxEvents \/ row'.bars - row'.errors = MaxEvents
    BY <1>1, <2>2, <2>3
  <2>6. row'.bars - row'.errors = MaxEvents => AtLimit
    BY <1>1, <2>3 DEF AtLimit
  <2> QED
    BY <1>6, <2>3, <2>4, <2>5, <2>6 DEF Counted
<1>9. Ahead' /\ row'.last > row.last
  BY <1>1, <1>2, <1>5, <1>6, <1>7 DEF LiveIInv, Ahead
<1>10. LostFillsBounded'
  <2>1. row'.net - memory'.position = row.net - memory.position
    BY <1>1, <1>4, <1>5, <1>6
  <2> QED
    BY <1>7, <2>1 DEF LiveIInv, LostFillsBounded
<1>11. AttemptsLeft'
  BY <1>2, <1>6 DEF LiveIInv, AttemptsLeft
<1>12. TypeOK'
  <2>1. stop' \in BOOLEAN /\ pc' \in {"ending", "stream"}
    BY <1>7 DEF AtLimit
  <2> QED
    BY <1>5, <1>6, <1>7, <2>1 DEF LiveIInv, TypeOK, Row, Memory
<1> QED
  BY <1>8, <1>9, <1>10, <1>11, <1>12 DEF LiveIInv

\* A bar the strategy failed on is recorded with an error.
LEMMA StrategyErrorKeeps ==
  ASSUME LiveIInv, StrategyError
  PROVE  LiveIInv' /\ row'.last > row.last
<1>1. /\ row.bars \in Nat /\ row.errors \in Nat /\ row.net \in Int /\ row.last \in Nat
      /\ memory.events \in Nat /\ memory.attempts \in Nat /\ memory.position \in Int
      /\ memory.last \in Nat
      /\ faults \in Nat /\ MaxEvents \in Nat \ {0} /\ MaxReconnects \in Nat
  BY Numbers DEF LiveIInv
<1>2. TypeOK /\ pc = "bar" /\ BarRow(0) \in Row
  BY BarRowIs DEF LiveIInv, StrategyError
<1>3. row' = [BarRow(0) EXCEPT !.errors = @ + 1]
  BY DEF StrategyError
<1>4. /\ row' \in Row /\ row'.bars = row.bars + 1 /\ row'.errors = row.errors + 1
      /\ row'.last = memory.last /\ row'.net = row.net
  BY <1>1, <1>2, <1>3, BarRowIs DEF Row
<1>5. /\ faults < MaxFaults /\ faults' = faults + 1 /\ pc' = "stream"
      /\ UNCHANGED <<memory, offset, loaded, stop, drops, caller, asked, stops>>
  BY DEF StrategyError, request
<1>6. Counted'
  <2>1. row'.bars - row'.errors = row.bars - row.errors
    BY <1>1, <1>4
  <2> QED
    BY <1>1, <1>2, <1>5, <2>1 DEF LiveIInv, Counted
<1>7. Ahead' /\ row'.last > row.last
  BY <1>1, <1>2, <1>4, <1>5 DEF LiveIInv, Ahead
<1>8. LostFillsBounded'
  <2>1. row.net - memory.position \in (-(faults'))..faults'
    BY <1>1, <1>5, Widen DEF LiveIInv, LostFillsBounded
  <2> QED
    BY <1>4, <1>5, <2>1 DEF LostFillsBounded
<1>9. faults' \in 0..MaxFaults
  <2>1. MaxFaults \in Nat
    BY LiveAssumption
  <2> QED
    BY <1>1, <1>5, <2>1
<1>10. TypeOK' /\ AttemptsLeft'
  BY <1>2, <1>4, <1>5, <1>9 DEF LiveIInv, TypeOK, Row, AttemptsLeft
<1> QED
  BY <1>6, <1>7, <1>8, <1>10 DEF LiveIInv

\* A bar whose transaction fails leaves its fill in the portfolio, and a fault behind it.
LEMMA LoseBarKeeps ==
  ASSUME LiveIInv, LoseBar
  PROVE  LiveIInv'
<1>1. /\ row.bars \in Nat /\ row.errors \in Nat /\ row.net \in Int /\ row.last \in Nat
      /\ memory.events \in Nat /\ memory.attempts \in Nat /\ memory.position \in Int
      /\ memory.last \in Nat
      /\ faults \in Nat /\ MaxEvents \in Nat \ {0} /\ MaxReconnects \in Nat
  BY Numbers DEF LiveIInv
<1>2. TypeOK /\ memory \in Memory /\ memory.position \in {0, 1} /\ pc = "bar"
  BY DEF LiveIInv, TypeOK, Memory, LoseBar
<1>3. PICK trade \in Trades : memory' = [memory EXCEPT !.position = @ + trade]
  BY DEF LoseBar
<1>4. trade \in {-1, 0, 1} /\ memory.position + trade \in {0, 1}
  BY <1>2, <1>3 DEF Trades
<1>5. /\ memory' \in Memory /\ memory'.events = memory.events /\ memory'.last = memory.last
      /\ memory'.attempts = memory.attempts /\ memory'.position = memory.position + trade
  BY <1>2, <1>3, <1>4 DEF Memory
<1>6. /\ faults < MaxFaults /\ faults' = faults + 1 /\ pc' = "dropped"
      /\ UNCHANGED <<row, offset, loaded, stop, drops, caller, asked, stops>>
  BY DEF LoseBar, Fails, request
<1>7. Counted' /\ Ahead'
  BY <1>1, <1>2, <1>5, <1>6 DEF LiveIInv, Counted, Ahead
<1>8. LostFillsBounded'
  <2>1. row.net - memory.position \in (-faults)..faults
    BY DEF LiveIInv, LostFillsBounded
  <2>2. row.net - (memory.position + trade) \in (-(faults + 1))..(faults + 1)
    BY <1>1, <1>4, <2>1
  <2> QED
    BY <1>5, <1>6, <2>2 DEF LostFillsBounded
<1>9. faults' \in 0..MaxFaults
  <2>1. MaxFaults \in Nat
    BY LiveAssumption
  <2> QED
    BY <1>1, <1>6, <2>1
<1>10. TypeOK' /\ AttemptsLeft'
  BY <1>2, <1>5, <1>6, <1>9 DEF LiveIInv, TypeOK, Memory, AttemptsLeft
<1> QED
  BY <1>7, <1>8, <1>10 DEF LiveIInv

-----------------------------------------------------------------------------
(* The stop request and the death of the process *)

LEMMA OthersKeep ==
  ASSUME LiveIInv, Die \/ StopAsk \/ StopRead \/ StopWrite \/ UNCHANGED vars
  PROVE  LiveIInv' /\ row'.bars = row.bars
<1>1. TypeOK /\ memory \in Memory /\ row \in Row /\ row.status \in Status
      /\ MaxFaults \in Nat /\ MaxStops \in Nat /\ faults \in 0..MaxFaults /\ stops \in 0..MaxStops
  BY LiveAssumption DEF LiveIInv, TypeOK, Memory, Row
<1>2. /\ UNCHANGED <<memory, offset, loaded, drops>> /\ (stop => stop')
      /\ pc' = pc \/ pc' = "lost"
  BY DEF Die, StopAsk, StopRead, StopWrite, vars, thread
<1>3. /\ \/ row' = row
         \/ row' = [row EXCEPT !.status = "STOPPED", !.ended = TRUE]
      /\ faults' = faults \/ (faults < MaxFaults /\ faults' = faults + 1)
      /\ stops' = stops \/ (stops < MaxStops /\ stops' = stops + 1)
  BY DEF Die, StopAsk, StopRead, StopWrite, vars
<1>4. /\ row' \in Row /\ row'.bars = row.bars /\ row'.errors = row.errors
      /\ row'.last = row.last /\ row'.net = row.net
  <2>1. "STOPPED" \in Status
    BY DEF Status, Ended
  <2> QED
    BY <1>1, <1>3, <2>1, StatusIsAllThatChanges
<1>5. Counted' /\ Ahead' /\ LostFillsBounded'
  BY <1>1, <1>2, <1>3, <1>4, QuietStep
<1>6. AttemptsLeft'
  BY <1>2 DEF LiveIInv, AttemptsLeft
<1>7. faults' \in 0..MaxFaults /\ stops' \in 0..MaxStops
  BY <1>1, <1>3
<1>8. stop' \in BOOLEAN /\ caller' \in {"none", "joining", "writing", "answered"} /\ asked' \in Status
  BY <1>1 DEF LiveIInv, TypeOK, Die, StopAsk, StopRead, StopWrite, vars
<1>9. TypeOK'
  BY <1>2, <1>4, <1>7, <1>8 DEF LiveIInv, TypeOK, Row
<1> QED
  BY <1>4, <1>5, <1>6, <1>9 DEF LiveIInv

-----------------------------------------------------------------------------
(* The theorems *)

LEMMA LiveStep ==
  ASSUME LiveIInv, [Next]_vars
  PROVE  LiveIInv' /\ (row'.bars # row.bars => row'.last > row.last)
<1>1. CASE QuietRunner
  <2>1. row'.bars = row.bars
    <3>1. TypeOK
      BY DEF LiveIInv
    <3> QED
      BY <1>1, <3>1 DEF QuietRunner, Start, Connect, LeaveLoop, Disconnect, StreamEnds, Reconnect,
         Finish, RecordFailure, Commits, Fails, TypeOK
  <2> QED
    BY <1>1, <2>1, QuietRunnerKeeps
<1>2. ASSUME NEW t \in Times, Receive(t)  PROVE LiveIInv' /\ row'.bars = row.bars
  BY <1>2, ReceiveKeeps DEF LiveIInv, TypeOK, Receive, Commits, Fails
<1>3. CASE Trade \/ StrategyError \/ LoseBar
  BY <1>3, TradeKeeps, StrategyErrorKeeps, LoseBarKeeps DEF LoseBar, Fails
<1>4. CASE Die \/ StopAsk \/ StopRead \/ StopWrite \/ UNCHANGED vars
  BY <1>4, OthersKeep
<1> QED
  BY <1>1, <1>2, <1>3, <1>4 DEF Next, Runner, QuietRunner

\* A session records max_events bars at most besides those its strategy failed on, and its
\* rows stray from the portfolio of its thread by at most the fills of the transactions it
\* lost, for any limit, feed, faults and stops (run of live_service.py).
THEOREM LiveIsBounded == Spec => []LiveInv
<1>1. Init => LiveIInv
  BY LiveInitInv
<1>2. LiveIInv /\ [Next]_vars => LiveIInv'
  BY LiveStep
<1>3. LiveIInv => LiveInv
  <2> SUFFICES ASSUME LiveIInv  PROVE LimitRespected
    BY DEF LiveIInv, LiveInv
  <2>1. row.bars \in Nat /\ row.errors \in Nat /\ MaxEvents \in Nat
    BY Numbers DEF LiveIInv
  <2> QED
    BY <2>1 DEF LiveIInv, Counted, LimitRespected
<1> QED
  BY <1>1, <1>2, <1>3, PTL DEF Spec

\* The bars a session records have increasing timestamps, however often its feed starts
\* over (the replay guard of run in live_service.py).
THEOREM BarsAreInOrder == Spec => MarketRowsInOrder
<1>1. Init => LiveIInv
  BY LiveInitInv
<1>2. LiveIInv /\ [Next]_vars => LiveIInv'
  BY LiveStep
<1>3. LiveIInv /\ [Next]_vars => [row'.bars # row.bars => row'.last > row.last]_vars
  BY LiveStep
<1> QED
  BY <1>1, <1>2, <1>3, PTL DEF Spec, MarketRowsInOrder
=============================================================================
