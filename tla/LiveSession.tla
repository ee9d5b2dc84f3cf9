---------------------------- MODULE LiveSession -----------------------------
(***************************************************************************)
(* One live paper session (app/paper_trading/live_service.py): the thread  *)
(* that follows the feed and trades, the requests that stop it, and the    *)
(* rows both write, each in transactions of its own.                       *)
(*                                                                         *)
(* Any transaction of the thread may fail: its rows are rolled back, but   *)
(* the counters and the portfolio live in memory and are not.  A feed      *)
(* delivers bars in order until it disconnects and then starts again       *)
(* wherever it likes.  Orders fill at once and completely, so that the     *)
(* portfolio is reduced to the number of positions it has open, and the    *)
(* rows of paper_fills to the buys less the sales they record.             *)
(***************************************************************************)
EXTENDS Integers

CONSTANTS
  MaxEvents,     \* max_events
  MaxReconnects, \* max_reconnect_attempts
  Times,         \* the timestamps of the bars
  MaxFaults,     \* bound: failing transactions, strategy errors, deaths of the process
  MaxDrops,      \* bound: disconnections of the feed
  MaxStops       \* bound: stop requests

ASSUME LiveAssumption ==
  /\ MaxEvents \in Nat \ {0}
  /\ MaxReconnects \in Nat
  /\ Times \subseteq Nat \ {0}
  /\ {MaxFaults, MaxDrops, MaxStops} \subseteq Nat

VARIABLES
  row,    \* paper_sessions, and what its MARKET events and its fills add up to
  memory, \* locals of LiveSessionRunner.run
  pc,     \* where the thread stands
  offset, \* timestamp the current stream has reached
  loaded, \* status the transaction of the current bar has read
  stop,   \* stop_event
  caller, \* the stop request
  asked,  \* status the stop request has read
  faults, drops, stops

vars == <<row, memory, pc, offset, loaded, stop, caller, asked, faults, drops, stops>>

thread == <<memory, pc, offset, loaded>>
request == <<caller, asked, stops>>

Ended == {"STOPPED", "FAILED"}
Status == Ended \cup {"DISCONNECTED", "CONNECTING", "CONNECTED", "STREAMING", "RECONNECTING"}

\* the row create_session commits before it registers the runner and starts its thread
Init ==
  /\ row = [status |-> "DISCONNECTED", ended |-> FALSE, bars |-> 0, errors |-> 0, last |-> 0,
            net |-> 0]
  /\ memory = [events |-> 0, attempts |-> 0, last |-> 0, position |-> 0]
  /\ pc = "created"
  /\ offset = 0
  /\ loaded = "DISCONNECTED"
  /\ stop = FALSE
  /\ caller = "none"
  /\ asked = "DISCONNECTED"
  /\ faults = 0 /\ drops = 0 /\ stops = 0

-----------------------------------------------------------------------------
(* A short transaction of the thread: it commits the status, or fails.     *)

Commits(status, next) ==
  /\ row' = [row EXCEPT !.status = status]
  /\ pc' = next
  /\ UNCHANGED faults

Fails(next) ==
  /\ faults < MaxFaults
  /\ faults' = faults + 1
  /\ pc' = next
  /\ UNCHANGED row

\* The first transaction warms the strategy up; too few bars fail it.
Start ==
  /\ pc = "created"
  /\ \/ Commits("CONNECTING", "loop")
     \/ Fails("failing")
     \/ pc' = "failing" /\ UNCHANGED <<row, faults>>
  /\ UNCHANGED <<memory, offset, loaded, stop, drops, request>>

Connect ==
  /\ pc = "loop"
  /\ ~stop
  /\ Commits("CONNECTED", "stream") \/ Fails("dropped")
  /\ offset' = 0
  /\ UNCHANGED <<memory, loaded, stop, drops, request>>

LeaveLoop ==
  /\ pc = "loop"
  /\ stop
  /\ pc' = "ending"
  /\ UNCHANGED <<row, memory, offset, loaded, stop, faults, drops, request>>

-----------------------------------------------------------------------------
(* The stream. *)

Disconnect ==
  /\ pc = "stream"
  /\ drops < MaxDrops
  /\ drops' = drops + 1
  /\ pc' = "dropped"
  /\ UNCHANGED <<row, memory, offset, loaded, stop, faults, request>>

\* the provider returns: it has no more bars, or it noticed the stop
StreamEnds ==
  /\ pc = "stream"
  /\ pc' = "ending"
  /\ UNCHANGED <<row, memory, offset, loaded, stop, faults, drops, request>>

\* A bar that is not newer than the last one is recorded as malformed; otherwise the
\* transaction of the bar begins, with the counters already advanced.
Receive(t) ==
  /\ pc = "stream" /\ t > offset
  /\ offset' = t
  /\ \/ /\ stop
        /\ pc' = "ending"
        /\ UNCHANGED <<row, memory, loaded, faults>>
     \/ /\ ~stop
        /\ t <= memory.last
        /\ memory' = [memory EXCEPT !.attempts = 0]
        /\ Commits(row.status, "stream") \/ Fails("dropped")
        /\ UNCHANGED loaded
     \/ /\ ~stop
        /\ t > memory.last
        /\ memory' = [events |-> memory.events + 1, attempts |-> 0, last |-> t,
                      position |-> memory.position]
        /\ loaded' = row.status
        /\ pc' = "bar"
        /\ UNCHANGED <<row, faults>>
  /\ UNCHANGED <<stop, drops, request>>

\* Orders the strategy may give at this bar: it opens a position or leaves it.
Trades == IF memory.position = 0 THEN {0, 1} ELSE {0, -1}

\* What a committed bar leaves; the status is written when it is not the one loaded.
BarRow(trade) ==
  [status |-> IF loaded # "STREAMING" THEN "STREAMING" ELSE row.status, ended |-> row.ended,
   bars |-> row.bars + 1, errors |-> row.errors, last |-> memory.last, net |-> row.net + trade]

\* Faulty: a count that has passed the limit is not noticed.
AtLimitExactly == memory.events = MaxEvents

AtLimit == memory.events >= MaxEvents

Trade ==
  /\ pc = "bar"
  /\ \E trade \in Trades :
       /\ row' = BarRow(trade)
       /\ memory' = [memory EXCEPT !.position = @ + trade]
  /\ stop' = (stop \/ AtLimit)
  /\ pc' = IF AtLimit THEN "ending" ELSE "stream"
  /\ UNCHANGED <<offset, loaded, faults, drops, request>>

\* the strategy raises: the bar is kept, with an error, and the limit is not looked at
StrategyError ==
  /\ pc = "bar"
  /\ faults < MaxFaults
  /\ faults' = faults + 1
  /\ row' = [BarRow(0) EXCEPT !.errors = @ + 1]
  /\ pc' = "stream"
  /\ UNCHANGED <<memory, offset, loaded, stop, drops, request>>

\* The transaction of the bar fails, before or after the fill was applied to the portfolio.
LoseBar ==
  /\ pc = "bar"
  /\ Fails("dropped")
  /\ \E trade \in Trades : memory' = [memory EXCEPT !.position = @ + trade]
  /\ UNCHANGED <<offset, loaded, stop, drops, request>>

\* Faulty: what was received before the disconnection is forgotten.
ReconnectForgets ==
  /\ pc = "dropped"
  /\ memory' = [memory EXCEPT !.attempts = @ + 1, !.last = 0]
  /\ Commits("RECONNECTING", IF memory'.attempts > MaxReconnects THEN "failing" ELSE "loop")
  /\ UNCHANGED <<offset, loaded, stop, drops, request>>

\* whatever was raised counts as a disconnection of the feed
Reconnect ==
  /\ pc = "dropped"
  /\ memory' = [memory EXCEPT !.attempts = @ + 1]
  /\ \/ Commits("RECONNECTING", IF memory'.attempts > MaxReconnects THEN "failing" ELSE "loop")
     \/ Fails("failing")
  /\ UNCHANGED <<offset, loaded, stop, drops, request>>

-----------------------------------------------------------------------------
(* The end of the thread. *)

\* Faulty: a session that was stopped keeps the status it had.
FinishSilent ==
  /\ pc = "ending"
  /\ row' = [row EXCEPT !.ended = TRUE]
  /\ pc' = "done"
  /\ UNCHANGED <<memory, offset, loaded, stop, faults, drops, request>>

Finish ==
  /\ pc = "ending"
  /\ \/ /\ row' = [row EXCEPT !.status = "STOPPED", !.ended = TRUE]
        /\ pc' = "done"
        /\ UNCHANGED faults
     \/ Fails("failing")
  /\ UNCHANGED <<memory, offset, loaded, stop, drops, request>>

\* the exception leaves the thread when even this cannot be recorded
RecordFailure ==
  /\ pc = "failing"
  /\ Commits("FAILED", "done") \/ Fails("lost")
  /\ UNCHANGED <<memory, offset, loaded, stop, drops, request>>

\* The process dies with its daemon threads, its requests and its registry of runners.
Die ==
  /\ pc \notin {"done", "lost"}
  /\ faults < MaxFaults
  /\ faults' = faults + 1
  /\ pc' = "lost"
  /\ caller' = IF caller = "none" THEN "none" ELSE "answered"
  /\ UNCHANGED <<row, memory, offset, loaded, stop, asked, drops, stops>>

-----------------------------------------------------------------------------
(* stop_session waits five seconds at most for the thread, so the request  *)
(* may go on at any point of it.                                           *)

StopAsk ==
  /\ caller \in {"none", "answered"}
  /\ stops < MaxStops
  /\ stops' = stops + 1
  /\ stop' = TRUE
  /\ caller' = "joining"
  /\ UNCHANGED <<row, asked, faults, drops, thread>>

StopRead ==
  /\ caller = "joining"
  /\ asked' = row.status
  /\ caller' = "writing"
  /\ UNCHANGED <<row, stop, faults, drops, stops, thread>>

StopWrite ==
  /\ caller = "writing"
  /\ row' = IF asked \in Ended THEN row ELSE [row EXCEPT !.status = "STOPPED", !.ended = TRUE]
  /\ caller' = "answered"
  /\ UNCHANGED <<stop, asked, faults, drops, stops, thread>>

Runner ==
  \/ Start \/ Connect \/ LeaveLoop
  \/ Disconnect \/ StreamEnds \/ (\E t \in Times : Receive(t))
  \/ Trade \/ StrategyError \/ LoseBar \/ Reconnect
  \/ Finish \/ RecordFailure

Next == Runner \/ Die \/ StopAsk \/ StopRead \/ StopWrite

(***************************************************************************)
(* The thread runs, and a request that was accepted goes on.  A provider   *)
(* may be silent for ever, except that it returns once it is asked to stop *)
(* (both providers look at stop_requested).                                *)
(***************************************************************************)
Spec == Init /\ [][Next]_vars

LiveSpec ==
  /\ Spec
  /\ WF_vars(Runner /\ (pc # "stream" \/ stop))
  /\ WF_vars(StopRead \/ StopWrite)
=============================================================================
