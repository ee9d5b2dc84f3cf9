--------------------------- MODULE LiveProperties ---------------------------
(***************************************************************************)
(* What a live session promises about its rows, whatever fails under it.   *)
(***************************************************************************)
EXTENDS LiveSession

TypeOK ==
  /\ row \in [status : Status, ended : BOOLEAN, bars : Nat, errors : Nat, last : Times \cup {0},
              net : Int]
  /\ memory \in [events : Nat, attempts : 0..(MaxReconnects + 1), last : Times \cup {0},
                 position : {0, 1}]
  /\ pc \in {"created", "loop", "stream", "bar", "dropped", "ending", "failing", "done", "lost"}
  /\ offset \in Times \cup {0}
  /\ loaded \in Status /\ asked \in Status
  /\ stop \in BOOLEAN
  /\ caller \in {"none", "joining", "writing", "answered"}
  /\ faults \in 0..MaxFaults /\ drops \in 0..MaxDrops /\ stops \in 0..MaxStops

\* Reconnecting and reading a feed again never records or trades a bar twice or out of order:
\* the MARKET rows of a session have increasing timestamps.
MarketRowsInOrder == [][row'.bars # row.bars => row'.last > row.last]_vars

\* A session records max_events bars at most besides those the strategy failed on, although
\* its counter also counts the bars whose transaction was lost.
LimitRespected == row.bars - row.errors <= MaxEvents

\* A transaction that is lost costs the record of its own fill and no more: the position the
\* thread trades on and the one its stored fills add up to differ by one at most for each.
LostFillsBounded == row.net - memory.position \in (-faults)..faults

\* Whatever transactions are lost, the session keeps its limit, and its rows stray from the
\* portfolio of the thread by the fills of those transactions at most.
LiveInv == TypeOK /\ LimitRespected /\ LostFillsBounded

\* A session that was asked to stop is STOPPED or FAILED for good, whatever the thread still
\* writes after the request gave up waiting for it; only a thread that died without being
\* able to record its end may leave another status behind.
StoppedForGood ==
  (stop /\ caller = "answered") ~> [](row.status \in Ended \/ pc = "lost")
=============================================================================
