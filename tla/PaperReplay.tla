---------------------------- MODULE PaperReplay -----------------------------
(***************************************************************************)
(* One paper session replayed over stored bars (PaperTradingService.       *)
(* create_session, app/paper_trading/service.py): at every bar the orders  *)
(* that are due are executed, the strategy trades at the open on the bars  *)
(* before, and its order is filled at once or queued behind the latency.   *)
(*                                                                         *)
(* The moving averages are reduced to their comparison, free once the      *)
(* strategy is warm; a bar to its open and to the quantity that its volume *)
(* times max_participation_rate lets trade.                                *)
(***************************************************************************)
EXTENDS PaperAccount, SequencesExt

CONSTANTS
  InitialCash,
  Latencies,   \* the values of latency_bars the requests use
  Prices,      \* the opens of the bars
  Liquidity,   \* the tradable quantities of the bars
  SlowWindow,  \* slow_window: bars before the first signal
  MaxBars      \* bound: bars of a replay

ASSUME ReplayAssumption ==
  /\ InitialCash \in Nat \ {0}
  /\ Latencies \subseteq Nat
  /\ Prices \subseteq Nat \ {0}
  /\ Liquidity \subseteq Nat
  /\ SlowWindow \in Nat
  /\ MaxBars \in Nat \ {0}

VARIABLES
  model,      \* execution_model of the request
  latency,    \* latency_bars of the request
  phase,      \* between bars, executing due orders, or done
  sequence,   \* market_event.sequence
  bar,        \* the current bar
  remaining,  \* remaining_liquidity of the symbol in this bar
  pending,    \* pending_orders, in list order
  orders,     \* the rows of paper_orders, by creation
  portfolio,
  metrics,
  booked      \* what the rows of paper_fills add up to: in this bar, and fees of buys

vars == <<model, latency, phase, sequence, bar, remaining, pending, orders, portfolio, metrics,
          booked>>

Executable == {"SUBMITTED", "PARTIALLY_FILLED"}

Init ==
  /\ model \in Models
  /\ latency \in Latencies
  /\ phase = "next"
  /\ sequence = 0
  /\ bar = [open |-> 0, liquidity |-> 0]
  /\ remaining = 0
  /\ pending = <<>>
  /\ orders = <<>>
  /\ portfolio = [cash |-> InitialCash, quantity |-> 0, cost |-> 0, realized |-> 0]
  /\ metrics = [requested |-> 0, filled |-> 0, fills |-> 0, partial |-> 0, rejected |-> 0,
                unfilled |-> 0]
  /\ booked = [bar |-> 0, buyFees |-> 0]

-----------------------------------------------------------------------------
(* A market event. *)

NextBar ==
  /\ phase = "next"
  /\ sequence < MaxBars
  /\ sequence' = sequence + 1
  /\ \E open \in Prices, liquidity \in Liquidity :
       /\ bar' = [open |-> open, liquidity |-> liquidity]
       /\ remaining' = liquidity
  /\ booked' = [booked EXCEPT !.bar = 0]
  /\ phase' = "due"
  /\ UNCHANGED <<model, latency, pending, orders, portfolio, metrics>>

\* Faulty: an order waits one bar too many.
DueLater == {i \in DOMAIN pending : pending[i].due < sequence}

Due == {i \in DOMAIN pending : pending[i].due <= sequence}

IsFirstDue(i) == i \in Due /\ \A j \in Due : i <= j

Entry(o, due) == [order |-> o, due |-> due]

-----------------------------------------------------------------------------
(* The broker executes order o of book.  What is left of an order that was *)
(* filled in part is queued for the next bar.                              *)

Traded(order, quantity) ==
  LET total == order.filled + quantity
  IN  [side |-> order.side, quantity |-> order.quantity, filled |-> total,
       status |-> IF total >= order.quantity THEN "FILLED" ELSE "PARTIALLY_FILLED",
       created |-> order.created]

Execute(book, counts, o, queue, available, impact) ==
  LET order == book[o]
      unfilled == order.quantity - order.filled
      quantity == FillQuantity(model, unfilled, available)
      fill == Fill(order.side, quantity, FillPrice(model, order.side, bar.open, impact))
      partial == quantity < unfilled
  IN  IF quantity <= 0
      THEN /\ orders' = book
           /\ pending' = queue
           /\ metrics' = counts
           /\ UNCHANGED <<portfolio, booked>>
      ELSE /\ orders' = [book EXCEPT ![o] = Traded(order, quantity)]
           /\ pending' = IF partial THEN Append(queue, Entry(o, sequence + 1)) ELSE queue
           /\ portfolio' = ApplyFill(portfolio, fill)
           /\ metrics' = [counts EXCEPT !.filled = @ + quantity,
                                        !.fills = @ + 1,
                                        !.partial = @ + (IF partial THEN 1 ELSE 0)]
           /\ booked' = [bar |-> booked.bar + quantity,
                         buyFees |-> booked.buyFees
                                     + (IF order.side = "BUY" THEN fill.fees ELSE 0)]

-----------------------------------------------------------------------------
(* The orders that are due, in list order; they share the liquidity.       *)

\* Faulty: every order of the queue gets the liquidity of the whole bar.
ExecuteDueUnshared(i) ==
  /\ phase = "due"
  /\ IsFirstDue(i)
  /\ model = "MICROSTRUCTURE" => remaining > 0
  /\ \E impact \in ImpactsOf(model) :
       Execute(orders, metrics, pending[i].order, RemoveAt(pending, i),
               remaining, impact)
  /\ UNCHANGED <<model, latency, phase, sequence, bar, remaining>>

ExecuteDue(i) ==
  /\ phase = "due"
  /\ IsFirstDue(i)
  /\ model = "MICROSTRUCTURE" => remaining > 0
  /\ \E impact \in ImpactsOf(model) :
       Execute(orders, metrics, pending[i].order, RemoveAt(pending, i),
               remaining, impact)
  /\ remaining' = IF model = "MICROSTRUCTURE"
                  THEN remaining - (booked'.bar - booked.bar) ELSE remaining
  /\ UNCHANGED <<model, latency, phase, sequence, bar>>

\* Faulty: an order that finds no liquidity is forgotten.
PostponeForgets(i) ==
  /\ phase = "due"
  /\ IsFirstDue(i)
  /\ model = "MICROSTRUCTURE"
  /\ remaining <= 0
  /\ pending' = RemoveAt(pending, i)
  /\ UNCHANGED <<model, latency, phase, sequence, bar, remaining, orders, portfolio, metrics,
                 booked>>

Postpone(i) ==
  /\ phase = "due"
  /\ IsFirstDue(i)
  /\ model = "MICROSTRUCTURE"
  /\ remaining <= 0
  /\ pending' = Append(RemoveAt(pending, i),
                       Entry(pending[i].order, sequence + 1))
  /\ UNCHANGED <<model, latency, phase, sequence, bar, remaining, orders, portfolio, metrics,
                 booked>>

-----------------------------------------------------------------------------
(* The signal of the bar, the risk check of its order, and what becomes of *)
(* it; then the bar is observed.                                           *)

Trends == IF sequence - 1 < SlowWindow THEN {"warming up"} ELSE {"up", "down"}

SideOf(direction) == IF direction = "BUY" THEN "BUY" ELSE "SELL"

Row(side, quantity, status) ==
  [side |-> side, quantity |-> quantity, filled |-> 0, status |-> status, created |-> sequence]

Duplicate(row) ==
  \E i \in DOMAIN orders : orders[i].status # "REJECTED" /\ orders[i].created = row.created
                           /\ orders[i].side = row.side /\ orders[i].quantity = row.quantity

Passes(row) ==
  Accepted(portfolio, row.side, row.quantity, bar.open, Duplicate(row))

SignalRow(trend) ==
  LET direction == Direction(portfolio, trend)
  IN  Row(SideOf(direction), IntendedQuantity(portfolio, direction, bar.open), "SUBMITTED")

Submitted(row) == [metrics EXCEPT !.requested = @ + row.quantity]

\* The steps that end a bar.
EndBar == phase = "due" /\ Due = {} /\ phase' = "next"
          /\ UNCHANGED <<model, latency, sequence, bar, remaining>>

Hold(trend) ==
  /\ EndBar
  /\ Direction(portfolio, trend) = "HOLD"
  /\ UNCHANGED <<pending, orders, portfolio, metrics, booked>>

Reject(trend) ==
  LET row == SignalRow(trend) IN
  /\ EndBar
  /\ Direction(portfolio, trend) # "HOLD"
  /\ ~Passes(row)
  /\ orders' = Append(orders, [row EXCEPT !.status = "REJECTED"])
  /\ metrics' = [metrics EXCEPT !.rejected = @ + 1]
  /\ UNCHANGED <<pending, portfolio, booked>>

\* Faulty: the order of this bar counts as the first bar of its latency.
DeferShort(trend) ==
  LET row == SignalRow(trend) IN
  /\ EndBar
  /\ Direction(portfolio, trend) # "HOLD"
  /\ Passes(row)
  /\ latency > 0
  /\ orders' = Append(orders, row)
  /\ metrics' = Submitted(row)
  /\ pending' = Append(pending, Entry(Len(orders'), sequence + latency - 1))
  /\ UNCHANGED <<portfolio, booked>>

Defer(trend) ==
  LET row == SignalRow(trend) IN
  /\ EndBar
  /\ Direction(portfolio, trend) # "HOLD"
  /\ Passes(row)
  /\ latency > 0
  /\ orders' = Append(orders, row)
  /\ metrics' = Submitted(row)
  /\ pending' = Append(pending, Entry(Len(orders'), sequence + latency))
  /\ UNCHANGED <<portfolio, booked>>

\* The original broker executes, with the liquidity of the whole bar.
FillAtOnce(trend) ==
  LET row == SignalRow(trend) IN
  /\ EndBar
  /\ Direction(portfolio, trend) # "HOLD"
  /\ Passes(row)
  /\ latency = 0
  /\ \E impact \in ImpactsOf(model) :
       Execute(Append(orders, row), Submitted(row), Len(orders) + 1, pending,
               bar.liquidity, impact)

-----------------------------------------------------------------------------
(* The stream ends. *)

\* Faulty: counts what was filled of an order as unfilled.
UnfilledGross(queue) ==
  FoldLeft(LAMBDA sum, e : sum + orders[e.order].quantity, 0, queue)

UnfilledQuantity(queue) ==
  FoldLeft(LAMBDA sum, e : sum + orders[e.order].quantity - orders[e.order].filled, 0, queue)

Complete ==
  /\ phase = "next"
  /\ sequence > 0
  /\ phase' = "completed"
  /\ metrics' = [metrics EXCEPT !.unfilled = UnfilledQuantity(pending)]
  /\ UNCHANGED <<model, latency, sequence, bar, remaining, pending, orders, portfolio, booked>>

\* The session row is returned; nothing happens to it any more.
Completed == phase = "completed" /\ UNCHANGED vars

Next ==
  \/ NextBar
  \/ \E i \in DOMAIN pending : ExecuteDue(i) \/ Postpone(i)
  \/ \E trend \in Trends : Hold(trend) \/ Reject(trend) \/ Defer(trend) \/ FillAtOnce(trend)
  \/ Complete
  \/ Completed

Spec == Init /\ [][Next]_vars
=============================================================================
