-------------------------- MODULE ReplayProperties --------------------------
(***************************************************************************)
(* What a replay promises about its orders, its liquidity and its books.   *)
(***************************************************************************)
EXTENDS PaperReplay

Order == [side : Sides, quantity : Int, filled : Nat, status : Executable \cup {"FILLED", "REJECTED"},
          created : Nat]

\* Types of the variables.
TypeOK ==
  /\ model \in Models
  /\ latency \in Latencies
  /\ phase \in {"next", "due", "completed"}
  /\ sequence \in 0..MaxBars
  /\ bar \in [open : Prices \cup {0}, liquidity : Liquidity \cup {0}]
  /\ remaining \in Nat
  /\ pending \in Seq([order : Nat, due : Nat])
  /\ orders \in Seq(Order)
  /\ portfolio \in [cash : Int, quantity : Nat, cost : Int, realized : Int]
  /\ metrics \in [requested : Int, filled : Int, fills : Nat, partial : Nat, rejected : Nat,
                  unfilled : Int]
  /\ booked \in [bar : Nat, buyFees : Int]

\* Orders are filled in full, and at most one of them is in flight at a time.
Plain == model # "MICROSTRUCTURE" /\ latency <= 1

\* An order can be lost only where it meets a bar without liquidity at once.
NothingDropped == model # "MICROSTRUCTURE" \/ latency > 0

\* the orders the execution model agrees to fill (it raises on any other, execution.py:174)
Open(book) == {o \in DOMAIN book : book[o].status \in Executable}

Queued(queue) == {queue[i].order : i \in DOMAIN queue}

\* The queue holds each order at most once and only orders that may be filled, and where
\* nothing is dropped it holds all of them.
QueueIsOpenOrders ==
  /\ Queued(pending) \subseteq Open(orders)
  /\ \A i, j \in DOMAIN pending : pending[i].order = pending[j].order => i = j
  /\ NothingDropped => Open(orders) \subseteq Queued(pending)

\* The orders that are due in a bar share its liquidity: together they never
\* take more than its volume times max_participation_rate.
LiquidityShared ==
  model = "MICROSTRUCTURE" /\ latency > 0 => booked.bar <= bar.liquidity

\* With at most one order in flight the books balance: cash and the book cost
\* of the position are the initial cash and the realized profit, less the fees
\* of buys, which realized_pnl leaves out.
BooksBalance ==
  Plain => portfolio.cash + portfolio.cost = InitialCash + portfolio.realized - booked.buyFees

\* What the risk engine checked at the open still holds after a fill that is
\* immediate and ideal: the cash covers it and the position is within its limit.
LimitsHoldAtFill ==
  model = "IDEAL" /\ latency = 0 => portfolio.cash >= 0 /\ portfolio.quantity <= MaxPosition

\* Without a liquidity limit every accepted order is filled exactly latency_bars
\* after its signal, neither earlier nor later.
FilledOnTime ==
  phase = "next" /\ model # "MICROSTRUCTURE" =>
    \A o \in DOMAIN orders :
      orders[o].status # "REJECTED" =>
        (orders[o].status = "FILLED" <=> orders[o].created + latency <= sequence)

\* The final metrics account for every requested unit: it was filled or is
\* reported unfilled.
MetricsReconcile ==
  phase = "completed" /\ NothingDropped =>
    metrics.requested = metrics.filled + metrics.unfilled

\* Whatever the model, no order trades before its latency has passed, and a
\* rejected or filled order never trades again.
NoLookahead ==
  [][\A o \in DOMAIN orders :
       orders'[o].filled # orders[o].filled =>
         sequence >= orders[o].created + latency /\ orders[o].status \in Executable]_vars

-----------------------------------------------------------------------------
(* The inductive strengthening of LiquidityShared and BooksBalance: what   *)
(* is in flight, and the types they rest on.                               *)

Account == [cash : Int, quantity : Nat, cost : Int, realized : Int]

Shape ==
  /\ model \in Models /\ latency \in Latencies
  /\ phase \in {"next", "due", "completed"}
  /\ sequence \in Nat
  /\ bar \in [open : Nat, liquidity : Nat]
  /\ phase = "due" => bar.open > 0
  /\ remaining \in Nat
  /\ pending \in Seq([order : Nat, due : Nat])
  /\ \A i \in DOMAIN pending : pending[i].order \in DOMAIN orders
  /\ orders \in Seq(Order)
  /\ portfolio \in Account
  /\ booked \in [bar : Nat, buyFees : Int]

\* With plain fills at most one order is in flight, it is due in the next bar,
\* and a sale is for the whole position.
InFlight ==
  Plain =>
    /\ latency = 0 => pending = <<>>
    /\ Len(pending) <= 1
    /\ \A i \in DOMAIN pending :
         LET order == orders[pending[i].order]
         IN  /\ pending[i].due <= sequence + (IF phase = "due" THEN 0 ELSE 1)
             /\ order.side = "SELL" => order.quantity - order.filled = portfolio.quantity

\* What was taken from a bar and what remains make up its liquidity.
LiquidityAccounted ==
  model = "MICROSTRUCTURE" /\ latency > 0 => booked.bar + remaining = bar.liquidity

\* The conjunction the proofs carry from step to step.
ReplayInv ==
  Shape /\ InFlight /\ LiquidityAccounted /\ BooksBalance

-----------------------------------------------------------------------------
(* The inductive strengthening of QueueIsOpenOrders: what the rows of the   *)
(* orders say of their fills, and the bar each entry of the queue waits for.*)

\* An open order has something left to fill, and what is filled was filled after its latency.
OrdersAged ==
  \A o \in DOMAIN orders :
    /\ orders[o].status \in Executable => orders[o].filled < orders[o].quantity
    /\ orders[o].status = "FILLED" => orders[o].filled > 0
    /\ orders[o].filled > 0 => orders[o].created + latency <= sequence

\* when an entry of the queue is due: never before its latency has passed, and exactly then
\* unless liquidity can postpone it
OnTime(entry, book) ==
  /\ book[entry.order].created + latency <= entry.due
  /\ model # "MICROSTRUCTURE" => entry.due = book[entry.order].created + latency

\* Entries are on time, and between bars those that were due have been executed.
QueueScheduled ==
  \A i \in DOMAIN pending :
    OnTime(pending[i], orders) /\ (phase # "due" => pending[i].due > sequence)

QueueInv == QueueIsOpenOrders /\ OrdersAged /\ QueueScheduled

-----------------------------------------------------------------------------
(* What the documentation says of every replay. *)

\* docs/paper_trading.md:74: the stored orders and fills are "the reconstructable
\* execution record": the position is what they bought less what they sold.
PositionReconstructable ==
  portfolio.quantity =
    FoldLeft(LAMBDA sum, o : IF o.side = "BUY" THEN sum + o.filled ELSE sum - o.filled,
             0, orders)
=============================================================================
