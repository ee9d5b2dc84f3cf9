---------------------------- MODULE PaperAccount ----------------------------
(***************************************************************************)
(* What one paper order goes through: the strategy that sizes it, the risk *)
(* engine that accepts it, the execution model that prices and fills it,   *)
(* and the portfolio that books the fill (app/paper_trading/strategy.py,   *)
(* risk.py, execution.py, broker.py, portfolio.py), for the single symbol  *)
(* of a session.                                                           *)
(*                                                                         *)
(* Money and quantities are integers, counted in the smallest unit the     *)
(* code keeps; rates are percentages.  A portfolio holds its cash, the     *)
(* quantity of its position, the book cost of the position (quantity times *)
(* average_entry_price) and the realized profit.                           *)
(***************************************************************************)
EXTENDS Integers

CONSTANTS
  CommissionPct,  \* commission_bps
  SlippagePct,    \* slippage_bps
  HalfSpreadPct,  \* half of fixed_spread_bps
  Impacts,        \* what the square-root impact may add to a price
  TargetPct,      \* target_exposure_pct
  MaxPosition,    \* max_position_quantity
  MaxOrderValue,  \* max_order_value
  MaxExposurePct  \* max_gross_exposure_pct

ASSUME RatesAssumption ==
  /\ CommissionPct \in Nat
  /\ SlippagePct \in Nat
  /\ HalfSpreadPct \in Nat
  /\ Impacts \subseteq Nat
  /\ TargetPct \in 1..100
  /\ MaxPosition \in Nat
  /\ MaxOrderValue \in Nat
  /\ MaxExposurePct \in Nat

Sides == {"BUY", "SELL"}
Models == {"IDEAL", "BASIC_SLIPPAGE", "MICROSTRUCTURE"}

Percent(x, pct) == (x * pct) \div 100

Lesser(x, y) == IF x <= y THEN x ELSE y

Round(n, d) == (2 * n + d) \div (2 * d)

-----------------------------------------------------------------------------
(* Strategy and risk, at the open of a bar. *)

Equity(p, price) == p.cash + p.quantity * price

Direction(p, trend) ==
  IF trend = "up" /\ p.quantity = 0 THEN "BUY"
  ELSE IF trend = "down" /\ p.quantity > 0 THEN "EXIT"
  ELSE "HOLD"

\* A BUY aims at a share of the equity, an EXIT at the whole position; orders
\* that are still pending count in neither.
IntendedQuantity(p, direction, open) ==
  IF direction = "BUY" THEN Round(Equity(p, open) * TargetPct, 100 * open)
  ELSE p.quantity

\* Faulty: forgets the commission.
EstimatedFeeless(quantity, open) == quantity * (open + Percent(open, SlippagePct))

EstimatedCash(quantity, open) ==
  LET notional == quantity * (open + Percent(open, SlippagePct))
  IN  notional + Percent(notional, CommissionPct)

Projected(p, side, quantity) ==
  IF side = "BUY" THEN p.quantity + quantity ELSE p.quantity - quantity

Accepted(p, side, quantity, open, duplicate) ==
  /\ quantity > 0
  /\ quantity * open <= MaxOrderValue
  /\ ~duplicate
  /\ Projected(p, side, quantity) \in 0..MaxPosition
  /\ side = "BUY" => EstimatedCash(quantity, open) <= p.cash
  /\ 100 * Projected(p, side, quantity) * open <= Equity(p, open) * MaxExposurePct

-----------------------------------------------------------------------------
(* Execution of what is left of an order against a bar. *)

\* IDEAL trades at the mid, the other models at the quote of their side.
Reference(model, side, open) ==
  CASE model = "IDEAL" -> open
    [] model # "IDEAL" /\ side = "BUY" -> open + Percent(open, HalfSpreadPct)
    [] OTHER -> open - Percent(open, HalfSpreadPct)

FillPrice(model, side, open, impact) ==
  LET reference == Reference(model, side, open)
      cost == Percent(reference, SlippagePct) + impact
  IN  IF side = "BUY" THEN reference + cost ELSE reference - cost

ImpactsOf(model) == IF model = "MICROSTRUCTURE" THEN Impacts ELSE {0}

FillQuantity(model, unfilled, available) ==
  IF model = "MICROSTRUCTURE" THEN Lesser(unfilled, available) ELSE unfilled

Fill(side, quantity, price) ==
  [side |-> side, quantity |-> quantity, price |-> price,
   gross |-> price * quantity, fees |-> Percent(price * quantity, CommissionPct)]

-----------------------------------------------------------------------------
(* Booking a fill. *)

Bought(p, f) ==
  [cash |-> p.cash - (f.gross + f.fees), quantity |-> p.quantity + f.quantity,
   cost |-> p.cost + f.gross, realized |-> p.realized]

\* Faulty: the fees of the sale are missing from the profit.
SoldFeeless(p, f) ==
  [p EXCEPT !.cash = @ + (f.gross - f.fees), !.quantity = @ - f.quantity, !.cost = 0,
            !.realized = @ + (f.gross - p.cost)]

\* Sells at most the position, but credits the whole fill.
Sold(p, f) ==
  LET sold == Lesser(f.quantity, p.quantity)
      released == IF sold = p.quantity THEN p.cost ELSE (p.cost * sold) \div p.quantity
  IN  [cash |-> p.cash + (f.gross - f.fees),
       quantity |-> p.quantity - sold,
       cost |-> p.cost - released,
       realized |-> p.realized + (f.price * sold - released - f.fees)]

ApplyFill(p, f) == IF f.side = "BUY" THEN Bought(p, f) ELSE Sold(p, f)
=============================================================================
