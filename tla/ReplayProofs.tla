---------------------------- MODULE ReplayProofs ----------------------------
(***************************************************************************)
(* Proofs about the replay, for all rates, limits, prices and volumes.     *)
(***************************************************************************)
EXTENDS ReplayProperties, SequenceTheorems, FiniteSetTheorems, WellFoundedInduction, TLAPS

FillType == [side : Sides, quantity : Nat, price : Int, gross : Int, fees : Int]

-----------------------------------------------------------------------------
(* The arithmetic of one fill. *)

\* A percentage of an integer is an integer, and at most the whole of it.

LEMMA PercentType ==
  ASSUME NEW x \in Int, NEW pct \in Nat
  PROVE  /\ Percent(x, pct) \in Int
         /\ x >= 0 => Percent(x, pct) >= 0
         /\ x >= 0 /\ pct <= 100 => Percent(x, pct) <= x
<1>1. x * pct \in Int  OBVIOUS
<1>2. x >= 0 => x * pct >= 0  OBVIOUS
<1>3. x >= 0 /\ pct <= 100 => x * pct <= x * 100  OBVIOUS
<1> DEFINE y == x * pct
<1>4. y \in Int /\ (x >= 0 => y >= 0) /\ (x >= 0 /\ pct <= 100 => y <= x * 100)
  BY <1>1, <1>2, <1>3
<1>5. Percent(x, pct) = y \div 100  BY DEF Percent
<1> HIDE DEF y
<1> QED  BY <1>4, <1>5

\* Net worth at book value, without the realized profit.
Worth(p) == p.cash + p.cost - p.realized

LEMMA WorthType == ASSUME NEW p \in Account PROVE Worth(p) \in Int
<1>1. p.cash \in Int /\ p.cost \in Int /\ p.realized \in Int  BY DEF Account
<1> QED  BY <1>1 DEF Worth

\* A buy moves cash into book cost, except for its fees.

LEMMA BoughtBalance ==
  ASSUME NEW p \in Account, NEW f \in FillType
  PROVE  /\ Bought(p, f) \in Account
         /\ Worth(Bought(p, f)) = Worth(p) - f.fees
<1>1. /\ p.cash \in Int /\ p.quantity \in Nat /\ p.cost \in Int /\ p.realized \in Int
      /\ f.quantity \in Nat /\ f.gross \in Int /\ f.fees \in Int
  BY DEF Account, FillType
<1>2. Bought(p, f) \in Account  BY <1>1 DEF Bought, Account
<1>3. /\ Bought(p, f).cash = p.cash - (f.gross + f.fees)
      /\ Bought(p, f).cost = p.cost + f.gross
      /\ Bought(p, f).realized = p.realized
  BY DEF Bought
<1> DEFINE c == p.cash  k == p.cost  r == p.realized  g == f.gross  d == f.fees
<1>4. Worth(Bought(p, f)) = (c - (g + d)) + (k + g) - r  BY <1>3 DEF Worth
<1>5. Worth(p) - d = (c + k - r) - d  BY DEF Worth
<1> HIDE DEF c, k, r, g, d
<1>6. (c - (g + d)) + (k + g) - r = (c + k - r) - d
  <2>1. c \in Int /\ k \in Int /\ r \in Int /\ g \in Int /\ d \in Int
    BY <1>1 DEF c, k, r, g, d
  <2> QED  BY <2>1
<1> QED  BY <1>2, <1>4, <1>5, <1>6 DEF d

\* A sale of what is held turns book cost and profit into cash.

LEMMA SoldBalance ==
  ASSUME NEW p \in Account, NEW f \in FillType
  PROVE  /\ Sold(p, f) \in Account
         /\ f.quantity <= p.quantity /\ f.gross = f.price * f.quantity =>
              Worth(Sold(p, f)) = Worth(p)
<1> DEFINE sold == Lesser(f.quantity, p.quantity)
           released == IF sold = p.quantity THEN p.cost ELSE (p.cost * sold) \div p.quantity
           profit == f.price * sold
<1>1. p.cash \in Int /\ p.quantity \in Nat /\ p.cost \in Int /\ p.realized \in Int
  BY DEF Account
<1>2. f.quantity \in Nat /\ f.price \in Int /\ f.gross \in Int /\ f.fees \in Int
  BY DEF FillType
<1>3. sold \in Nat /\ sold <= p.quantity /\ (f.quantity <= p.quantity => sold = f.quantity)
  BY <1>1, <1>2 DEF Lesser
<1>4. released \in Int
  <2>1. CASE sold = p.quantity  BY <2>1, <1>1
  <2>2. CASE sold # p.quantity
    <3>1. p.quantity > 0  BY <2>2, <1>1, <1>3
    <3>2. p.cost * sold \in Int  BY <1>1, <1>3
    <3> DEFINE y == p.cost * sold
    <3>3. y \in Int  BY <3>2
    <3>4. released = y \div p.quantity  BY <2>2
    <3> HIDE DEF y, released, sold
    <3> QED  BY <1>1, <3>1, <3>3, <3>4
  <2> QED  BY <2>1, <2>2
<1>5. profit \in Int  BY <1>2, <1>3
<1>6. f.quantity <= p.quantity /\ f.gross = f.price * f.quantity => profit = f.gross
  BY <1>3
<1>7. Sold(p, f) = [cash |-> p.cash + (f.gross - f.fees), quantity |-> p.quantity - sold,
                    cost |-> p.cost - released,
                    realized |-> p.realized + (profit - released - f.fees)]
  BY DEF Sold
<1> HIDE DEF sold, released, profit
<1>8. Sold(p, f) \in Account
  BY <1>1, <1>2, <1>3, <1>4, <1>5, <1>7 DEF Account
<1>9. /\ Sold(p, f).cash = p.cash + (f.gross - f.fees)
      /\ Sold(p, f).quantity = p.quantity - sold
      /\ Sold(p, f).cost = p.cost - released
      /\ Sold(p, f).realized = p.realized + (profit - released - f.fees)
  BY <1>7 DEF Account
<1> DEFINE c == p.cash  k == p.cost  r == p.realized  g == f.gross  d == f.fees
<1>10. Worth(Sold(p, f)) = (c + (g - d)) + (k - released) - (r + (profit - released - d))
  BY <1>9 DEF Worth
<1>11. Worth(p) = c + k - r  BY DEF Worth
<1> HIDE DEF c, k, r, g, d
<1>12. profit = g =>
         (c + (g - d)) + (k - released) - (r + (profit - released - d)) = c + k - r
  <2>1. c \in Int /\ k \in Int /\ r \in Int /\ g \in Int /\ d \in Int
    BY <1>1, <1>2 DEF c, k, r, g, d
  <2> QED  BY <2>1, <1>4, <1>5
<1> QED  BY <1>6, <1>8, <1>10, <1>11, <1>12 DEF g

-----------------------------------------------------------------------------
(* Prices, fills and order sizes. *)

\* Whatever the model, the price of a fill is an integer.

LEMMA FillPriceType ==
  ASSUME NEW m, NEW side, NEW open \in Nat, NEW impact \in Nat
  PROVE  FillPrice(m, side, open, impact) \in Int
<1> DEFINE reference == Reference(m, side, open)
<1>1. Percent(open, HalfSpreadPct) \in Int  BY PercentType, RatesAssumption
<1>2. reference \in Int
  <2>1. CASE m = "IDEAL"  BY <2>1 DEF Reference
  <2>2. CASE m # "IDEAL" /\ side = "BUY"  BY <2>2, <1>1 DEF Reference
  <2>3. CASE m # "IDEAL" /\ side # "BUY"  BY <2>3, <1>1 DEF Reference
  <2> QED  BY <2>1, <2>2, <2>3
<1>3. Percent(reference, SlippagePct) \in Int  BY <1>2, PercentType, RatesAssumption
<1>4. FillPrice(m, side, open, impact)
        = IF side = "BUY" THEN reference + (Percent(reference, SlippagePct) + impact)
          ELSE reference - (Percent(reference, SlippagePct) + impact)
  BY DEF FillPrice
<1> HIDE DEF reference
<1> QED  BY <1>2, <1>3, <1>4

\* A fill record is well formed.

LEMMA FillIsTyped ==
  ASSUME NEW side \in Sides, NEW quantity \in Nat, NEW price \in Int
  PROVE  /\ Fill(side, quantity, price) \in FillType
         /\ Fill(side, quantity, price).gross = price * quantity
         /\ Fill(side, quantity, price).fees = Percent(price * quantity, CommissionPct)
         /\ Fill(side, quantity, price).price = price
         /\ Fill(side, quantity, price).quantity = quantity
         /\ Fill(side, quantity, price).side = side
<1>1. price * quantity \in Int  OBVIOUS
<1>2. Percent(price * quantity, CommissionPct) \in Int  BY <1>1, PercentType, RatesAssumption
<1> QED  BY <1>1, <1>2 DEF Fill, FillType

\* The strategy sizes an order in whole units.

LEMMA IntendedType ==
  ASSUME NEW p \in Account, NEW direction, NEW open \in Nat, open > 0
  PROVE  IntendedQuantity(p, direction, open) \in Int
<1> DEFINE n == Equity(p, open) * TargetPct
           d == 100 * open
<1>1. Equity(p, open) \in Int  BY DEF Equity, Account
<1>2. n \in Int  BY <1>1, RatesAssumption
<1>3. d \in Nat /\ d > 0  OBVIOUS
<1>4. p.quantity \in Int  BY DEF Account
<1>5. IntendedQuantity(p, direction, open)
        = IF direction = "BUY" THEN (2 * n + d) \div (2 * d) ELSE p.quantity
  BY DEF IntendedQuantity, Round
<1> HIDE DEF n, d
<1> QED  BY <1>2, <1>3, <1>4, <1>5

-----------------------------------------------------------------------------
(* Taking an entry out of the queue. *)

\* What is left of a sequence are elements of it, one less.

LEMMA RemoveAtProperties ==
  ASSUME NEW S, NEW s \in Seq(S), NEW i \in 1..Len(s)
  PROVE  /\ RemoveAt(s, i) \in Seq(S)
         /\ Len(RemoveAt(s, i)) = Len(s) - 1
         /\ \A k \in 1..Len(RemoveAt(s, i)) : \E j \in 1..Len(s) : RemoveAt(s, i)[k] = s[j]
<1> DEFINE before == SubSeq(s, 1, i - 1)
           after == SubSeq(s, i + 1, Len(s))
<1>1. Len(s) \in Nat /\ i \in Nat /\ \A j \in 1..Len(s) : s[j] \in S
  BY LenProperties, ElementOfSeq
<1>2. /\ before \in Seq(S) /\ Len(before) = i - 1
      /\ \A k \in 1..(i - 1) : before[k] = s[k]
  BY <1>1, SubSeqProperties
<1>3. /\ after \in Seq(S) /\ Len(after) = Len(s) - i
      /\ \A k \in 1..(Len(s) - i) : after[k] = s[i + k]
  BY <1>1, SubSeqProperties
<1>4. RemoveAt(s, i) = before \o after  BY DEF RemoveAt
<1> HIDE DEF before, after
<1>5. /\ before \o after \in Seq(S)
      /\ Len(before \o after) = Len(before) + Len(after)
      /\ \A k \in 1..(Len(before) + Len(after)) :
           (before \o after)[k] = IF k <= Len(before) THEN before[k]
                                  ELSE after[k - Len(before)]
  BY <1>2, <1>3, ConcatProperties
<1>6. ASSUME NEW k \in 1..(Len(s) - 1)
      PROVE  \E j \in 1..Len(s) : (before \o after)[k] = s[j]
  <2>1. CASE k <= i - 1  BY <2>1, <1>1, <1>2, <1>3, <1>5
  <2>2. CASE k > i - 1
    <3> DEFINE m == k - (i - 1)
    <3>1. (before \o after)[k] = after[m]  BY <2>2, <1>1, <1>2, <1>3, <1>5
    <3>2. m \in 1..(Len(s) - i) /\ i + m \in 1..Len(s)  BY <2>2, <1>1
    <3> HIDE DEF m
    <3>3. after[m] = s[i + m]  BY <3>2, <1>3
    <3> QED  BY <3>1, <3>2, <3>3
  <2>3. k <= i - 1 \/ k > i - 1  BY <1>1
  <2> QED  BY <2>1, <2>2, <2>3
<1>7. Len(RemoveAt(s, i)) = Len(s) - 1  BY <1>1, <1>2, <1>3, <1>4, <1>5
<1>8. RemoveAt(s, i) \in Seq(S)  BY <1>4, <1>5
<1>9. \A k \in 1..(Len(s) - 1) : \E j \in 1..Len(s) : RemoveAt(s, i)[k] = s[j]
  BY <1>4, <1>6
<1> QED  BY <1>7, <1>8, <1>9

-----------------------------------------------------------------------------
(* One execution. *)

Entries == [order : Nat, due : Nat]

\* The initial cash after realized profit: the worth with the fees of buys added back.
Balance(p, b) == Worth(p) + b.buyFees

\* An execution keeps the types, takes no more than what is available, leaves

\* nothing in the queue when fills are complete, and, unless it sells more
\* than the position, keeps the balance.
LEMMA ExecuteEffect ==
  ASSUME Shape, phase = "due",
         NEW book \in Seq(Order), NEW counts, NEW o \in DOMAIN book,
         NEW queue \in Seq(Entries), \A i \in DOMAIN queue : queue[i].order \in DOMAIN book,
         NEW available \in Nat, NEW impact \in ImpactsOf(model),
         Execute(book, counts, o, queue, available, impact)
  PROVE  /\ orders' \in Seq(Order)
         /\ pending' \in Seq(Entries)
         /\ \A i \in DOMAIN pending' : pending'[i].order \in DOMAIN orders'
         /\ model # "MICROSTRUCTURE" => pending' = queue
         /\ portfolio' \in Account
         /\ booked' \in [bar : Nat, buyFees : Int]
         /\ booked'.bar >= booked.bar
         /\ model = "MICROSTRUCTURE" => booked'.bar - booked.bar <= available
         /\ (/\ model # "MICROSTRUCTURE"
             /\ book[o].side = "SELL" => book[o].quantity - book[o].filled <= portfolio.quantity)
            => Balance(portfolio', booked') = Balance(portfolio, booked)
<1> DEFINE order == book[o]
           unfilled == order.quantity - order.filled
           quantity == FillQuantity(model, unfilled, available)
           price == FillPrice(model, order.side, bar.open, impact)
           fill == Fill(order.side, quantity, price)
           partial == quantity < unfilled
           spent == IF order.side = "BUY" THEN fill.fees ELSE 0
<1>1. /\ order \in Order /\ order.side \in Sides
      /\ unfilled \in Int /\ order.filled \in Nat
      /\ o \in Nat
  <2>1. o \in 1..Len(book) /\ Len(book) \in Nat  BY LenProperties
  <2>2. order \in Order  BY <2>1, ElementOfSeq
  <2> HIDE DEF order
  <2> QED  BY <2>1, <2>2 DEF Order
<1>2. /\ quantity \in Int
      /\ model # "MICROSTRUCTURE" => quantity = unfilled
      /\ model = "MICROSTRUCTURE" => quantity <= available
  BY <1>1 DEF FillQuantity, Lesser
<1>3. /\ portfolio \in Account
      /\ booked \in [bar : Nat, buyFees : Int]
      /\ bar.open \in Nat /\ sequence \in Nat
      /\ portfolio.cash \in Int /\ portfolio.cost \in Int
      /\ portfolio.realized \in Int /\ portfolio.quantity \in Nat
      /\ booked.bar \in Nat /\ booked.buyFees \in Int
  BY DEF Shape, Account
<1>4. impact \in Nat
  <2>1. CASE model = "MICROSTRUCTURE"
    <3>1. ImpactsOf(model) = Impacts  BY <2>1 DEF ImpactsOf
    <3> QED  BY <3>1, RatesAssumption
  <2>2. CASE model # "MICROSTRUCTURE"
    <3>1. ImpactsOf(model) = {0}  BY <2>2 DEF ImpactsOf
    <3>2. impact = 0  BY <3>1
    <3> QED  BY <3>2
  <2> QED  BY <2>1, <2>2
<1>5. price \in Int
  <2> HIDE DEF order
  <2> QED  BY <1>3, <1>4, FillPriceType
<1>6. Execute(book, counts, o, queue, available, impact)
        = IF quantity <= 0
          THEN /\ orders' = book
               /\ pending' = queue
               /\ metrics' = counts
               /\ UNCHANGED <<portfolio, booked>>
          ELSE /\ orders' = [book EXCEPT ![o] = Traded(order, quantity)]
               /\ pending' = IF partial THEN Append(queue, Entry(o, sequence + 1)) ELSE queue
               /\ portfolio' = ApplyFill(portfolio, fill)
               /\ metrics' = [counts EXCEPT !.filled = @ + quantity,
                                            !.fills = @ + 1,
                                            !.partial = @ + (IF partial THEN 1 ELSE 0)]
               /\ booked' = [bar |-> booked.bar + quantity,
                             buyFees |-> booked.buyFees + spent]
  BY DEF Execute
<1>7. CASE quantity <= 0
  <2>1. orders' = book /\ pending' = queue /\ portfolio' = portfolio /\ booked' = booked
    <3> HIDE DEF order, unfilled, quantity, price, fill, partial, spent
    <3> QED  BY <1>6, <1>7
  <2> QED  BY <2>1, <1>3 DEF Balance
<1>8. CASE ~ (quantity <= 0)
  <2> DEFINE row == Traded(order, quantity)
  <2>1. /\ orders' = [book EXCEPT ![o] = row]
        /\ pending' = IF partial THEN Append(queue, Entry(o, sequence + 1)) ELSE queue
        /\ portfolio' = ApplyFill(portfolio, fill)
        /\ booked' = [bar |-> booked.bar + quantity, buyFees |-> booked.buyFees + spent]
    <3> HIDE DEF unfilled, quantity, price, fill, partial, spent
    <3> QED  BY <1>6, <1>8
  <2>2. /\ fill \in FillType /\ fill.side = order.side
        /\ fill.gross = fill.price * fill.quantity /\ fill.quantity = quantity
    <3> HIDE DEF order, unfilled, quantity, price
    <3>1. quantity \in Nat  BY <1>2, <1>8
    <3> DEFINE side == order.side
               f == Fill(side, quantity, price)
    <3>2. side \in Sides /\ price \in Int  BY <1>1, <1>5
    <3>3. fill = f  OBVIOUS
    <3> HIDE DEF side, fill
    <3>4. f \in FillType  BY <3>1, <3>2, FillIsTyped
    <3>5. f.gross = price * quantity  BY DEF Fill
    <3>6. f.price = price /\ f.quantity = quantity /\ f.side = side  BY DEF Fill
    <3> HIDE DEF f
    <3> QED  BY <3>3, <3>4, <3>5, <3>6 DEF side
  <2>3. fill.fees \in Int /\ spent \in Int  BY <2>2 DEF FillType
  <2>4. row \in Order
    <3> HIDE DEF order, unfilled, quantity, partial
    <3>1. quantity \in Nat /\ order.filled \in Nat  BY <1>1, <1>2, <1>8
    <3>2. order.filled + quantity \in Nat  BY <3>1
    <3>3. /\ order.side \in Sides /\ order.quantity \in Int /\ order.created \in Nat
      BY <1>1 DEF Order
    <3> DEFINE status == IF order.filled + quantity >= order.quantity
                         THEN "FILLED" ELSE "PARTIALLY_FILLED"
    <3>4. row = [side |-> order.side, quantity |-> order.quantity,
                 filled |-> order.filled + quantity, status |-> status,
                 created |-> order.created]
      BY DEF Traded
    <3>5. status \in Executable \cup {"FILLED", "REJECTED"}  BY DEF Executable
    <3> HIDE DEF status, row
    <3> QED  BY <3>2, <3>3, <3>4, <3>5 DEF Order
  <2> HIDE DEF row, order, unfilled, quantity, price, fill, partial, spent
  <2>5. orders' \in Seq(Order) /\ Len(orders') = Len(book)
    BY <2>1, <2>4, ExceptSeq
  <2>6. DOMAIN orders' = DOMAIN book  BY <2>5
  <2>7. /\ pending' \in Seq(Entries)
        /\ \A i \in DOMAIN pending' : pending'[i].order \in DOMAIN orders'
    <3>1. CASE ~partial  BY <3>1, <2>1, <2>6
    <3>2. CASE partial
      <4>1. Entry(o, sequence + 1) \in Entries /\ Entry(o, sequence + 1).order = o
        BY <1>1, <1>3 DEF Entry, Entries
      <4>2. pending' = Append(queue, Entry(o, sequence + 1))  BY <3>2, <2>1
      <4>3. /\ pending' \in Seq(Entries) /\ Len(pending') = Len(queue) + 1
            /\ \A i \in 1..Len(queue) : pending'[i] = queue[i]
            /\ pending'[Len(queue) + 1] = Entry(o, sequence + 1)
        BY <4>1, <4>2, AppendProperties
      <4> QED  BY <4>1, <4>3, <2>6
    <3> QED  BY <3>1, <3>2
  <2>8. model # "MICROSTRUCTURE" => pending' = queue
    <3>1. model # "MICROSTRUCTURE" => ~partial  BY <1>1, <1>2 DEF partial
    <3> QED  BY <2>1, <3>1
  <2>9. /\ portfolio' \in Account
        /\ (order.side = "SELL" => quantity <= portfolio.quantity)
             => Worth(portfolio') = Worth(portfolio) - spent
    <3>1. CASE order.side = "BUY"
      <4>1. portfolio' = Bought(portfolio, fill) /\ spent = fill.fees
        BY <3>1, <2>1, <2>2 DEF ApplyFill, spent
      <4> QED  BY <4>1, <1>3, <2>2, BoughtBalance
    <3>2. CASE order.side = "SELL"
      <4>1. portfolio' = Sold(portfolio, fill) /\ spent = 0
        BY <3>2, <2>1, <2>2 DEF ApplyFill, spent
      <4>2. portfolio' \in Account  BY <4>1, <1>3, <2>2, SoldBalance
      <4>3. quantity <= portfolio.quantity => Worth(portfolio') = Worth(portfolio)
        BY <4>1, <1>3, <2>2, SoldBalance
      <4>4. Worth(portfolio) - spent = Worth(portfolio)
        <5>1. Worth(portfolio) \in Int  BY <1>3, WorthType
        <5> QED  BY <5>1, <4>1
      <4> QED  BY <3>2, <4>2, <4>3, <4>4
    <3> QED  BY <3>1, <3>2, <1>1 DEF Sides
  <2>10. booked'.bar = booked.bar + quantity /\ booked'.buyFees = booked.buyFees + spent
    BY <2>1
  <2>12. booked' \in [bar : Nat, buyFees : Int] /\ booked'.bar >= booked.bar
    <3>1. quantity \in Nat  BY <1>2, <1>8
    <3> DEFINE taken == booked.bar + quantity
               fees == booked.buyFees + spent
    <3>2. taken \in Nat /\ taken >= booked.bar  BY <3>1, <1>3
    <3>3. fees \in Int  BY <1>3, <2>3
    <3>4. booked' = [bar |-> taken, buyFees |-> fees]  BY <2>1
    <3> HIDE DEF taken, fees
    <3> QED  BY <3>2, <3>3, <3>4
  <2>13. model = "MICROSTRUCTURE" => booked'.bar - booked.bar <= available
    <3>1. (booked.bar + quantity) - booked.bar = quantity  BY <1>2, <1>3
    <3> QED  BY <3>1, <2>10, <1>2
  <2>11. (/\ model # "MICROSTRUCTURE"
          /\ order.side = "SELL" => unfilled <= portfolio.quantity)
         => Balance(portfolio', booked') = Balance(portfolio, booked)
    <3>1. Worth(portfolio) \in Int /\ spent \in Int /\ booked.buyFees \in Int
      BY <1>3, <2>3, WorthType
    <3>2. ASSUME model # "MICROSTRUCTURE", order.side = "SELL" => unfilled <= portfolio.quantity
          PROVE  Balance(portfolio', booked') = Balance(portfolio, booked)
      <4>1. Worth(portfolio') = Worth(portfolio) - spent  BY <3>2, <2>9, <1>2
      <4>2. (Worth(portfolio) - spent) + (booked.buyFees + spent)
              = Worth(portfolio) + booked.buyFees
        BY <3>1
      <4> QED  BY <4>1, <4>2, <2>10 DEF Balance
    <3> QED  BY <3>2
  <2>14. (/\ model # "MICROSTRUCTURE"
          /\ book[o].side = "SELL" => book[o].quantity - book[o].filled <= portfolio.quantity)
         => Balance(portfolio', booked') = Balance(portfolio, booked)
    BY <2>11 DEF order, unfilled
  <2>15. portfolio' \in Account  BY <2>9
  <2> QED
    BY <2>5, <2>7, <2>8, <2>12, <2>13, <2>14, <2>15
<1> QED  BY <1>7, <1>8, <1>2

-----------------------------------------------------------------------------
(* The inductive invariant. *)

\* BooksBalance says that the balance is the initial cash.

LEMMA BalanceIsBooks ==
  ASSUME NEW p \in Account, NEW b \in [bar : Nat, buyFees : Int]
  PROVE  Balance(p, b) = InitialCash
           <=> p.cash + p.cost = InitialCash + p.realized - b.buyFees
<1> DEFINE cash == p.cash  cost == p.cost  realized == p.realized  fees == b.buyFees
<1>1. cash \in Int /\ cost \in Int /\ realized \in Int /\ fees \in Int /\ InitialCash \in Int
  BY ReplayAssumption DEF Account
<1>2. Balance(p, b) = (cash + cost - realized) + fees  BY DEF Balance, Worth
<1> HIDE DEF cash, cost, realized, fees
<1>3. (cash + cost - realized) + fees = InitialCash
        <=> cash + cost = InitialCash + realized - fees
  BY <1>1
<1> QED  BY <1>2, <1>3 DEF cash, cost, realized, fees

\* A session starts in the invariant.

LEMMA ReplayInit == Init => ReplayInv
<1> SUFFICES ASSUME Init PROVE ReplayInv  OBVIOUS
<1>1. Shape  BY ReplayAssumption DEF Init, Shape, Account, Order
<1>2. InFlight /\ LiquidityAccounted  BY DEF Init, InFlight, LiquidityAccounted
<1>3. BooksBalance  BY ReplayAssumption DEF Init, BooksBalance
<1> QED  BY <1>1, <1>2, <1>3 DEF ReplayInv

\* A row appended to the orders keeps the rows before it.

LEMMA AppendRow ==
  ASSUME Shape, NEW row \in Order
  PROVE  /\ Append(orders, row) \in Seq(Order)
         /\ Len(orders) \in Nat
         /\ DOMAIN Append(orders, row) = 1..(Len(orders) + 1)
         /\ DOMAIN orders \subseteq DOMAIN Append(orders, row)
         /\ Append(orders, row)[Len(orders) + 1] = row
<1>1. orders \in Seq(Order)  BY DEF Shape
<1>2. /\ Append(orders, row) \in Seq(Order)
      /\ Len(Append(orders, row)) = Len(orders) + 1
      /\ Append(orders, row)[Len(orders) + 1] = row
  BY <1>1, AppendProperties
<1>3. Len(orders) \in Nat /\ DOMAIN orders = 1..Len(orders)  BY <1>1, LenProperties
<1>4. DOMAIN Append(orders, row) = 1..Len(Append(orders, row))  BY <1>2, LenProperties
<1> QED  BY <1>2, <1>3, <1>4

\* The order of a signal is a row; a sale is for the whole position.

LEMMA SignalRowType ==
  ASSUME Shape, phase = "due", NEW trend
  PROVE  /\ SignalRow(trend) \in Order
         /\ SignalRow(trend).filled = 0
         /\ SignalRow(trend).side = "SELL" => SignalRow(trend).quantity = portfolio.quantity
<1> DEFINE direction == Direction(portfolio, trend)
           quantity == IntendedQuantity(portfolio, direction, bar.open)
<1>1. portfolio \in Account /\ bar.open \in Nat /\ bar.open > 0 /\ sequence \in Nat
  BY DEF Shape
<1>2. quantity \in Int  BY <1>1, IntendedType
<1>3. SideOf(direction) \in Sides  BY DEF SideOf, Sides
<1>4. SideOf(direction) = "SELL" => quantity = portfolio.quantity
  BY DEF SideOf, IntendedQuantity
<1>5. SignalRow(trend) = [side |-> SideOf(direction), quantity |-> quantity, filled |-> 0,
                          status |-> "SUBMITTED", created |-> sequence]
  BY DEF SignalRow, Row
<1> HIDE DEF direction, quantity
<1> QED  BY <1>1, <1>2, <1>3, <1>4, <1>5 DEF Order, Executable

\* When no order is due, complete fills leave nothing in flight.

LEMMA NothingInFlight ==
  ASSUME Shape, InFlight, Plain, phase = "due", Due = {}
  PROVE  pending = <<>>
<1>1. pending \in Seq(Entries) /\ sequence \in Nat  BY DEF Shape, Entries
<1>2. \A i \in DOMAIN pending : pending[i].due <= sequence + 0  BY DEF InFlight
<1>3. \A i \in DOMAIN pending : pending[i] \in Entries  BY <1>1, LenProperties, ElementOfSeq
<1>4. DOMAIN pending = {}  BY <1>1, <1>2, <1>3 DEF Due, Entries
<1> QED  BY <1>1, <1>4, EmptySeq, LenProperties

\* The market event that opens a bar.

LEMMA NextBarInv == ASSUME ReplayInv, NextBar PROVE ReplayInv'
<1> USE DEF NextBar
<1>1. Shape  BY DEF ReplayInv
<1>2. Shape'
  <2>1. PICK open \in Prices, liquidity \in Liquidity :
          bar' = [open |-> open, liquidity |-> liquidity] /\ remaining' = liquidity
    OBVIOUS
  <2>2. open \in Nat /\ open > 0 /\ liquidity \in Nat  BY ReplayAssumption
  <2>3. booked' = [booked EXCEPT !.bar = 0] /\ booked \in [bar : Nat, buyFees : Int]
    BY <1>1 DEF Shape
  <2>4. booked' \in [bar : Nat, buyFees : Int]  BY <2>3
  <2> QED  BY <1>1, <2>1, <2>2, <2>4 DEF Shape
<1>3. InFlight'
  <2>1. InFlight /\ sequence \in Nat  BY <1>1 DEF ReplayInv, Shape
  <2>2. phase = "next" /\ phase' = "due" /\ sequence' = sequence + 1
        /\ UNCHANGED <<model, latency, pending, orders, portfolio>>
    OBVIOUS
  <2> QED  BY <2>1, <2>2 DEF InFlight, Plain
<1>4. LiquidityAccounted'
  <2>1. PICK open \in Prices, liquidity \in Liquidity :
          bar' = [open |-> open, liquidity |-> liquidity] /\ remaining' = liquidity
    OBVIOUS
  <2>2. booked'.bar = 0 /\ liquidity \in Nat  BY <1>1, ReplayAssumption DEF Shape
  <2> QED  BY <2>1, <2>2 DEF LiquidityAccounted
<1>5. BooksBalance'
  <2>1. booked'.buyFees = booked.buyFees  BY <1>1 DEF Shape
  <2> QED  BY <2>1 DEF ReplayInv, BooksBalance, Plain
<1> QED  BY <1>2, <1>3, <1>4, <1>5 DEF ReplayInv

\* The execution of the first due order.

LEMMA ExecuteDueInv ==
  ASSUME ReplayInv, NEW i \in DOMAIN pending, ExecuteDue(i)
  PROVE  ReplayInv'
<1> DEFINE o == pending[i].order
           queue == RemoveAt(pending, i)
<1>1. Shape /\ InFlight /\ LiquidityAccounted /\ BooksBalance  BY DEF ReplayInv
<1>2. PICK impact \in ImpactsOf(model) : Execute(orders, metrics, o, queue, remaining, impact)
  BY DEF ExecuteDue
<1>3. /\ phase = "due" /\ phase' = phase
      /\ model' = model /\ latency' = latency /\ sequence' = sequence /\ bar' = bar
      /\ remaining' = IF model = "MICROSTRUCTURE"
                      THEN remaining - (booked'.bar - booked.bar) ELSE remaining
  BY DEF ExecuteDue
<1>4. /\ orders \in Seq(Order) /\ o \in DOMAIN orders /\ remaining \in Nat
      /\ pending \in Seq(Entries)
      /\ portfolio \in Account /\ booked \in [bar : Nat, buyFees : Int]
  BY <1>1 DEF Shape, Entries
<1>5. i \in 1..Len(pending) /\ Len(pending) \in Nat  BY <1>4, LenProperties
<1>6. /\ queue \in Seq(Entries) /\ Len(queue) = Len(pending) - 1
      /\ \A k \in 1..Len(queue) : \E j \in 1..Len(pending) : queue[k] = pending[j]
  <2>1. pending \in Seq(Entries) /\ i \in 1..Len(pending)  BY <1>4, <1>5
  <2> QED  BY <2>1, RemoveAtProperties
<1>7. \A k \in DOMAIN queue : queue[k].order \in DOMAIN orders
  <2>1. \A j \in 1..Len(pending) : pending[j].order \in DOMAIN orders
    BY <1>1, <1>4, LenProperties DEF Shape
  <2>2. DOMAIN queue = 1..Len(queue)  BY <1>6, LenProperties
  <2> QED  BY <1>6, <2>1, <2>2
<1> HIDE DEF o, queue
<1>8. /\ orders' \in Seq(Order)
      /\ pending' \in Seq(Entries)
      /\ \A k \in DOMAIN pending' : pending'[k].order \in DOMAIN orders'
      /\ model # "MICROSTRUCTURE" => pending' = queue
      /\ portfolio' \in Account
      /\ booked' \in [bar : Nat, buyFees : Int]
      /\ booked'.bar >= booked.bar
      /\ model = "MICROSTRUCTURE" => booked'.bar - booked.bar <= remaining
      /\ (/\ model # "MICROSTRUCTURE"
          /\ orders[o].side = "SELL" =>
               orders[o].quantity - orders[o].filled <= portfolio.quantity)
         => Balance(portfolio', booked') = Balance(portfolio, booked)
  <2>1. phase = "due"  BY <1>3
  <2>2. queue \in Seq(Entries)  BY <1>6
  <2> QED  BY <1>1, <1>2, <1>4, <1>7, <2>1, <2>2, ExecuteEffect
<1>9. Shape'
  <2>1. remaining' \in Nat  BY <1>3, <1>4, <1>8
  <2> QED  BY <1>1, <1>3, <1>8, <2>1 DEF Shape, Entries
<1>10. InFlight'
  <2> SUFFICES ASSUME Plain' PROVE pending' = <<>>
    BY EmptySeq DEF InFlight
  <2>1. Plain  BY <1>3 DEF Plain
  <2>2. Len(pending) <= 1 /\ pending' = queue  BY <2>1, <1>1, <1>8 DEF InFlight, Plain
  <2>3. Len(queue) = 0  BY <2>2, <1>5, <1>6
  <2> QED  BY <2>2, <2>3, <1>6, EmptySeq
<1>11. LiquidityAccounted'
  <2> SUFFICES ASSUME model = "MICROSTRUCTURE", latency > 0
               PROVE  booked'.bar + remaining' = bar.liquidity
    BY <1>3 DEF LiquidityAccounted
  <2>1. booked.bar + remaining = bar.liquidity  BY <1>1 DEF LiquidityAccounted
  <2> QED  BY <2>1, <1>3, <1>4, <1>8
<1>12. BooksBalance'
  <2> SUFFICES ASSUME Plain' PROVE Balance(portfolio', booked') = InitialCash
    BY <1>8, BalanceIsBooks DEF BooksBalance
  <2>1. Plain  BY <1>3 DEF Plain
  <2>2. Balance(portfolio, booked) = InitialCash
    BY <2>1, <1>1, <1>4, BalanceIsBooks DEF BooksBalance
  <2>3. orders[o].side = "SELL" => orders[o].quantity - orders[o].filled <= portfolio.quantity
    BY <2>1, <1>1, <1>4 DEF InFlight, o, Account
  <2> QED  BY <2>1, <2>2, <2>3, <1>8 DEF Plain
<1> QED  BY <1>9, <1>10, <1>11, <1>12 DEF ReplayInv

\* An order that finds no liquidity waits for the next bar.

LEMMA PostponeInv ==
  ASSUME ReplayInv, NEW i \in DOMAIN pending, Postpone(i)
  PROVE  ReplayInv'
<1> DEFINE queue == RemoveAt(pending, i)
           entry == Entry(pending[i].order, sequence + 1)
<1>1. Shape /\ InFlight /\ LiquidityAccounted /\ BooksBalance  BY DEF ReplayInv
<1>2. /\ model = "MICROSTRUCTURE" /\ pending' = Append(queue, entry)
      /\ UNCHANGED <<model, latency, phase, sequence, bar, remaining, orders, portfolio,
                     booked>>
  BY DEF Postpone
<1>3. pending \in Seq(Entries) /\ sequence \in Nat  BY <1>1 DEF Shape, Entries
<1>4. i \in 1..Len(pending) /\ Len(pending) \in Nat /\ DOMAIN pending = 1..Len(pending)
  BY <1>3, LenProperties
<1>5. \A j \in 1..Len(pending) : pending[j].order \in DOMAIN orders
  BY <1>1, <1>4 DEF Shape
<1>6. /\ queue \in Seq(Entries)
      /\ \A k \in 1..Len(queue) : \E j \in 1..Len(pending) : queue[k] = pending[j]
  BY <1>3, <1>4, RemoveAtProperties
<1>7. entry \in Entries /\ entry.order \in DOMAIN orders
  <2>1. pending[i] \in Entries  BY <1>3, <1>4, ElementOfSeq
  <2> QED  BY <2>1, <1>3, <1>4, <1>5 DEF Entry, Entries
<1> HIDE DEF queue, entry
<1>8. /\ pending' \in Seq(Entries) /\ Len(pending') = Len(queue) + 1
      /\ \A k \in 1..Len(queue) : pending'[k] = queue[k]
      /\ pending'[Len(queue) + 1] = entry
  BY <1>2, <1>6, <1>7, AppendProperties
<1>9. \A k \in DOMAIN pending' : pending'[k].order \in DOMAIN orders'
  <2>1. DOMAIN pending' = 1..(Len(queue) + 1) /\ Len(queue) \in Nat
    BY <1>6, <1>8, LenProperties
  <2> QED  BY <2>1, <1>2, <1>5, <1>6, <1>7, <1>8
<1>10. Shape'  BY <1>1, <1>2, <1>8, <1>9 DEF Shape, Entries
<1>11. ~Plain' /\ InFlight' /\ BooksBalance'  BY <1>2 DEF Plain, InFlight, BooksBalance
<1>12. LiquidityAccounted'  BY <1>1, <1>2 DEF LiquidityAccounted
<1> QED  BY <1>10, <1>11, <1>12 DEF ReplayInv

\* A bar without an accepted order.

LEMMA HoldInv == ASSUME ReplayInv, NEW trend, Hold(trend) PROVE ReplayInv'
<1>1. Shape /\ InFlight /\ LiquidityAccounted /\ BooksBalance  BY DEF ReplayInv
<1>2. /\ phase = "due" /\ Due = {} /\ phase' = "next"
      /\ UNCHANGED <<model, latency, sequence, bar, remaining, pending, orders, portfolio,
                     booked>>
  BY DEF Hold, EndBar
<1>3. Shape'  BY <1>1, <1>2 DEF Shape
<1>4. InFlight'
  <2>1. Plain => pending' = <<>>  BY <1>1, <1>2, NothingInFlight
  <2> QED  BY <1>2, <2>1, EmptySeq DEF InFlight, Plain
<1>5. LiquidityAccounted' /\ BooksBalance'
  BY <1>1, <1>2 DEF LiquidityAccounted, BooksBalance, Plain
<1> QED  BY <1>3, <1>4, <1>5 DEF ReplayInv

LEMMA RejectInv == ASSUME ReplayInv, NEW trend, Reject(trend) PROVE ReplayInv'
<1> DEFINE row == [SignalRow(trend) EXCEPT !.status = "REJECTED"]
<1>1. Shape /\ InFlight /\ LiquidityAccounted /\ BooksBalance  BY DEF ReplayInv
<1>2. /\ phase = "due" /\ Due = {} /\ phase' = "next"
      /\ orders' = Append(orders, row)
      /\ UNCHANGED <<model, latency, sequence, bar, remaining, pending, portfolio, booked>>
  BY DEF Reject, EndBar
<1>3. row \in Order
  <2>1. SignalRow(trend) \in Order  BY <1>1, <1>2, SignalRowType
  <2> QED  BY <2>1 DEF Order
<1> HIDE DEF row
<1>4. orders' \in Seq(Order) /\ DOMAIN orders \subseteq DOMAIN orders'
  BY <1>1, <1>2, <1>3, AppendRow
<1>5. Shape'  BY <1>1, <1>2, <1>4 DEF Shape
<1>6. InFlight'
  <2>1. Plain => pending' = <<>>  BY <1>1, <1>2, NothingInFlight
  <2> QED  BY <1>2, <2>1, EmptySeq DEF InFlight, Plain
<1>7. LiquidityAccounted' /\ BooksBalance'
  BY <1>1, <1>2 DEF LiquidityAccounted, BooksBalance, Plain
<1> QED  BY <1>5, <1>6, <1>7 DEF ReplayInv

\* An accepted order that waits for its latency.

LEMMA DeferInv == ASSUME ReplayInv, NEW trend, Defer(trend) PROVE ReplayInv'
<1> DEFINE row == SignalRow(trend)
           last == Len(orders) + 1
           entry == Entry(last, sequence + latency)
<1>1. Shape /\ InFlight /\ LiquidityAccounted /\ BooksBalance  BY DEF ReplayInv
<1>2. /\ phase = "due" /\ Due = {} /\ phase' = "next" /\ latency > 0
      /\ orders' = Append(orders, row)
      /\ pending' = Append(pending, Entry(Len(orders'), sequence + latency))
      /\ UNCHANGED <<model, latency, sequence, bar, remaining, portfolio, booked>>
  BY DEF Defer, EndBar
<1>3. /\ row \in Order /\ row.filled = 0
      /\ row.side = "SELL" => row.quantity = portfolio.quantity
  BY <1>1, <1>2, SignalRowType
<1> HIDE DEF row
<1>4. /\ orders' \in Seq(Order) /\ DOMAIN orders' = 1..last /\ Len(orders) \in Nat
      /\ DOMAIN orders \subseteq DOMAIN orders' /\ orders'[last] = row
  BY <1>1, <1>2, <1>3, AppendRow
<1>5. last \in Nat /\ last \in DOMAIN orders' /\ Len(orders') = last
  BY <1>4, LenProperties
<1>6. sequence \in Nat /\ latency \in Nat /\ pending \in Seq(Entries)
  BY <1>1, ReplayAssumption DEF Shape, Entries
<1>7. entry \in Entries /\ entry.order = last /\ entry.due = sequence + latency
  BY <1>5, <1>6 DEF Entry, Entries
<1>8. pending' = Append(pending, entry)  BY <1>2, <1>5
<1> HIDE DEF last, entry
<1>9. /\ pending' \in Seq(Entries) /\ Len(pending') = Len(pending) + 1
      /\ \A k \in 1..Len(pending) : pending'[k] = pending[k]
      /\ pending'[Len(pending) + 1] = entry
      /\ Len(pending) \in Nat /\ DOMAIN pending = 1..Len(pending)
      /\ DOMAIN pending' = 1..(Len(pending) + 1)
  BY <1>6, <1>7, <1>8, AppendProperties, LenProperties
<1>10. \A k \in DOMAIN pending' : pending'[k].order \in DOMAIN orders'
  <2>1. \A k \in 1..Len(pending) : pending[k].order \in DOMAIN orders
    BY <1>1, <1>9 DEF Shape
  <2> QED  BY <2>1, <1>4, <1>5, <1>7, <1>9
<1>11. Shape'  BY <1>1, <1>2, <1>4, <1>9, <1>10 DEF Shape, Entries
<1>12. InFlight'
  <2> SUFFICES ASSUME Plain' PROVE InFlight'  BY DEF InFlight
  <2>1. Plain /\ latency = 1  BY <1>2, <1>6 DEF Plain
  <2>2. Len(pending) = 0  BY <1>1, <1>2, <2>1, NothingInFlight, EmptySeq
  <2>3. Len(pending') <= 1 /\ \A k \in DOMAIN pending' : pending'[k] = entry
    BY <2>2, <1>9
  <2>4. entry.due <= sequence + 1 /\ orders'[entry.order] = row  BY <2>1, <1>4, <1>6, <1>7
  <2>5. row.quantity - row.filled = row.quantity  BY <1>3 DEF Order
  <2>6. row.side = "SELL" => row.quantity - row.filled = portfolio.quantity  BY <1>3, <2>5
  <2>7. \A k \in DOMAIN pending' : /\ pending'[k].due <= sequence + 1
                                   /\ orders'[pending'[k].order] = row
    BY <2>3, <2>4
  <2>8. ~(latency' = 0) /\ phase' # "due" /\ portfolio' = portfolio /\ sequence' = sequence
    BY <1>2, <2>1
  <2> HIDE DEF entry
  <2> QED  BY <2>3, <2>6, <2>7, <2>8 DEF InFlight
<1>13. LiquidityAccounted' /\ BooksBalance'
  BY <1>1, <1>2 DEF LiquidityAccounted, BooksBalance, Plain
<1> QED  BY <1>11, <1>12, <1>13 DEF ReplayInv

\* An accepted order without latency.

LEMMA FillAtOnceInv == ASSUME ReplayInv, NEW trend, FillAtOnce(trend) PROVE ReplayInv'
<1> DEFINE row == SignalRow(trend)
           book == Append(orders, row)
           last == Len(orders) + 1
<1>1. Shape /\ InFlight /\ LiquidityAccounted /\ BooksBalance  BY DEF ReplayInv
<1>2. PICK impact \in ImpactsOf(model) :
        Execute(book, Submitted(row), last, pending, bar.liquidity, impact)
  BY DEF FillAtOnce
<1>3. /\ phase = "due" /\ Due = {} /\ phase' = "next" /\ latency = 0
      /\ UNCHANGED <<model, latency, sequence, bar, remaining>>
  BY DEF FillAtOnce, EndBar
<1>4. /\ row \in Order /\ row.filled = 0
      /\ row.side = "SELL" => row.quantity = portfolio.quantity
  BY <1>1, <1>3, SignalRowType
<1> HIDE DEF row
<1>5. /\ book \in Seq(Order) /\ DOMAIN book = 1..last /\ Len(orders) \in Nat
      /\ DOMAIN orders \subseteq DOMAIN book /\ book[last] = row
  BY <1>1, <1>4, AppendRow
<1>6. last \in DOMAIN book  BY <1>5
<1>7. /\ pending \in Seq(Entries) /\ bar.liquidity \in Nat
      /\ \A k \in DOMAIN pending : pending[k].order \in DOMAIN book
      /\ portfolio \in Account /\ booked \in [bar : Nat, buyFees : Int]
  BY <1>1, <1>5 DEF Shape, Entries
<1> HIDE DEF book, last
<1>8. /\ orders' \in Seq(Order)
      /\ pending' \in Seq(Entries)
      /\ \A k \in DOMAIN pending' : pending'[k].order \in DOMAIN orders'
      /\ model # "MICROSTRUCTURE" => pending' = pending
      /\ portfolio' \in Account
      /\ booked' \in [bar : Nat, buyFees : Int]
      /\ (/\ model # "MICROSTRUCTURE"
          /\ book[last].side = "SELL" =>
               book[last].quantity - book[last].filled <= portfolio.quantity)
         => Balance(portfolio', booked') = Balance(portfolio, booked)
  BY <1>1, <1>2, <1>3, <1>5, <1>6, <1>7, ExecuteEffect
<1>9. Shape'  BY <1>1, <1>3, <1>8 DEF Shape, Entries
<1>10. InFlight'
  <2>1. Plain => pending = <<>>  BY <1>1, <1>3, NothingInFlight
  <2>2. Plain => pending' = <<>>  BY <2>1, <1>8 DEF Plain
  <2> QED  BY <2>2, <1>3, EmptySeq DEF InFlight, Plain
<1>11. LiquidityAccounted'  BY <1>3 DEF LiquidityAccounted
<1>12. BooksBalance'
  <2> SUFFICES ASSUME Plain' PROVE Balance(portfolio', booked') = InitialCash
    BY <1>8, BalanceIsBooks DEF BooksBalance
  <2>1. Plain  BY <1>3 DEF Plain
  <2>2. Balance(portfolio, booked) = InitialCash
    BY <2>1, <1>1, <1>7, BalanceIsBooks DEF BooksBalance
  <2>3. row.side = "SELL" => row.quantity - row.filled <= portfolio.quantity
    BY <1>4, <1>7 DEF Account
  <2> QED  BY <2>1, <2>2, <2>3, <1>5, <1>8 DEF Plain
<1> QED  BY <1>9, <1>10, <1>11, <1>12 DEF ReplayInv

\* The end of the stream changes neither orders nor books.

LEMMA CompleteInv == ASSUME ReplayInv, Complete PROVE ReplayInv'
<1>1. Shape /\ InFlight /\ LiquidityAccounted /\ BooksBalance  BY DEF ReplayInv
<1>2. /\ phase = "next" /\ phase' = "completed"
      /\ UNCHANGED <<model, latency, sequence, bar, remaining, pending, orders, portfolio,
                     booked>>
  BY DEF Complete
<1>3. Shape'  BY <1>1, <1>2 DEF Shape
<1>4. InFlight'  BY <1>1, <1>2 DEF InFlight, Plain
<1>5. LiquidityAccounted' /\ BooksBalance'
  BY <1>1, <1>2 DEF LiquidityAccounted, BooksBalance, Plain
<1> QED  BY <1>3, <1>4, <1>5 DEF ReplayInv

\* A session that ended, or a step outside the session.

LEMMA StutterInv == ASSUME ReplayInv, UNCHANGED vars PROVE ReplayInv'
BY DEF vars, ReplayInv, Shape, InFlight, LiquidityAccounted, BooksBalance, Plain

\* Whatever the rates, limits, prices and volumes, a replay stays in the

\* inductive invariant.
THEOREM ReplayInductive == Spec => []ReplayInv
<1>1. Init => ReplayInv  BY ReplayInit
<1>2. ReplayInv /\ [Next]_vars => ReplayInv'
  <2> SUFFICES ASSUME ReplayInv, [Next]_vars PROVE ReplayInv'  OBVIOUS
  <2>1. CASE NextBar  BY <2>1, NextBarInv
  <2>2. CASE \E i \in DOMAIN pending : ExecuteDue(i) \/ Postpone(i)
    BY <2>2, ExecuteDueInv, PostponeInv
  <2>3. CASE \E trend \in Trends :
               Hold(trend) \/ Reject(trend) \/ Defer(trend) \/ FillAtOnce(trend)
    BY <2>3, HoldInv, RejectInv, DeferInv, FillAtOnceInv
  <2>4. CASE Complete  BY <2>4, CompleteInv
  <2>5. CASE Completed \/ UNCHANGED vars  BY <2>5, StutterInv DEF Completed
  <2> QED  BY <2>1, <2>2, <2>3, <2>4, <2>5 DEF Next
<1> QED  BY <1>1, <1>2, PTL DEF Spec

\* Orders that waited for their latency never take more from a bar than its

\* volume times max_participation_rate.
THEOREM LiquidityIsShared == Spec => []LiquidityShared
<1>1. ReplayInv => LiquidityShared
  <2> SUFFICES ASSUME ReplayInv, model = "MICROSTRUCTURE", latency > 0
               PROVE  booked.bar <= bar.liquidity
    BY DEF LiquidityShared
  <2>1. remaining \in Nat /\ booked.bar \in Nat /\ bar.liquidity \in Nat
    BY DEF ReplayInv, Shape
  <2>2. booked.bar + remaining = bar.liquidity  BY DEF ReplayInv, LiquidityAccounted
  <2> QED  BY <2>1, <2>2
<1> QED  BY <1>1, ReplayInductive, PTL

\* With at most one order in flight, cash, book cost, realized profit and fees

\* always add up to the initial cash.
THEOREM BooksAreBalanced == Spec => []BooksBalance
<1>1. ReplayInv => BooksBalance  BY DEF ReplayInv
<1> QED  BY <1>1, ReplayInductive, PTL

-----------------------------------------------------------------------------
(* The queue and the orders in it *)

\* no order is queued twice
OnceEach(queue) == \A i, j \in DOMAIN queue : queue[i].order = queue[j].order => i = j

\* Where the entries are once one of them is taken out.

LEMMA RemoveAtIndices ==
  ASSUME NEW S, NEW s \in Seq(S), NEW i \in 1..Len(s)
  PROVE  /\ RemoveAt(s, i) \in Seq(S) /\ DOMAIN RemoveAt(s, i) = 1..(Len(s) - 1)
         /\ \A k \in 1..(Len(s) - 1) : RemoveAt(s, i)[k] = IF k < i THEN s[k] ELSE s[k + 1]
<1> DEFINE before == SubSeq(s, 1, i - 1)
           after == SubSeq(s, i + 1, Len(s))
<1>1. Len(s) \in Nat /\ i \in Nat /\ i >= 1 /\ i <= Len(s)
  BY LenProperties
<1>2. /\ before \in Seq(S) /\ Len(before) = i - 1
      /\ \A k \in 1..(i - 1) : before[k] = s[k]
  BY <1>1, SubSeqProperties, ElementOfSeq
<1>3. /\ after \in Seq(S) /\ Len(after) = Len(s) - i
      /\ \A k \in 1..(Len(s) - i) : after[k] = s[i + k]
  BY <1>1, SubSeqProperties, ElementOfSeq
<1>4. RemoveAt(s, i) = before \o after
  BY DEF RemoveAt
<1> HIDE DEF before, after
<1>5. /\ before \o after \in Seq(S)
      /\ Len(before \o after) = Len(before) + Len(after)
      /\ \A k \in 1..(Len(before) + Len(after)) :
           (before \o after)[k] = IF k <= Len(before) THEN before[k]
                                  ELSE after[k - Len(before)]
  BY <1>2, <1>3, ConcatProperties
<1>6. Len(before) + Len(after) = Len(s) - 1
  BY <1>1, <1>2, <1>3
<1>7. ASSUME NEW k \in 1..(Len(s) - 1)
      PROVE  (before \o after)[k] = IF k < i THEN s[k] ELSE s[k + 1]
  <2>1. CASE k < i
    <3>1. k <= Len(before) /\ k \in 1..(i - 1)
      BY <1>1, <1>2, <2>1
    <3> QED
      BY <1>2, <1>5, <1>6, <2>1, <3>1
  <2>2. CASE ~(k < i)
    <3> DEFINE m == k - Len(before)
    <3>1. ~(k <= Len(before)) /\ m \in 1..(Len(s) - i) /\ i + m = k + 1
      BY <1>1, <1>2, <2>2
    <3>2. (before \o after)[k] = after[m]
      BY <1>5, <1>6, <3>1
    <3> HIDE DEF m
    <3> QED
      BY <1>3, <2>2, <3>1, <3>2
  <2> QED
    BY <2>1, <2>2
<1>8. DOMAIN (before \o after) = 1..(Len(s) - 1)
  BY <1>5, <1>6, LenProperties
<1> QED
  BY <1>4, <1>5, <1>7, <1>8

\* Taking an entry out takes its order out of the queue, and nothing else.

LEMMA RemoveQueued ==
  ASSUME NEW q \in Seq(Entries), OnceEach(q), NEW i \in DOMAIN q
  PROVE  /\ RemoveAt(q, i) \in Seq(Entries)
         /\ OnceEach(RemoveAt(q, i))
         /\ Queued(RemoveAt(q, i)) = Queued(q) \ {q[i].order}
         /\ \A k \in DOMAIN RemoveAt(q, i) : \E j \in DOMAIN q : RemoveAt(q, i)[k] = q[j]
<1> DEFINE r == RemoveAt(q, i)
           n == Len(q)
           at(k) == IF k < i THEN k ELSE k + 1
<1>1. n \in Nat /\ DOMAIN q = 1..n /\ i \in 1..n
  BY LenProperties
<1>2. /\ r \in Seq(Entries) /\ DOMAIN r = 1..(n - 1)
      /\ \A k \in 1..(n - 1) : r[k] = q[at(k)]
  BY <1>1, RemoveAtIndices
<1> HIDE DEF r, n
<1>3. /\ \A k \in 1..(n - 1) : at(k) \in 1..n /\ at(k) # i
      /\ \A k, m \in 1..(n - 1) : at(k) = at(m) => k = m
      /\ \A j \in 1..n : j # i => \E k \in 1..(n - 1) : at(k) = j
  <2>1. /\ \A k \in 1..(n - 1) : at(k) \in 1..n /\ at(k) # i
        /\ \A k, m \in 1..(n - 1) : at(k) = at(m) => k = m
    BY <1>1
  <2>2. ASSUME NEW j \in 1..n, j # i
        PROVE  \E k \in 1..(n - 1) : at(k) = j
    <3>1. CASE j < i
      <4>1. j \in 1..(n - 1) /\ at(j) = j
        BY <1>1, <3>1
      <4> QED
        BY <4>1
    <3>2. CASE j > i
      <4>1. j - 1 \in 1..(n - 1) /\ at(j - 1) = j
        BY <1>1, <3>2
      <4> QED
        BY <4>1
    <3> QED
      BY <1>1, <2>2, <3>1, <3>2
  <2> QED
    BY <2>1, <2>2
<1> HIDE DEF at
<1>4. OnceEach(r)
  BY <1>1, <1>2, <1>3 DEF OnceEach
<1>5. Queued(r) = Queued(q) \ {q[i].order}
  <2>1. ASSUME NEW k \in 1..(n - 1)
        PROVE  r[k].order \in Queued(q) /\ r[k].order # q[i].order
    BY <1>1, <1>2, <1>3 DEF OnceEach, Queued
  <2>2. ASSUME NEW j \in 1..n, q[j].order # q[i].order
        PROVE  q[j].order \in Queued(r)
    <3>1. PICK k \in 1..(n - 1) : at(k) = j
      BY <1>3, <2>2
    <3> QED
      BY <1>2, <3>1 DEF Queued
  <2> QED
    BY <1>1, <1>2, <2>1, <2>2 DEF Queued
<1>6. \A k \in DOMAIN r : \E j \in DOMAIN q : r[k] = q[j]
  BY <1>1, <1>2, <1>3
<1> QED
  BY <1>2, <1>4, <1>5, <1>6 DEF r

\* Queueing an order that is not in the queue.

LEMMA AppendQueued ==
  ASSUME NEW q \in Seq(Entries), OnceEach(q), NEW e \in Entries, e.order \notin Queued(q)
  PROVE  /\ Append(q, e) \in Seq(Entries)
         /\ OnceEach(Append(q, e))
         /\ Queued(Append(q, e)) = Queued(q) \cup {e.order}
         /\ \A k \in DOMAIN Append(q, e) :
              Append(q, e)[k] = e \/ \E j \in DOMAIN q : Append(q, e)[k] = q[j]
<1> DEFINE r == Append(q, e)
           n == Len(q)
<1>1. /\ n \in Nat /\ DOMAIN q = 1..n /\ r \in Seq(Entries)
      /\ DOMAIN r = 1..(n + 1) /\ r[n + 1] = e /\ \A k \in 1..n : r[k] = q[k]
  BY AppendProperties, LenProperties
<1>2. 1..(n + 1) = (1..n) \cup {n + 1} /\ n + 1 \notin 1..n
  BY <1>1
<1> HIDE DEF r, n
<1>3. \A k \in 1..n : q[k].order # e.order
  BY <1>1 DEF Queued
<1>4. OnceEach(r)
  BY <1>1, <1>2, <1>3 DEF OnceEach
<1>5. Queued(r) = Queued(q) \cup {e.order}
  BY <1>1, <1>2 DEF Queued
<1>6. \A k \in DOMAIN r : r[k] = e \/ \E j \in DOMAIN q : r[k] = q[j]
  BY <1>1, <1>2
<1> QED
  BY <1>1, <1>4, <1>5, <1>6 DEF r

\* What an execution does to the order and to the queue: nothing where there is no
\* liquidity; else a fill, after which the order is filled or queued for the next bar.
Executed(book, o, queue, available) ==
  \/ model = "MICROSTRUCTURE" /\ available = 0 /\ orders' = book /\ pending' = queue
  \/ \E row \in Order :
       /\ orders' = [book EXCEPT ![o] = row]
       /\ row.filled > book[o].filled /\ row.created = book[o].created
       /\ \/ row.status = "FILLED" /\ pending' = queue
          \/ /\ model = "MICROSTRUCTURE"
             /\ row.status = "PARTIALLY_FILLED" /\ row.filled < row.quantity
             /\ pending' = Append(queue, Entry(o, sequence + 1))

LEMMA ExecuteOrder ==
  ASSUME Shape,
         NEW book \in Seq(Order), NEW counts, NEW o \in DOMAIN book,
         book[o].filled < book[o].quantity,
         NEW queue, NEW available \in Nat, NEW impact,
         Execute(book, counts, o, queue, available, impact)
  PROVE  Executed(book, o, queue, available)
<1> USE DEF Executed
<1> DEFINE order == book[o]
           unfilled == order.quantity - order.filled
           quantity == FillQuantity(model, unfilled, available)
           row == Traded(order, quantity)
<1>1. /\ order \in Order /\ order.filled \in Nat /\ order.quantity \in Int
      /\ order.side \in Sides /\ order.created \in Nat
  <2>1. o \in 1..Len(book) /\ Len(book) \in Nat
    BY LenProperties
  <2>2. order \in Order
    BY <2>1, ElementOfSeq
  <2> HIDE DEF order
  <2> QED
    BY <2>2 DEF Order
<1>2. unfilled \in Nat /\ unfilled > 0
  BY <1>1
<1>3. /\ quantity \in Nat /\ quantity <= unfilled
      /\ quantity <= 0 => model = "MICROSTRUCTURE" /\ available = 0
      /\ quantity < unfilled => model = "MICROSTRUCTURE"
  BY <1>2 DEF FillQuantity, Lesser
<1>4. CASE quantity <= 0
  <2>1. orders' = book /\ pending' = queue
    BY <1>4 DEF Execute
  <2> QED
    BY <1>3, <1>4, <2>1
<1>5. CASE ~(quantity <= 0)
  <2>1. /\ orders' = [book EXCEPT ![o] = row]
        /\ pending' = IF quantity < unfilled THEN Append(queue, Entry(o, sequence + 1)) ELSE queue
    BY <1>5 DEF Execute
  <2> HIDE DEF order, quantity
  <2>2. /\ row.filled = order.filled + quantity /\ row.created = order.created
        /\ row.quantity = order.quantity /\ row.side = order.side
        /\ row.status = IF order.filled + quantity >= order.quantity THEN "FILLED"
                        ELSE "PARTIALLY_FILLED"
    BY DEF Traded
  <2>3. row \in Order
    <3> DEFINE filled == order.filled + quantity
               status == IF filled >= order.quantity THEN "FILLED" ELSE "PARTIALLY_FILLED"
    <3>1. filled \in Nat
      BY <1>1, <1>3
    <3>2. status \in Executable \cup {"FILLED", "REJECTED"}
      BY DEF Executable
    <3>3. row = [side |-> order.side, quantity |-> order.quantity, filled |-> filled,
                 status |-> status, created |-> order.created]
      BY DEF Traded
    <3> HIDE DEF filled, status, row
    <3> QED
      BY <1>1, <3>1, <3>2, <3>3 DEF Order
  <2> HIDE DEF row
  <2>4. row.filled > order.filled
    BY <1>1, <1>3, <1>5, <2>2
  <2>5. CASE quantity < unfilled
    <3>1. row.status = "PARTIALLY_FILLED" /\ row.filled < row.quantity
      BY <1>1, <1>3, <2>2, <2>5
    <3>2. pending' = Append(queue, Entry(o, sequence + 1)) /\ model = "MICROSTRUCTURE"
      BY <1>3, <2>1, <2>5
    <3> QED
      BY <2>1, <2>2, <2>3, <2>4, <3>1, <3>2 DEF order
  <2>6. CASE ~(quantity < unfilled)
    <3>1. row.status = "FILLED"
      BY <1>1, <1>3, <2>2, <2>6
    <3>2. pending' = queue
      BY <2>1, <2>6
    <3> QED
      BY <2>1, <2>2, <2>3, <2>4, <3>1, <3>2 DEF order
  <2> QED
    BY <2>5, <2>6
<1> QED
  BY <1>4, <1>5

\* What a queue owes to the orders of a book, in a bar.
Owed(queue, book, bars) ==
  /\ Queued(queue) \subseteq Open(book)
  /\ OnceEach(queue)
  /\ NothingDropped => Open(book) \subseteq Queued(queue)
  /\ \A o \in DOMAIN book :
       /\ book[o].status \in Executable => book[o].filled < book[o].quantity
       /\ book[o].status = "FILLED" => book[o].filled > 0
       /\ book[o].filled > 0 => book[o].created + latency <= bars
  /\ \A i \in DOMAIN queue : OnTime(queue[i], book)

LEMMA OwedIsQueueInv ==
  QueueInv <=> Owed(pending, orders, sequence)
               /\ (phase # "due" => \A i \in DOMAIN pending : pending[i].due > sequence)
BY DEF QueueInv, Owed, QueueIsOpenOrders, OrdersAged, QueueScheduled, OnceEach

\* rest is the queue without its entry for order o.
Without(queue, o, rest) ==
  /\ queue \in Seq(Entries) /\ rest \in Seq(Entries)
  /\ o \in Queued(queue)
  /\ OnceEach(rest) /\ Queued(rest) = Queued(queue) \ {o}
  /\ \A k \in DOMAIN rest : \E j \in DOMAIN queue : rest[k] = queue[j]

\* An execution pays what is owed: what it leaves in the queue is what is left to fill.

LEMMA ExecutionOwed ==
  ASSUME Shape, NEW book \in Seq(Order), NEW counts, NEW o \in DOMAIN book,
         book[o].status \in Executable, book[o].created + latency <= sequence,
         NEW queue, NEW rest, Without(queue, o, rest), Owed(queue, book, sequence),
         NEW available \in Nat,
         model = "MICROSTRUCTURE" /\ NothingDropped => available > 0,
         NEW impact, Execute(book, counts, o, rest, available, impact),
         model' = model, latency' = latency
  PROVE  /\ Owed(pending', orders', sequence)
         /\ \A k \in DOMAIN pending' :
              pending'[k].due = sequence + 1 \/ \E j \in DOMAIN rest : pending'[k] = rest[j]
         /\ \A p \in DOMAIN book : orders'[p].filled # book[p].filled => p = o
<1> /\ queue \in Seq(Entries) /\ rest \in Seq(Entries)
    /\ o \in Queued(queue)
    /\ OnceEach(rest) /\ Queued(rest) = Queued(queue) \ {o}
    /\ \A k \in DOMAIN rest : \E j \in DOMAIN queue : rest[k] = queue[j]
  BY DEF Without
<1>1. /\ sequence \in Nat /\ latency \in Nat /\ Len(book) \in Nat /\ DOMAIN book = 1..Len(book)
      /\ \A p \in DOMAIN book : book[p] \in Order
  <2>1. sequence \in Nat /\ latency \in Nat
    BY ReplayAssumption DEF Shape
  <2>2. Len(book) \in Nat /\ DOMAIN book = 1..Len(book)
    BY LenProperties
  <2> QED
    BY <2>1, <2>2, ElementOfSeq
<1>2. /\ Queued(queue) \subseteq Open(book)
      /\ NothingDropped => Open(book) \subseteq Queued(queue)
      /\ \A p \in DOMAIN book :
           /\ book[p].status \in Executable => book[p].filled < book[p].quantity
           /\ book[p].status = "FILLED" => book[p].filled > 0
           /\ book[p].filled > 0 => book[p].created + latency <= sequence
      /\ \A i \in DOMAIN queue : OnTime(queue[i], book)
  BY DEF Owed
<1>3. book[o].filled < book[o].quantity
  BY <1>2
<1>4. CASE model = "MICROSTRUCTURE" /\ available = 0 /\ orders' = book /\ pending' = rest
  <2>1. ~NothingDropped
    BY <1>4
  <2>2. \A k \in DOMAIN rest : OnTime(rest[k], book)
    BY <1>2
  <2>3. Queued(rest) \subseteq Open(book)
    BY <1>2
  <2>4. Owed(rest, book, sequence)
    BY <1>2, <2>1, <2>2, <2>3 DEF Owed
  <2> QED
    BY <1>4, <2>4
<1>5. ASSUME NEW row \in Order,
             orders' = [book EXCEPT ![o] = row],
             row.filled > book[o].filled, row.created = book[o].created,
             \/ row.status = "FILLED" /\ pending' = rest
             \/ /\ model = "MICROSTRUCTURE"
                /\ row.status = "PARTIALLY_FILLED" /\ row.filled < row.quantity
                /\ pending' = Append(rest, Entry(o, sequence + 1))
      PROVE  /\ Owed(pending', orders', sequence)
             /\ \A k \in DOMAIN pending' :
                  pending'[k].due = sequence + 1 \/ \E j \in DOMAIN rest : pending'[k] = rest[j]
             /\ \A p \in DOMAIN book : orders'[p].filled # book[p].filled => p = o
  <2>1. /\ DOMAIN orders' = DOMAIN book /\ orders'[o] = row
        /\ \A p \in DOMAIN book : p # o => orders'[p] = book[p]
        /\ \A p \in DOMAIN book : orders'[p].created = book[p].created
    BY <1>5
  <2>2. row.filled > 0
    BY <1>1, <1>5 DEF Order
  <2>3. \A p \in DOMAIN orders' :
          /\ orders'[p].status \in Executable => orders'[p].filled < orders'[p].quantity
          /\ orders'[p].status = "FILLED" => orders'[p].filled > 0
          /\ orders'[p].filled > 0 => orders'[p].created + latency <= sequence
    <3> SUFFICES ASSUME NEW p \in DOMAIN book
                 PROVE  /\ orders'[p].status \in Executable =>
                             orders'[p].filled < orders'[p].quantity
                        /\ orders'[p].status = "FILLED" => orders'[p].filled > 0
                        /\ orders'[p].filled > 0 => orders'[p].created + latency <= sequence
      BY <2>1
    <3>1. CASE p # o
      BY <1>2, <2>1, <3>1
    <3>2. CASE p = o
      BY <1>5, <2>1, <2>2, <3>2 DEF Executable
    <3> QED
      BY <3>1, <3>2
  <2>4. \A k \in DOMAIN rest : OnTime(rest[k], orders')
    <3> SUFFICES ASSUME NEW k \in DOMAIN rest
                 PROVE  OnTime(rest[k], orders')
      OBVIOUS
    <3>1. PICK j \in DOMAIN queue : rest[k] = queue[j]
      OBVIOUS
    <3>2. OnTime(rest[k], book) /\ rest[k].order \in DOMAIN book
      BY <1>2, <3>1 DEF Queued, Open
    <3> QED
      BY <2>1, <3>2 DEF OnTime
  <2>5. CASE row.status = "FILLED" /\ pending' = rest
    <3>1. Open(orders') = Open(book) \ {o}
      BY <2>1, <2>5 DEF Open, Executable
    <3>2. Owed(rest, orders', sequence)
      BY <1>2, <2>3, <2>4, <3>1 DEF Owed
    <3> QED
      BY <2>1, <2>5, <3>2
  <2>6. CASE /\ model = "MICROSTRUCTURE"
             /\ row.status = "PARTIALLY_FILLED" /\ row.filled < row.quantity
             /\ pending' = Append(rest, Entry(o, sequence + 1))
    <3> DEFINE e == Entry(o, sequence + 1)
    <3>1. e \in Entries /\ e.order = o /\ e.due = sequence + 1
      BY <1>1 DEF Entry, Entries
    <3> HIDE DEF e
    <3>2. Open(orders') = Open(book)
      BY <2>1, <2>6 DEF Open, Executable
    <3>3. /\ pending' \in Seq(Entries) /\ OnceEach(pending')
          /\ Queued(pending') = Queued(queue)
          /\ \A k \in DOMAIN pending' :
               pending'[k] = e \/ \E j \in DOMAIN rest : pending'[k] = rest[j]
      <4>1. pending' = Append(rest, e)
        BY <2>6 DEF e
      <4>2. e.order \notin Queued(rest) /\ Queued(rest) \cup {e.order} = Queued(queue)
        BY <3>1
      <4>3. /\ rest \in Seq(Entries) /\ OnceEach(rest) /\ e \in Entries
            /\ e.order \notin Queued(rest)
        BY <3>1, <4>2
      <4>4. /\ Append(rest, e) \in Seq(Entries) /\ OnceEach(Append(rest, e))
            /\ Queued(Append(rest, e)) = Queued(rest) \cup {e.order}
            /\ \A k \in DOMAIN Append(rest, e) :
                 Append(rest, e)[k] = e \/ \E j \in DOMAIN rest : Append(rest, e)[k] = rest[j]
        BY ONLY <4>3, AppendQueued
      <4> QED
        BY <4>1, <4>2, <4>4
    <3>4. OnTime(e, orders')
      BY <1>1, <1>5, <2>1, <2>6, <3>1 DEF OnTime, Order
    <3>5. \A k \in DOMAIN pending' : OnTime(pending'[k], orders')
      BY <2>4, <3>3, <3>4
    <3>6. Owed(pending', orders', sequence)
      BY <1>2, <2>3, <3>2, <3>3, <3>5 DEF Owed
    <3> QED
      BY <2>1, <3>1, <3>3, <3>6
  <2> QED
    BY <1>5, <2>5, <2>6
<1>6. /\ Shape /\ book \in Seq(Order) /\ o \in DOMAIN book /\ available \in Nat
      /\ book[o].filled < book[o].quantity
      /\ Execute(book, counts, o, rest, available, impact)
  BY <1>3
<1>7. Executed(book, o, rest, available)
  BY ONLY <1>6, ExecuteOrder
<1> QED
  BY <1>4, <1>5, <1>7 DEF Executed

\* A submitted order that waits for its latency is owed.

LEMMA SubmittedOwed ==
  ASSUME Shape, QueueInv, NEW row \in Order, row.status = "SUBMITTED", row.filled = 0,
         row.quantity > 0, row.created = sequence,
         NEW last, last = Len(orders) + 1, NEW e, e = Entry(last, sequence + latency)
  PROVE  /\ Append(orders, row) \in Seq(Order) /\ last \in DOMAIN Append(orders, row)
         /\ Append(orders, row)[last] = row
         /\ DOMAIN orders \subseteq DOMAIN Append(orders, row) \ {last}
         /\ \A o \in DOMAIN orders : Append(orders, row)[o] = orders[o]
         /\ Append(pending, e) \in Seq(Entries) /\ pending \in Seq(Entries)
         /\ Owed(Append(pending, e), Append(orders, row), sequence)
         /\ OnceEach(pending) /\ last \in Queued(Append(pending, e))
         /\ Queued(pending) = Queued(Append(pending, e)) \ {last}
         /\ \A k \in DOMAIN pending :
              \E j \in DOMAIN Append(pending, e) : pending[k] = Append(pending, e)[j]
         /\ \A k \in DOMAIN Append(pending, e) :
              Append(pending, e)[k] = e \/ \E j \in DOMAIN pending : Append(pending, e)[k] = pending[j]
<1> DEFINE book == Append(orders, row)
           queue == Append(pending, e)
<1>1. /\ orders \in Seq(Order) /\ pending \in Seq(Entries) /\ sequence \in Nat /\ latency \in Nat
  BY ReplayAssumption DEF Shape, Entries
<1>2. /\ book \in Seq(Order) /\ Len(orders) \in Nat /\ DOMAIN orders = 1..Len(orders)
      /\ DOMAIN book = 1..last /\ book[last] = row
      /\ \A o \in 1..Len(orders) : book[o] = orders[o]
  BY <1>1, AppendProperties, LenProperties
<1>3. 1..last = (1..Len(orders)) \cup {last} /\ last \notin 1..Len(orders) /\ last \in Nat
  BY <1>2
<1>4. e \in Entries /\ e.order = last /\ e.due = sequence + latency
  BY <1>1, <1>3 DEF Entry, Entries
<1>5. Owed(pending, orders, sequence)
  BY OwedIsQueueInv
<1>6. OnceEach(pending) /\ Queued(pending) \subseteq 1..Len(orders) /\ e.order \notin Queued(pending)
  BY <1>2, <1>3, <1>4, <1>5 DEF Owed, Open
<1>7. /\ queue \in Seq(Entries) /\ OnceEach(queue)
      /\ Queued(queue) = Queued(pending) \cup {last}
      /\ \A k \in DOMAIN queue : queue[k] = e \/ \E j \in DOMAIN pending : queue[k] = pending[j]
  BY ONLY <1>1, <1>4, <1>6, AppendQueued
<1>8. \A k \in DOMAIN pending : \E j \in DOMAIN queue : pending[k] = queue[j]
  <2>1. /\ Len(pending) \in Nat /\ DOMAIN pending = 1..Len(pending)
        /\ DOMAIN queue = 1..(Len(pending) + 1)
        /\ \A k \in 1..Len(pending) : queue[k] = pending[k]
    BY <1>1, <1>4, AppendProperties, LenProperties
  <2> QED
    BY <2>1
<1> HIDE DEF book, queue
<1>9. Open(book) = Open(orders) \cup {last}
  BY <1>2, <1>3 DEF Open, Executable
<1>10. \A o \in DOMAIN book :
         /\ book[o].status \in Executable => book[o].filled < book[o].quantity
         /\ book[o].status = "FILLED" => book[o].filled > 0
         /\ book[o].filled > 0 => book[o].created + latency <= sequence
  <2> SUFFICES ASSUME NEW o \in 1..last
               PROVE  /\ book[o].status \in Executable => book[o].filled < book[o].quantity
                      /\ book[o].status = "FILLED" => book[o].filled > 0
                      /\ book[o].filled > 0 => book[o].created + latency <= sequence
    BY <1>2
  <2>1. CASE o = last
    BY <1>2, <2>1
  <2>2. CASE o # last
    BY <1>2, <1>3, <1>5, <2>2 DEF Owed
  <2> QED
    BY <2>1, <2>2
<1>11. \A k \in DOMAIN queue : OnTime(queue[k], book)
  <2> SUFFICES ASSUME NEW k \in DOMAIN queue
               PROVE  OnTime(queue[k], book)
    OBVIOUS
  <2>1. CASE queue[k] = e
    BY <1>1, <1>2, <1>4, <2>1 DEF OnTime
  <2>2. ASSUME NEW j \in DOMAIN pending, queue[k] = pending[j]
        PROVE  OnTime(queue[k], book)
    <3>1. OnTime(pending[j], orders) /\ pending[j].order \in 1..Len(orders)
      BY <1>5, <1>6 DEF Owed, Queued
    <3> QED
      BY <1>2, <2>2, <3>1 DEF OnTime
  <2> QED
    BY <1>7, <2>1, <2>2
<1>12. Owed(queue, book, sequence)
  BY <1>5, <1>7, <1>9, <1>10, <1>11 DEF Owed
<1>13. Queued(pending) = Queued(queue) \ {last} /\ last \in Queued(queue)
  BY <1>4, <1>6, <1>7
<1> QED
  BY <1>1, <1>2, <1>3, <1>6, <1>7, <1>8, <1>12, <1>13 DEF book, queue

\* no order trades before its latency, or once it is filled or rejected
TradesOnTime ==
  \A o \in DOMAIN orders :
    orders'[o].filled # orders[o].filled =>
      sequence >= orders[o].created + latency /\ orders[o].status \in Executable

LEMMA QueueInit == Init => QueueInv
<1> SUFFICES ASSUME Init
             PROVE  QueueInv
  OBVIOUS
<1>1. pending = <<>> /\ orders = <<>> /\ phase = "next"
  BY DEF Init
<1>2. DOMAIN pending = {} /\ DOMAIN orders = {}
  BY <1>1
<1> QED
  BY <1>2 DEF QueueInv, QueueIsOpenOrders, OrdersAged, QueueScheduled, Queued, Open

\* Steps that execute nothing: the queue waits, and a rejected order is not queued.

LEMMA QueueWaits ==
  ASSUME ReplayInv, QueueInv, model' = model, latency' = latency, pending' = pending,
         sequence' \in Nat, sequence' >= sequence,
         phase' # "due" => \A i \in DOMAIN pending : pending[i].due > sequence',
         \/ orders' = orders
         \/ \E row \in Order : row.status = "REJECTED" /\ row.filled = 0
                               /\ orders' = Append(orders, row)
  PROVE  QueueInv' /\ TradesOnTime
<1>1. /\ orders \in Seq(Order) /\ pending \in Seq(Entries) /\ sequence \in Nat /\ latency \in Nat
      /\ Owed(pending, orders, sequence)
  BY ReplayAssumption, OwedIsQueueInv DEF ReplayInv, Shape, Entries
<1>2. /\ DOMAIN orders \subseteq DOMAIN orders'
      /\ \A o \in DOMAIN orders : orders'[o] = orders[o]
      /\ \A o \in DOMAIN orders' \ DOMAIN orders :
           orders'[o].status = "REJECTED" /\ orders'[o].filled = 0
  <2>1. CASE orders' = orders
    BY <2>1
  <2>2. ASSUME NEW row \in Order, row.status = "REJECTED", row.filled = 0,
               orders' = Append(orders, row)
        PROVE  /\ DOMAIN orders \subseteq DOMAIN orders'
               /\ \A o \in DOMAIN orders : orders'[o] = orders[o]
               /\ \A o \in DOMAIN orders' \ DOMAIN orders :
                    orders'[o].status = "REJECTED" /\ orders'[o].filled = 0
    <3>1. /\ Len(orders) \in Nat /\ DOMAIN orders = 1..Len(orders)
          /\ DOMAIN orders' = 1..(Len(orders) + 1) /\ orders'[Len(orders) + 1] = row
          /\ \A o \in 1..Len(orders) : orders'[o] = orders[o]
      BY <1>1, <2>2, AppendProperties, LenProperties
    <3>2. 1..(Len(orders) + 1) = (1..Len(orders)) \cup {Len(orders) + 1}
      BY <3>1
    <3> QED
      BY ONLY <2>2, <3>1, <3>2
  <2> QED
    BY <2>1, <2>2
<1>3. \A o \in DOMAIN orders : orders[o].created \in Nat
  <2>1. \A o \in DOMAIN orders : orders[o] \in Order
    BY <1>1, ElementOfSeq, LenProperties
  <2> QED
    BY <2>1 DEF Order
<1>4. Open(orders') = Open(orders)
  BY <1>2 DEF Open, Executable
<1>5. \A o \in DOMAIN orders' :
        /\ orders'[o].status \in Executable => orders'[o].filled < orders'[o].quantity
        /\ orders'[o].status = "FILLED" => orders'[o].filled > 0
        /\ orders'[o].filled > 0 => orders'[o].created + latency <= sequence'
  <2> SUFFICES ASSUME NEW o \in DOMAIN orders'
               PROVE  /\ orders'[o].status \in Executable => orders'[o].filled < orders'[o].quantity
                      /\ orders'[o].status = "FILLED" => orders'[o].filled > 0
                      /\ orders'[o].filled > 0 => orders'[o].created + latency <= sequence'
    OBVIOUS
  <2>1. CASE o \in DOMAIN orders
    BY <1>1, <1>2, <1>3, <2>1 DEF Owed
  <2>2. CASE o \notin DOMAIN orders
    BY <1>2, <2>2 DEF Executable
  <2> QED
    BY <2>1, <2>2
<1>6. \A i \in DOMAIN pending : OnTime(pending[i], orders')
  <2>1. \A i \in DOMAIN pending : OnTime(pending[i], orders) /\ pending[i].order \in DOMAIN orders
    BY <1>1 DEF Owed, Queued, Open
  <2> QED
    BY <1>2, <2>1 DEF OnTime
<1>7. Owed(pending, orders', sequence')
  BY <1>1, <1>4, <1>5, <1>6 DEF Owed
<1>8. Owed(pending, orders', sequence')
        /\ (phase' # "due" => \A i \in DOMAIN pending : pending[i].due > sequence') => QueueInv'
  BY DEF QueueInv, Owed, QueueIsOpenOrders, OrdersAged, QueueScheduled, OnceEach, OnTime,
         NothingDropped
<1> QED
  BY <1>2, <1>7, <1>8 DEF TradesOnTime

\* What a step that leaves the model and the latency has to show.

LEMMA QueueKept ==
  ASSUME model' = model, latency' = latency, sequence' = sequence,
         Owed(pending', orders', sequence),
         phase' # "due" => \A i \in DOMAIN pending' : pending'[i].due > sequence
  PROVE  QueueInv'
BY DEF QueueInv, Owed, QueueIsOpenOrders, OrdersAged, QueueScheduled, OnceEach, OnTime,
       NothingDropped

\* The entry taken out of the queue, and what is left of it.

LEMMA DueEntry ==
  ASSUME ReplayInv, QueueInv, NEW i \in DOMAIN pending, NEW o, o = pending[i].order,
         NEW rest, rest = RemoveAt(pending, i)
  PROVE  /\ Shape /\ orders \in Seq(Order) /\ pending \in Seq(Entries) /\ rest \in Seq(Entries)
         /\ Owed(pending, orders, sequence)
         /\ o \in DOMAIN orders /\ o \in Nat /\ orders[o].status \in Executable
         /\ o \in Queued(pending)
         /\ OnceEach(rest) /\ Queued(rest) = Queued(pending) \ {o}
         /\ \A k \in DOMAIN rest : \E j \in DOMAIN pending : rest[k] = pending[j]
         /\ orders[o].created \in Nat /\ pending[i].due \in Nat
         /\ OnTime(pending[i], orders)
<1>1. /\ Shape /\ orders \in Seq(Order) /\ pending \in Seq(Entries)
      /\ Owed(pending, orders, sequence)
  BY OwedIsQueueInv DEF ReplayInv, Shape, Entries
<1>2. o \in Queued(pending)
  BY DEF Queued
<1>3. o \in DOMAIN orders /\ orders[o].status \in Executable /\ OnTime(pending[i], orders)
  BY <1>1, <1>2 DEF Owed, Open
<1>4. OnceEach(pending)
  BY <1>1 DEF Owed
<1>5. /\ rest \in Seq(Entries) /\ OnceEach(rest)
      /\ Queued(rest) = Queued(pending) \ {o}
      /\ \A k \in DOMAIN rest : \E j \in DOMAIN pending : rest[k] = pending[j]
  BY <1>1, <1>4, RemoveQueued
<1>6. orders[o] \in Order /\ pending[i] \in Entries
  BY <1>1, <1>3, ElementOfSeq, LenProperties
<1>7. orders[o].created \in Nat /\ pending[i].due \in Nat /\ o \in Nat
  BY <1>6 DEF Order, Entries
<1> QED
  BY <1>1, <1>2, <1>3, <1>5, <1>7

LEMMA ExecuteDueQueue ==
  ASSUME ReplayInv, QueueInv, NEW i \in DOMAIN pending, ExecuteDue(i)
  PROVE  QueueInv' /\ TradesOnTime
<1> DEFINE o == pending[i].order
           rest == RemoveAt(pending, i)
<1>1. PICK impact \in ImpactsOf(model) : Execute(orders, metrics, o, rest, remaining, impact)
  BY DEF ExecuteDue
<1>2. /\ phase' = "due" /\ model' = model /\ latency' = latency /\ sequence' = sequence
      /\ pending[i].due <= sequence
      /\ model = "MICROSTRUCTURE" => remaining > 0
  BY DEF ExecuteDue, IsFirstDue, Due
<1>3. /\ Shape /\ orders \in Seq(Order) /\ pending \in Seq(Entries) /\ rest \in Seq(Entries)
      /\ Owed(pending, orders, sequence)
      /\ o \in DOMAIN orders /\ orders[o].status \in Executable
      /\ o \in Queued(pending)
      /\ OnceEach(rest) /\ Queued(rest) = Queued(pending) \ {o}
      /\ \A k \in DOMAIN rest : \E j \in DOMAIN pending : rest[k] = pending[j]
      /\ orders[o].created \in Nat /\ pending[i].due \in Nat
      /\ OnTime(pending[i], orders)
  BY DueEntry
<1> HIDE DEF rest
<1>4. remaining \in Nat /\ sequence \in Nat /\ latency \in Nat
  BY <1>3, ReplayAssumption DEF Shape
<1>5. orders[o].created + latency <= sequence
  BY <1>2, <1>3, <1>4 DEF OnTime
<1> HIDE DEF o
<1>6. /\ Without(pending, o, rest)
      /\ model = "MICROSTRUCTURE" /\ NothingDropped => remaining > 0
  BY <1>2, <1>3 DEF Without
<1>7. /\ Owed(pending', orders', sequence)
      /\ \A p \in DOMAIN orders : orders'[p].filled # orders[p].filled => p = o
  BY ONLY <1>1, <1>2, <1>3, <1>4, <1>5, <1>6, ExecutionOwed
<1>8. QueueInv'
  BY <1>2, <1>7, QueueKept
<1>9. TradesOnTime
  BY <1>3, <1>4, <1>5, <1>7 DEF TradesOnTime
<1> QED
  BY <1>8, <1>9

LEMMA PostponeQueue ==
  ASSUME ReplayInv, QueueInv, NEW i \in DOMAIN pending, Postpone(i)
  PROVE  QueueInv' /\ TradesOnTime
<1> DEFINE o == pending[i].order
           rest == RemoveAt(pending, i)
           e == Entry(o, sequence + 1)
<1>1. /\ phase' = "due" /\ model' = model /\ latency' = latency /\ sequence' = sequence
      /\ orders' = orders /\ pending' = Append(rest, e)
      /\ model = "MICROSTRUCTURE" /\ pending[i].due <= sequence
  BY DEF Postpone, IsFirstDue, Due
<1>2. /\ Shape /\ rest \in Seq(Entries)
      /\ Owed(pending, orders, sequence)
      /\ o \in DOMAIN orders /\ o \in Nat /\ o \in Queued(pending)
      /\ OnceEach(rest) /\ Queued(rest) = Queued(pending) \ {o}
      /\ \A k \in DOMAIN rest : \E j \in DOMAIN pending : rest[k] = pending[j]
      /\ orders[o].created \in Nat /\ pending[i].due \in Nat
      /\ OnTime(pending[i], orders)
  BY DueEntry
<1> HIDE DEF rest
<1>3. sequence \in Nat /\ latency \in Nat
  BY <1>2, ReplayAssumption DEF Shape
<1>4. e \in Entries /\ e.order = o /\ e.due = sequence + 1
  BY <1>2, <1>3 DEF Entry, Entries
<1>5. OnTime(e, orders)
  BY <1>1, <1>2, <1>3, <1>4 DEF OnTime
<1> HIDE DEF o, e
<1>6. e.order \notin Queued(rest) /\ Queued(rest) \cup {e.order} = Queued(pending)
  BY <1>2, <1>4
<1>7. /\ OnceEach(Append(rest, e))
      /\ Queued(Append(rest, e)) = Queued(rest) \cup {e.order}
      /\ \A k \in DOMAIN Append(rest, e) :
           Append(rest, e)[k] = e \/ \E j \in DOMAIN rest : Append(rest, e)[k] = rest[j]
  BY ONLY <1>2, <1>4, <1>6, AppendQueued
<1>8. \A k \in DOMAIN pending' : OnTime(pending'[k], orders)
  <2>1. \A k \in DOMAIN rest : OnTime(rest[k], orders)
    BY <1>2 DEF Owed
  <2> QED
    BY <1>1, <1>5, <1>7, <2>1
<1>9. Owed(pending', orders', sequence)
  BY <1>1, <1>2, <1>6, <1>7, <1>8 DEF Owed
<1> QED
  BY <1>1, <1>9, QueueKept DEF TradesOnTime

\* Between bars what is queued is not due yet.

LEMMA NothingDue ==
  ASSUME ReplayInv, Due = {}
  PROVE  \A i \in DOMAIN pending : pending[i].due > sequence
<1>1. pending \in Seq(Entries) /\ sequence \in Nat
  BY DEF ReplayInv, Shape, Entries
<1>2. \A i \in DOMAIN pending : pending[i] \in Entries
  BY <1>1, ElementOfSeq, LenProperties
<1> QED
  BY <1>1, <1>2 DEF Due, Entries

\* The order of a signal that passes the risk check.

LEMMA SignalPasses ==
  ASSUME ReplayInv, phase = "due", NEW trend, Passes(SignalRow(trend)), NEW row, row = SignalRow(trend)
  PROVE  /\ row \in Order /\ row.status = "SUBMITTED" /\ row.filled = 0
         /\ row.quantity > 0 /\ row.created = sequence
<1>1. row \in Order /\ row.filled = 0
  BY SignalRowType DEF ReplayInv
<1>2. row.status = "SUBMITTED" /\ row.created = sequence
  BY DEF SignalRow, Row
<1>3. row.quantity > 0
  BY DEF Passes, Accepted
<1> QED
  BY <1>1, <1>2, <1>3

LEMMA DeferQueue ==
  ASSUME ReplayInv, QueueInv, NEW trend, Defer(trend)
  PROVE  QueueInv' /\ TradesOnTime
<1> DEFINE row == SignalRow(trend)
           last == Len(orders) + 1
           e == Entry(last, sequence + latency)
<1>1. /\ phase = "due" /\ Due = {} /\ phase' = "next" /\ latency > 0 /\ Passes(row)
      /\ orders' = Append(orders, row) /\ pending' = Append(pending, Entry(Len(orders'), sequence + latency))
      /\ model' = model /\ latency' = latency /\ sequence' = sequence
  BY DEF Defer, EndBar
<1>2. /\ row \in Order /\ row.status = "SUBMITTED" /\ row.filled = 0
      /\ row.quantity > 0 /\ row.created = sequence
  BY <1>1, SignalPasses
<1> HIDE DEF row
<1>3. Shape /\ sequence \in Nat /\ latency \in Nat /\ orders \in Seq(Order)
  BY ReplayAssumption DEF ReplayInv, Shape
<1>4. Len(orders') = last
  BY <1>1, <1>2, <1>3, AppendProperties
<1>5. pending' = Append(pending, e)
  BY <1>1, <1>4
<1>6. e.due = sequence + latency
  BY DEF Entry
<1> HIDE DEF last, e
<1>7. /\ Owed(Append(pending, e), Append(orders, row), sequence)
      /\ \A o \in DOMAIN orders : Append(orders, row)[o] = orders[o]
      /\ \A k \in DOMAIN Append(pending, e) :
           Append(pending, e)[k] = e \/ \E j \in DOMAIN pending : Append(pending, e)[k] = pending[j]
  BY <1>2, <1>3, SubmittedOwed DEF last, e
<1>8. \A k \in DOMAIN pending' : pending'[k].due > sequence
  <2>1. e.due > sequence
    BY <1>1, <1>3, <1>6
  <2>2. \A j \in DOMAIN pending : pending[j].due > sequence
    BY <1>1, NothingDue
  <2> QED
    BY <1>5, <1>7, <2>1, <2>2
<1>9. QueueInv'
  BY <1>1, <1>5, <1>7, <1>8, QueueKept
<1> QED
  BY <1>1, <1>7, <1>9 DEF TradesOnTime

LEMMA FillAtOnceQueue ==
  ASSUME ReplayInv, QueueInv, NEW trend, FillAtOnce(trend)
  PROVE  QueueInv' /\ TradesOnTime
<1> DEFINE row == SignalRow(trend)
           book == Append(orders, row)
           last == Len(orders) + 1
           e == Entry(last, sequence + latency)
           queue == Append(pending, e)
           counts == Submitted(row)
           available == bar.liquidity
<1>1. PICK impact \in ImpactsOf(model) :
        Execute(book, counts, last, pending, available, impact)
  BY DEF FillAtOnce
<1>2. /\ phase = "due" /\ Due = {} /\ phase' = "next" /\ latency = 0 /\ Passes(row)
      /\ model' = model /\ latency' = latency /\ sequence' = sequence
  BY DEF FillAtOnce, EndBar
<1>3. /\ row \in Order /\ row.status = "SUBMITTED" /\ row.filled = 0
      /\ row.quantity > 0 /\ row.created = sequence
  BY <1>2, SignalPasses
<1> HIDE DEF row
<1>4. Shape /\ sequence \in Nat /\ latency \in Nat /\ available \in Nat
  BY ReplayAssumption DEF ReplayInv, Shape
<1>5. /\ book \in Seq(Order) /\ last \in DOMAIN book /\ book[last] = row
      /\ DOMAIN orders \subseteq DOMAIN book \ {last}
      /\ \A o \in DOMAIN orders : book[o] = orders[o]
      /\ queue \in Seq(Entries) /\ pending \in Seq(Entries)
      /\ Owed(queue, book, sequence)
      /\ OnceEach(pending) /\ last \in Queued(queue)
      /\ Queued(pending) = Queued(queue) \ {last}
      /\ \A k \in DOMAIN pending : \E j \in DOMAIN queue : pending[k] = queue[j]
  BY <1>3, <1>4, SubmittedOwed
<1> HIDE DEF book, last, e, queue, counts
<1>6. /\ Shape /\ book \in Seq(Order) /\ last \in DOMAIN book /\ available \in Nat
      /\ Owed(queue, book, sequence) /\ model' = model /\ latency' = latency
      /\ Execute(book, counts, last, pending, available, impact)
      /\ book[last].status \in Executable /\ book[last].created + latency <= sequence
      /\ Without(queue, last, pending)
      /\ model = "MICROSTRUCTURE" /\ NothingDropped => available > 0
  BY <1>1, <1>2, <1>3, <1>4, <1>5 DEF Executable, NothingDropped, Without
<1> HIDE DEF available
<1>7. /\ Owed(pending', orders', sequence)
      /\ \A k \in DOMAIN pending' :
           pending'[k].due = sequence + 1 \/ \E j \in DOMAIN pending : pending'[k] = pending[j]
      /\ \A p \in DOMAIN book : orders'[p].filled # book[p].filled => p = last
  BY ONLY <1>6, ExecutionOwed
<1>8. \A k \in DOMAIN pending' : pending'[k].due > sequence
  <2>1. \A j \in DOMAIN pending : pending[j].due > sequence
    BY <1>2, NothingDue
  <2> QED
    BY <1>4, <1>7, <2>1
<1>9. QueueInv'
  BY <1>2, <1>7, <1>8, QueueKept
<1>10. \A o \in DOMAIN orders : orders'[o].filled = orders[o].filled
  BY <1>5, <1>7
<1> QED
  BY <1>9, <1>10 DEF TradesOnTime

\* Every step keeps the queue and trades on time.

LEMMA QueueStep == ReplayInv /\ QueueInv /\ [Next]_vars => QueueInv' /\ TradesOnTime
<1> SUFFICES ASSUME ReplayInv, QueueInv, [Next]_vars
             PROVE  QueueInv' /\ TradesOnTime
  OBVIOUS
<1>1. sequence \in Nat /\ (phase # "due" => \A i \in DOMAIN pending : pending[i].due > sequence)
  BY DEF ReplayInv, Shape, QueueInv, QueueScheduled
<1>2. CASE NextBar
  <2>1. /\ model' = model /\ latency' = latency /\ pending' = pending /\ orders' = orders
        /\ sequence' = sequence + 1 /\ phase' = "due"
    BY <1>2 DEF NextBar
  <2> QED
    BY <1>1, <2>1, QueueWaits
<1>3. CASE Complete \/ UNCHANGED vars
  <2>1. /\ model' = model /\ latency' = latency /\ pending' = pending /\ orders' = orders
        /\ sequence' = sequence /\ (phase' # "due" => phase # "due")
    BY <1>3 DEF Complete, vars
  <2> QED
    BY <1>1, <2>1, QueueWaits
<1>4. ASSUME NEW trend, Hold(trend) \/ Reject(trend)
      PROVE  QueueInv' /\ TradesOnTime
  <2>1. /\ model' = model /\ latency' = latency /\ pending' = pending /\ sequence' = sequence
        /\ phase = "due" /\ Due = {}
    BY <1>4 DEF Hold, Reject, EndBar
  <2>2. \A i \in DOMAIN pending : pending[i].due > sequence'
    BY <2>1, NothingDue
  <2>3. CASE Hold(trend)
    <3>1. orders' = orders
      BY <2>3 DEF Hold
    <3> QED
      BY <1>1, <2>1, <2>2, <3>1, QueueWaits
  <2>4. CASE Reject(trend)
    <3> DEFINE row == [SignalRow(trend) EXCEPT !.status = "REJECTED"]
    <3>1. orders' = Append(orders, row)
      BY <2>4 DEF Reject
    <3>2. SignalRow(trend) \in Order /\ SignalRow(trend).filled = 0
      BY <2>1, SignalRowType DEF ReplayInv
    <3>3. row \in Order /\ row.status = "REJECTED" /\ row.filled = 0
      BY <3>2 DEF Order
    <3> HIDE DEF row
    <3>4. /\ sequence' \in Nat /\ sequence' >= sequence
          /\ \E r \in Order : r.status = "REJECTED" /\ r.filled = 0
                               /\ orders' = Append(orders, r)
      BY <1>1, <2>1, <3>1, <3>3
    <3> QED
      BY ONLY ReplayInv, QueueInv, <2>1, <2>2, <3>4, QueueWaits
  <2> QED
    BY <1>4, <2>3, <2>4
<1>5. ASSUME NEW i \in DOMAIN pending, ExecuteDue(i) \/ Postpone(i)
      PROVE  QueueInv' /\ TradesOnTime
  BY <1>5, ExecuteDueQueue, PostponeQueue
<1>6. ASSUME NEW trend, Defer(trend) \/ FillAtOnce(trend)
      PROVE  QueueInv' /\ TradesOnTime
  BY <1>6, DeferQueue, FillAtOnceQueue
<1> QED
  BY <1>2, <1>3, <1>4, <1>5, <1>6 DEF Next, Completed

\* What is queued, what is filled of each order and when entries are due agree.

THEOREM QueueInductive == Spec => []QueueInv
<1>1. Init => QueueInv
  BY QueueInit
<1>2. ReplayInv /\ QueueInv /\ [Next]_vars => QueueInv'
  BY QueueStep
<1> QED
  BY <1>1, <1>2, ReplayInductive, PTL DEF Spec

\* The queue holds every order at most once and only open ones, and all of them unless an

\* order without latency may meet a bar without liquidity.
THEOREM NoOrderIsLost == Spec => []QueueIsOpenOrders
<1>1. QueueInv => QueueIsOpenOrders
  BY DEF QueueInv
<1> QED
  BY <1>1, QueueInductive, PTL

\* Without a liquidity limit an accepted order is filled exactly latency_bars after its signal.

THEOREM FillsAreOnTime == Spec => []FilledOnTime
<1>1. ReplayInv /\ QueueInv => FilledOnTime
  <2> SUFFICES ASSUME ReplayInv, QueueInv, phase = "next", model # "MICROSTRUCTURE",
                      NEW o \in DOMAIN orders, orders[o].status # "REJECTED"
               PROVE  orders[o].status = "FILLED" <=> orders[o].created + latency <= sequence
    BY DEF FilledOnTime
  <2>1. sequence \in Nat /\ orders \in Seq(Order) /\ pending \in Seq(Entries)
    BY DEF ReplayInv, Shape, Entries
  <2>2. orders[o] \in Order
    BY <2>1, ElementOfSeq, LenProperties
  <2>3. CASE orders[o].status = "FILLED"
    BY <2>3 DEF QueueInv, OrdersAged
  <2>4. CASE orders[o].status # "FILLED"
    <3>1. orders[o].status \in Executable
      BY <2>2, <2>4 DEF Order
    <3>2. NothingDropped
      BY DEF NothingDropped
    <3>3. PICK i \in DOMAIN pending : pending[i].order = o
      BY <3>1, <3>2 DEF QueueInv, QueueIsOpenOrders, Open, Queued
    <3>4. pending[i].due = orders[o].created + latency /\ pending[i].due > sequence
      BY <3>3 DEF QueueInv, QueueScheduled, OnTime
    <3>5. pending[i] \in Entries
      BY <2>1, ElementOfSeq, LenProperties
    <3>6. ~(orders[o].created + latency <= sequence)
      BY <2>1, <3>4, <3>5 DEF Entries
    <3> QED
      BY <2>4, <3>6
  <2> QED
    BY <2>3, <2>4
<1> QED
  BY <1>1, ReplayInductive, QueueInductive, PTL

\* No order trades before its latency has passed, and a rejected or filled one never again.

THEOREM NoOrderLooksAhead == Spec => NoLookahead
<1>1. ReplayInv /\ QueueInv /\ [Next]_vars =>
        [\A o \in DOMAIN orders :
           orders'[o].filled # orders[o].filled =>
             sequence >= orders[o].created + latency /\ orders[o].status \in Executable]_vars
  BY QueueStep DEF TradesOnTime
<1> QED
  BY <1>1, ReplayInductive, QueueInductive, PTL DEF Spec, NoLookahead

-----------------------------------------------------------------------------
(* What the risk engine checked at the open, once the order has traded.    *)

\* The rates the schema leaves unbounded (it only asks them to be at least 0): above 100%
\* a sale costs more than it brings in.
UsualRates == CommissionPct <= 100 /\ SlippagePct <= 100

\* An accepted order filled at once and ideally leaves cash and position within the limits.

LEMMA IdealFill ==
  ASSUME UsualRates,
         NEW p \in Account, p.cash >= 0, p.quantity <= MaxPosition,
         NEW side \in Sides, NEW quantity \in Nat, NEW open \in Nat, NEW duplicate,
         Accepted(p, side, quantity, open, duplicate),
         NEW fill, fill = Fill(side, quantity, FillPrice("IDEAL", side, open, 0))
  PROVE  ApplyFill(p, fill).cash >= 0 /\ ApplyFill(p, fill).quantity <= MaxPosition
<1> DEFINE slip == Percent(open, SlippagePct)
           price == IF side = "BUY" THEN open + slip ELSE open - slip
           gross == price * quantity
           fees == Percent(gross, CommissionPct)
<1>1. slip \in Int /\ 0 <= slip /\ slip <= open
  <2>1. SlippagePct \in Nat /\ SlippagePct <= 100 /\ open \in Int /\ open >= 0
    BY RatesAssumption DEF UsualRates
  <2> QED
    BY ONLY <2>1, PercentType
<1> HIDE DEF slip
<1>2. price \in Int /\ price >= 0
  BY <1>1
<1>3. FillPrice("IDEAL", side, open, 0) = price
  <2>1. Reference("IDEAL", side, open) = open
    BY DEF Reference
  <2> QED
    BY <1>1, <2>1 DEF FillPrice, slip
<1> HIDE DEF price
<1>4. gross \in Int /\ gross >= 0
  BY <1>2
<1> HIDE DEF gross
<1>5. fees \in Int /\ 0 <= fees /\ fees <= gross
  BY <1>4, PercentType, RatesAssumption DEF UsualRates
<1>6. fill = [side |-> side, quantity |-> quantity, price |-> price, gross |-> gross, fees |-> fees]
  BY <1>3 DEF Fill, gross
<1> HIDE DEF fees
<1>7. p.cash \in Int /\ p.quantity \in Nat /\ MaxPosition \in Nat
  BY RatesAssumption DEF Account
<1>8. CASE side = "BUY"
  <2>1. gross + fees <= p.cash
    <3>1. EstimatedCash(quantity, open) <= p.cash
      BY <1>8 DEF Accepted
    <3>2. gross = quantity * (open + slip)
      BY <1>1, <1>8 DEF gross, price
    <3>3. EstimatedCash(quantity, open) = gross + fees
      BY <3>2 DEF EstimatedCash, fees, slip
    <3> QED
      BY <3>1, <3>3
  <2>2. p.quantity + quantity <= MaxPosition
    BY <1>7, <1>8 DEF Accepted, Projected
  <2>3. /\ ApplyFill(p, fill).cash = p.cash - (gross + fees)
        /\ ApplyFill(p, fill).quantity = p.quantity + quantity
    BY <1>6, <1>8 DEF ApplyFill, Bought
  <2> QED
    BY <1>4, <1>5, <1>7, <2>1, <2>2, <2>3
<1>9. CASE side = "SELL"
  <2> DEFINE sold == Lesser(quantity, p.quantity)
  <2>1. /\ ApplyFill(p, fill).cash = p.cash + (gross - fees)
        /\ ApplyFill(p, fill).quantity = p.quantity - sold
    BY <1>6, <1>9 DEF ApplyFill, Sold
  <2>2. sold \in Nat
    BY <1>7 DEF Lesser
  <2> HIDE DEF sold
  <2> QED
    BY <1>4, <1>5, <1>7, <2>1, <2>2
<1> QED
  BY <1>8, <1>9 DEF Sides

LEMMA FillAtOnceHolds ==
  ASSUME UsualRates, ReplayInv, LimitsHoldAtFill, NEW trend, FillAtOnce(trend)
  PROVE  LimitsHoldAtFill'
<1> SUFFICES ASSUME model' = "IDEAL", latency' = 0
             PROVE  portfolio'.cash >= 0 /\ portfolio'.quantity <= MaxPosition
  BY DEF LimitsHoldAtFill
<1> DEFINE row == SignalRow(trend)
           book == Append(orders, row)
           last == Len(orders) + 1
           fill == Fill(row.side, row.quantity, FillPrice("IDEAL", row.side, bar.open, 0))
<1>1. PICK impact \in ImpactsOf(model) :
        Execute(book, Submitted(row), last, pending, bar.liquidity, impact)
  BY DEF FillAtOnce
<1>2. model = "IDEAL" /\ latency = 0 /\ phase = "due" /\ Passes(row)
  BY DEF FillAtOnce, EndBar
<1>3. /\ Shape /\ portfolio \in Account /\ bar.open \in Nat
      /\ portfolio.cash >= 0 /\ portfolio.quantity <= MaxPosition
  BY <1>2 DEF ReplayInv, Shape, LimitsHoldAtFill
<1>4. row \in Order /\ row.filled = 0
  BY <1>2, <1>3, SignalRowType
<1>5. Accepted(portfolio, row.side, row.quantity, bar.open, Duplicate(row))
  BY <1>2 DEF Passes
<1> HIDE DEF row
<1>6. row.quantity \in Nat /\ row.quantity > 0 /\ row.side \in Sides
  BY <1>4, <1>5 DEF Order, Accepted
<1>7. book[last] = row
  BY <1>3, <1>4, AppendRow
<1>8. impact = 0
  BY <1>2 DEF ImpactsOf
<1> HIDE DEF book, last
<1>9. portfolio' = ApplyFill(portfolio, fill)
  <2>1. FillQuantity(model, row.quantity - row.filled, bar.liquidity) = row.quantity
    BY <1>2, <1>4, <1>6 DEF FillQuantity
  <2>2. ~(row.quantity <= 0)
    BY <1>6
  <2> QED
    BY <1>1, <1>2, <1>7, <1>8, <2>1, <2>2 DEF Execute
<1> HIDE DEF fill
<1>10. fill = Fill(row.side, row.quantity, FillPrice("IDEAL", row.side, bar.open, 0))
  BY DEF fill
<1> QED
  BY <1>3, <1>5, <1>6, <1>9, <1>10, IdealFill

\* Nothing else trades in such a session: nothing is ever queued.

LEMMA ExecuteDueHolds ==
  ASSUME ReplayInv, NEW i \in DOMAIN pending, ExecuteDue(i)
  PROVE  LimitsHoldAtFill'
<1> SUFFICES ASSUME model' = "IDEAL", latency' = 0
             PROVE  FALSE
  BY DEF LimitsHoldAtFill
<1>1. Plain /\ latency = 0
  BY DEF ExecuteDue, Plain
<1>2. pending = <<>>
  BY <1>1 DEF ReplayInv, InFlight
<1> QED
  BY <1>2

\* Cash and position stay within the limits of the risk engine where orders fill at once at

\* the mid, whatever the prices, if a sale never costs more than it brings in.
THEOREM LimitsAreHeld ==
  ASSUME UsualRates
  PROVE  Spec => []LimitsHoldAtFill
<1>1. Init => LimitsHoldAtFill
  BY RatesAssumption, ReplayAssumption DEF Init, LimitsHoldAtFill
<1>2. ReplayInv /\ LimitsHoldAtFill /\ [Next]_vars => LimitsHoldAtFill'
  <2> SUFFICES ASSUME ReplayInv, LimitsHoldAtFill, [Next]_vars
               PROVE  LimitsHoldAtFill'
    OBVIOUS
  <2>1. CASE model' = model /\ latency' = latency /\ portfolio' = portfolio
    BY <2>1 DEF LimitsHoldAtFill
  <2>2. CASE NextBar
    BY <2>1, <2>2 DEF NextBar
  <2>3. ASSUME NEW i \in DOMAIN pending, ExecuteDue(i) \/ Postpone(i)
        PROVE  LimitsHoldAtFill'
    <3>1. CASE ExecuteDue(i)
      BY <3>1, ExecuteDueHolds
    <3>2. CASE Postpone(i)
      BY <2>1, <3>2 DEF Postpone
    <3> QED
      BY <2>3, <3>1, <3>2
  <2>4. ASSUME NEW trend, Hold(trend) \/ Reject(trend) \/ Defer(trend) \/ FillAtOnce(trend)
        PROVE  LimitsHoldAtFill'
    <3>1. CASE Hold(trend) \/ Reject(trend) \/ Defer(trend)
      BY <2>1, <3>1 DEF Hold, Reject, Defer, EndBar
    <3>2. CASE FillAtOnce(trend)
      BY <3>2, FillAtOnceHolds
    <3> QED
      BY <2>4, <3>1, <3>2
  <2>5. CASE Complete \/ UNCHANGED vars
    BY <2>1, <2>5 DEF Complete, vars
  <2> QED
    BY <2>2, <2>3, <2>4, <2>5 DEF Next, Completed
<1> QED
  BY <1>1, <1>2, ReplayInductive, PTL DEF Spec

-----------------------------------------------------------------------------
(* Sums.  A sum of amounts is the number of their units, counted one by    *)
(* one, so the order in which a fold takes them does not matter.           *)

UnitsOf(amounts, keys) == UNION {{k} \X (1..amounts[k]) : k \in keys}

\* The least of some numbers, and the largest of some positions.

LEMMA LeastOf ==
  ASSUME NEW T \in SUBSET Nat, T # {}
  PROVE  \E n \in T : \A m \in T : n <= m
<1>1. PICK n \in T : \A m \in T : ~(<<m, n>> \in OpToRel(<, Nat))
  BY NatLessThanWellFounded, WFMin
<1>2. \A m \in T : ~(m < n)
  BY <1>1 DEF OpToRel
<1> QED
  BY <1>2

LEMMA MaxOf ==
  ASSUME NEW n \in Nat, NEW s \in SUBSET (1..n), s # {}
  PROVE  Max(s) \in s
<1> DEFINE T == {n - x : x \in s}
<1>1. T \in SUBSET Nat /\ T # {}
  <2>1. \A x \in s : n - x \in Nat
    OBVIOUS
  <2> QED
    BY <2>1
<1>2. PICK d \in T : \A m \in T : d <= m
  BY ONLY <1>1, LeastOf
<1>3. PICK x \in s : d = n - x
  BY <1>2
<1>4. \A y \in s : n - x <= n - y
  BY <1>2, <1>3
<1>5. \A y \in s : x >= y
  BY <1>4
<1> QED
  BY <1>5 DEF Max

\* One more key adds its amount.

LEMMA UnitsAdd ==
  ASSUME NEW a, NEW S, NEW x, x \notin S, a[x] \in Nat, IsFiniteSet(UnitsOf(a, S))
  PROVE  /\ IsFiniteSet(UnitsOf(a, S \cup {x}))
         /\ Cardinality(UnitsOf(a, S \cup {x})) = Cardinality(UnitsOf(a, S)) + a[x]
<1> DEFINE n == a[x]
           one == {x} \X (1..n)
           old == UnitsOf(a, S)
<1>1. n \in Nat
  OBVIOUS
<1>2. UnitsOf(a, S \cup {x}) = old \cup one
  BY DEF UnitsOf
<1>3. old \cap one = {}
  BY DEF UnitsOf
<1> HIDE DEF n, old
<1>4. IsFiniteSet(one) /\ Cardinality(one) = n
  <2>1. IsFiniteSet(1..n) /\ Cardinality(1..n) = n
    BY <1>1, FS_Interval
  <2>2. IsFiniteSet({x}) /\ Cardinality({x}) = 1
    BY FS_Singleton
  <2>3. IsFiniteSet(one) /\ Cardinality(one) = Cardinality({x}) * Cardinality(1..n)
    BY <2>1, <2>2, FS_Product
  <2> QED
    BY <1>1, <2>1, <2>2, <2>3
<1> HIDE DEF one
<1>5. Cardinality(old \cap one) = 0
  BY <1>3, FS_EmptySet
<1>6. IsFiniteSet(old) /\ Cardinality(old) \in Nat
  BY FS_CardinalityType DEF old
<1>7. /\ IsFiniteSet(old \cup one)
      /\ Cardinality(old \cup one) = Cardinality(old) + Cardinality(one) - Cardinality(old \cap one)
  BY <1>4, <1>6, FS_Union
<1>8. Cardinality(old \cup one) = Cardinality(old) + n
  <2> DEFINE c == Cardinality(old)
  <2>1. c \in Nat /\ Cardinality(old \cup one) = c + n - 0
    BY <1>4, <1>5, <1>6, <1>7
  <2> HIDE DEF c
  <2>2. c + n - 0 = c + n
    BY <1>1, <2>1
  <2> QED
    BY <2>1, <2>2 DEF c
<1> QED
  BY <1>2, <1>7, <1>8 DEF n, old

\* Finitely many keys have finitely many units: there is no smallest set that has more.

LEMMA UnitsFinite ==
  ASSUME NEW S, IsFiniteSet(S), NEW a, \A x \in S : a[x] \in Nat
  PROVE  IsFiniteSet(UnitsOf(a, S)) /\ Cardinality(UnitsOf(a, S)) \in Nat
<1> DEFINE wrong == {Cardinality(s) : s \in {r \in SUBSET S : ~IsFiniteSet(UnitsOf(a, r))}}
<1>1. \A s \in SUBSET S : IsFiniteSet(s) /\ Cardinality(s) \in Nat
  BY FS_Subset, FS_CardinalityType
<1>2. ASSUME ~IsFiniteSet(UnitsOf(a, S))
      PROVE  FALSE
  <2>1. wrong \in SUBSET Nat /\ wrong # {}
    BY <1>1, <1>2
  <2>2. PICK n \in wrong : \A m \in wrong : n <= m
    BY ONLY <2>1, LeastOf
  <2>3. PICK s \in SUBSET S : ~IsFiniteSet(UnitsOf(a, s)) /\ n = Cardinality(s)
    BY <2>2
  <2>4. UnitsOf(a, {}) = {}
    BY DEF UnitsOf
  <2>5. s # {}
    BY <2>3, <2>4, FS_EmptySet
  <2>6. PICK x \in s : TRUE
    BY <2>5
  <2> DEFINE rest == s \ {x}
  <2>7. rest \in SUBSET S /\ Cardinality(rest) = Cardinality(s) - 1
    BY <1>1, <2>6, FS_RemoveElement
  <2>8. Cardinality(rest) \in Nat /\ Cardinality(s) \in Nat
    BY <1>1, <2>7
  <2>9. x \notin rest /\ a[x] \in Nat /\ rest \cup {x} = s
    BY <2>6
  <2> HIDE DEF rest
  <2>10. ~IsFiniteSet(UnitsOf(a, rest))
    BY <2>3, <2>9, UnitsAdd
  <2>11. Cardinality(rest) \in wrong
    BY <2>7, <2>10
  <2> HIDE DEF wrong
  <2> QED
    BY <2>2, <2>3, <2>7, <2>8, <2>11
<1> QED
  BY <1>2, FS_CardinalityType

\* One key less has the amount of the key less.

LEMMA UnitsWithout ==
  ASSUME NEW S, IsFiniteSet(S), NEW a, \A k \in S : a[k] \in Nat, NEW x \in S
  PROVE  Cardinality(UnitsOf(a, S)) = Cardinality(UnitsOf(a, S \ {x})) + a[x]
<1> DEFINE rest == S \ {x}
<1>1. /\ x \notin rest /\ a[x] \in Nat /\ rest \cup {x} = S
      /\ IsFiniteSet(rest) /\ \A k \in rest : a[k] \in Nat
  BY FS_RemoveElement
<1> HIDE DEF rest
<1>2. IsFiniteSet(UnitsOf(a, rest))
  BY ONLY <1>1, UnitsFinite
<1>3. Cardinality(UnitsOf(a, rest \cup {x})) = Cardinality(UnitsOf(a, rest)) + a[x]
  BY ONLY <1>1, <1>2, UnitsAdd
<1> QED
  BY <1>1, <1>3 DEF rest

\* Only the amounts of the keys count, whatever the keys are called.

LEMMA UnitsAgree ==
  ASSUME NEW S, NEW a, NEW b, \A x \in S : a[x] = b[x]
  PROVE  UnitsOf(a, S) = UnitsOf(b, S)
BY DEF UnitsOf

LEMMA UnitsMoved ==
  ASSUME NEW S, IsFiniteSet(S), NEW T, NEW at, at \in Bijection(S, T), NEW a, NEW b,
         \A x \in S : a[x] \in Nat, \A x \in S : b[at[x]] = a[x]
  PROVE  Cardinality(UnitsOf(b, T)) = Cardinality(UnitsOf(a, S))
<1> DEFINE from == UnitsOf(a, S)
           to == UnitsOf(b, T)
           move == [u \in from |-> <<at[u[1]], u[2]>>]
<1>1. /\ \A x \in S : at[x] \in T
      /\ \A x, y \in S : at[x] = at[y] => x = y
      /\ \A y \in T : \E x \in S : at[x] = y
  BY DEF Bijection, Injection, Surjection, IsInjective
<1>2. \A u \in from : \E x \in S : \E n \in 1..a[x] : u = <<x, n>>
  BY DEF UnitsOf
<1>3. \A x \in S : \A n \in 1..a[x] : <<x, n>> \in from
  BY DEF UnitsOf
<1>4. \A v \in to : \E y \in T : \E n \in 1..b[y] : v = <<y, n>>
  BY DEF UnitsOf
<1>5. \A y \in T : \A n \in 1..b[y] : <<y, n>> \in to
  BY DEF UnitsOf
<1>6. IsFiniteSet(from)
  BY UnitsFinite
<1> HIDE DEF from, to
<1>7. move \in [from -> to]
  <2>1. ASSUME NEW u \in from
        PROVE  <<at[u[1]], u[2]>> \in to
    <3>1. PICK x \in S : \E n \in 1..a[x] : u = <<x, n>>
      BY <1>2
    <3>2. PICK n \in 1..a[x] : u = <<x, n>>
      BY <3>1
    <3>3. <<at[x], n>> \in to
      BY <1>1, <1>5, <3>2
    <3> QED
      BY <3>2, <3>3
  <2> QED
    BY <2>1
<1>8. ASSUME NEW u \in from, NEW v \in from, move[u] = move[v]
      PROVE  u = v
  <2>1. PICK x \in S : \E n \in 1..a[x] : u = <<x, n>>
    BY <1>2
  <2>2. PICK y \in S : \E m \in 1..a[y] : v = <<y, m>>
    BY <1>2
  <2>3. at[x] = at[y] /\ u[2] = v[2]
    BY <1>8, <2>1, <2>2
  <2> QED
    BY <1>1, <2>1, <2>2, <2>3
<1>9. ASSUME NEW v \in to
      PROVE  \E u \in from : move[u] = v
  <2>1. PICK y \in T : \E n \in 1..b[y] : v = <<y, n>>
    BY <1>4
  <2>2. PICK n \in 1..b[y] : v = <<y, n>>
    BY <2>1
  <2>3. PICK x \in S : at[x] = y
    BY <1>1
  <2>4. n \in 1..a[x]
    BY <2>2, <2>3
  <2>5. <<x, n>> \in from
    BY <1>3, <2>4
  <2> QED
    BY <2>2, <2>3, <2>5
<1> HIDE DEF move
<1>10. move \in Bijection(from, to)
  BY <1>7, <1>8, <1>9 DEF Bijection, Injection, Surjection, IsInjective
<1>11. ExistsBijection(from, to)
  BY <1>10 DEF ExistsBijection
<1> QED
  BY <1>6, <1>11, FS_Bijection DEF from, to

-----------------------------------------------------------------------------
(* What is left of the orders of a book, and what the end of a replay      *)
(* reports of it.                                                          *)

Amounts(book) == [o \in DOMAIN book |-> book[o].quantity - book[o].filled]

\* the units left of the orders that may still be filled
Unfilled(book) == Cardinality(UnitsOf(Amounts(book), Open(book)))

Metrics ==
  [requested : Int, filled : Int, fills : Int, partial : Int, rejected : Int, unfilled : Int]

\* The inductive strengthening of MetricsReconcile: every unit requested is filled or left
\* of an open order.
MetricsInv ==
  /\ metrics \in Metrics
  /\ metrics.requested = metrics.filled + Unfilled(orders)
  /\ MetricsReconcile

\* A book whose open orders have something left to fill.

LEMMA BookFacts ==
  ASSUME NEW book \in Seq(Order),
         \A o \in DOMAIN book : book[o].status \in Executable => book[o].filled < book[o].quantity
  PROVE  /\ IsFiniteSet(Open(book))
         /\ \A o \in Open(book) : o \in DOMAIN book /\ Amounts(book)[o] \in Nat
         /\ \A o \in DOMAIN book : book[o] \in Order /\ book[o].quantity \in Int
                                   /\ book[o].filled \in Nat
         /\ Unfilled(book) \in Nat
<1>1. Len(book) \in Nat /\ DOMAIN book = 1..Len(book)
  BY LenProperties
<1>2. \A o \in DOMAIN book : book[o] \in Order
  BY <1>1, ElementOfSeq
<1>3. \A o \in DOMAIN book : book[o].quantity \in Int /\ book[o].filled \in Nat
  BY <1>2 DEF Order
<1>4. IsFiniteSet(DOMAIN book)
  BY <1>1, FS_Interval
<1>5. Open(book) \in SUBSET DOMAIN book
  BY DEF Open
<1>6. IsFiniteSet(Open(book))
  BY <1>4, <1>5, FS_Subset
<1>7. \A o \in Open(book) : Amounts(book)[o] \in Nat
  BY <1>3 DEF Open, Amounts
<1>8. Unfilled(book) \in Nat
  BY <1>6, <1>7, UnitsFinite DEF Unfilled
<1> QED
  BY <1>2, <1>3, <1>5, <1>6, <1>7, <1>8

\* Books that agree on what is left of the open orders have as much left.

LEMMA SameLeft ==
  ASSUME NEW book, NEW other, Open(other) = Open(book),
         \A o \in Open(book) : Amounts(other)[o] = Amounts(book)[o]
  PROVE  Unfilled(other) = Unfilled(book)
BY UnitsAgree DEF Unfilled

\* A fill takes its quantity from what is left.

LEMMA FillLeaves ==
  ASSUME NEW book \in Seq(Order),
         \A o \in DOMAIN book : book[o].status \in Executable => book[o].filled < book[o].quantity,
         NEW o \in Open(book), NEW q \in Nat, q > 0, q <= book[o].quantity - book[o].filled
  PROVE  Unfilled([book EXCEPT ![o] = Traded(book[o], q)]) = Unfilled(book) - q
<1> DEFINE row == Traded(book[o], q)
           next == [book EXCEPT ![o] = row]
           rest == Open(book) \ {o}
           a == Amounts(book)
           b == Amounts(next)
<1>1. /\ IsFiniteSet(Open(book)) /\ o \in DOMAIN book
      /\ \A p \in Open(book) : p \in DOMAIN book /\ a[p] \in Nat
      /\ book[o].quantity \in Int /\ book[o].filled \in Nat
      /\ Unfilled(book) \in Nat
  BY BookFacts
<1>2. /\ row.quantity = book[o].quantity /\ row.filled = book[o].filled + q
      /\ row.status = IF book[o].filled + q >= book[o].quantity THEN "FILLED"
                      ELSE "PARTIALLY_FILLED"
  BY DEF Traded
<1> HIDE DEF row
<1>3. DOMAIN next = DOMAIN book /\ next[o] = row /\ \A p \in DOMAIN book : p # o => next[p] = book[p]
  BY <1>1
<1> HIDE DEF next
<1>4. a[o] = book[o].quantity - book[o].filled /\ b[o] = a[o] - q
  BY <1>1, <1>2, <1>3 DEF Amounts
<1>5. \A p \in rest : b[p] = a[p]
  BY <1>1, <1>3 DEF Amounts
<1>6. Unfilled(book) = Cardinality(UnitsOf(a, rest)) + a[o]
  BY <1>1, UnitsWithout DEF Unfilled
<1>7. UnitsOf(b, rest) = UnitsOf(a, rest)
  BY <1>5, UnitsAgree
<1>8. IsFiniteSet(rest) /\ (\A p \in rest : a[p] \in Nat) /\ a[o] \in Nat
  BY <1>1, FS_RemoveElement
<1>9. Cardinality(UnitsOf(a, rest)) \in Nat
  BY ONLY <1>8, UnitsFinite
<1>10. CASE q = a[o]
  <2>1. row.status = "FILLED"
    BY <1>1, <1>2, <1>4, <1>10
  <2>2. Open(next) = rest
    BY <1>3, <2>1 DEF Open, Executable
  <2>3. Unfilled(next) = Cardinality(UnitsOf(a, rest))
    BY <1>7, <2>2 DEF Unfilled
  <2> HIDE DEF a, b, rest
  <2> QED
    BY <1>6, <1>8, <1>9, <1>10, <2>3 DEF next, row
<1>11. CASE q # a[o]
  <2>1. row.status = "PARTIALLY_FILLED"
    BY <1>1, <1>2, <1>4, <1>11
  <2>2. Open(next) = Open(book)
    BY <1>3, <2>1 DEF Open, Executable
  <2>3. b[o] \in Nat
    BY <1>1, <1>4, <1>8
  <2>4. \A p \in Open(book) : b[p] \in Nat
    BY <1>5, <1>8, <2>3
  <2>5. Unfilled(next) = Cardinality(UnitsOf(b, rest)) + b[o]
    BY <1>1, <2>2, <2>4, UnitsWithout DEF Unfilled
  <2> HIDE DEF a, b, rest
  <2> QED
    BY <1>4, <1>6, <1>7, <1>8, <1>9, <2>5 DEF next, row
<1> QED
  BY <1>10, <1>11

\* An order that is submitted is left in full.

LEMMA SubmittedLeft ==
  ASSUME NEW book \in Seq(Order),
         \A o \in DOMAIN book : book[o].status \in Executable => book[o].filled < book[o].quantity,
         NEW row \in Order
  PROVE  /\ row.status = "SUBMITTED" /\ row.filled = 0 /\ row.quantity > 0 =>
              Unfilled(Append(book, row)) = Unfilled(book) + row.quantity
         /\ row.status = "REJECTED" => Unfilled(Append(book, row)) = Unfilled(book)
<1> DEFINE next == Append(book, row)
           last == Len(book) + 1
           a == Amounts(book)
           b == Amounts(next)
           open == Open(book)
<1>1. /\ Len(book) \in Nat /\ DOMAIN book = 1..Len(book) /\ DOMAIN next = 1..last
      /\ next[last] = row /\ \A p \in 1..Len(book) : next[p] = book[p]
  BY AppendProperties, LenProperties
<1>2. 1..last = (1..Len(book)) \cup {last} /\ last \notin 1..Len(book)
  BY <1>1
<1> HIDE DEF next, last
<1>3. /\ IsFiniteSet(open) /\ \A p \in open : p \in DOMAIN book /\ a[p] \in Nat
  BY BookFacts
<1>4. \A p \in open : b[p] = a[p]
  BY <1>1, <1>2, <1>3 DEF Amounts
<1>5. UnitsOf(b, open) = UnitsOf(a, open)
  BY <1>4, UnitsAgree
<1>6. ASSUME row.status = "SUBMITTED", row.filled = 0, row.quantity > 0
      PROVE  Unfilled(next) = Unfilled(book) + row.quantity
  <2>1. Open(next) = open \cup {last}
    BY <1>1, <1>2, <1>6 DEF Open, Executable
  <2>2. row.quantity \in Int
    BY DEF Order
  <2>3. b[last] = row.quantity /\ b[last] \in Nat
    BY <1>1, <1>2, <1>6, <2>2 DEF Amounts
  <2>4. last \notin open
    BY <1>1, <1>2, <1>3
  <2>5. IsFiniteSet(UnitsOf(b, open))
    BY <1>3, <1>4, UnitsFinite
  <2>6. Cardinality(UnitsOf(b, open \cup {last})) = Cardinality(UnitsOf(b, open)) + b[last]
    BY <2>3, <2>4, <2>5, UnitsAdd
  <2> QED
    BY <1>5, <2>1, <2>3, <2>6 DEF Unfilled
<1>7. ASSUME row.status = "REJECTED"
      PROVE  Unfilled(next) = Unfilled(book)
  <2>1. Open(next) = open
    BY <1>1, <1>2, <1>7 DEF Open, Executable
  <2> QED
    BY <1>5, <2>1 DEF Unfilled
<1> QED
  BY <1>6, <1>7 DEF next
\* What UnfilledQuantity computes: a function that takes the entries out from the last on.
IsTotal(g, queue) ==
  g = [s \in SUBSET DOMAIN queue |->
         IF s = {} THEN 0
         ELSE LET x == Max(s)
              IN  g[s \ {x}] + orders[queue[x].order].quantity - orders[queue[x].order].filled]

LEMMA TotalIsFold ==
  ASSUME NEW queue
  PROVE  UnfilledQuantity(queue) = (CHOOSE g : IsTotal(g, queue))[DOMAIN queue]
BY DEF UnfilledQuantity, FoldLeft, MapThenFoldSet, IsTotal

\* One function does, and no other: there is no smallest set on which two differ.

LEMMA TotalsAgree ==
  ASSUME NEW queue, NEW n \in Nat, DOMAIN queue = 1..n, NEW f, NEW g,
         IsTotal(f, queue), IsTotal(g, queue)
  PROVE  f[1..n] = g[1..n]
<1> DEFINE wrong == {Cardinality(s) : s \in {r \in SUBSET (1..n) : f[r] # g[r]}}
<1> SUFFICES ASSUME f[1..n] # g[1..n]
             PROVE  FALSE
  OBVIOUS
<1>1. \A s \in SUBSET (1..n) : IsFiniteSet(s) /\ Cardinality(s) \in Nat
  <2>1. IsFiniteSet(1..n)
    BY FS_Interval
  <2> QED
    BY <2>1, FS_Subset, FS_CardinalityType
<1>2. wrong \in SUBSET Nat /\ wrong # {}
  BY <1>1
<1>3. PICK k \in wrong : \A m \in wrong : k <= m
  BY ONLY <1>2, LeastOf
<1>4. PICK s \in SUBSET (1..n) : f[s] # g[s] /\ k = Cardinality(s)
  BY <1>3
<1> DEFINE x == Max(s)
           rest == s \ {x}
           order == orders[queue[x].order]
<1>5. /\ f[s] = IF s = {} THEN 0 ELSE f[rest] + order.quantity - order.filled
      /\ g[s] = IF s = {} THEN 0 ELSE g[rest] + order.quantity - order.filled
  BY <1>4, Zenon DEF IsTotal
<1>6. s # {} /\ f[rest] # g[rest]
  <2> HIDE DEF x, rest, order
  <2> QED
    BY <1>4, <1>5
<1>7. x \in s
  BY <1>6, MaxOf
<1>8. rest \in SUBSET (1..n) /\ Cardinality(rest) = Cardinality(s) - 1
  <2> HIDE DEF x
  <2> QED
    BY <1>1, <1>4, <1>7, FS_RemoveElement
<1>9. Cardinality(rest) \in wrong
  BY <1>6, <1>8
<1> HIDE DEF x, rest, wrong
<1> QED
  BY <1>1, <1>3, <1>4, <1>8, <1>9

\* The quantity reported unfilled is the number of units left of the orders queued.

LEMMA TotalCounted ==
  ASSUME NEW queue, NEW n \in Nat, DOMAIN queue = 1..n, NEW a,
         \A i \in 1..n :
           /\ orders[queue[i].order].quantity \in Int /\ orders[queue[i].order].filled \in Nat
           /\ a[i] = orders[queue[i].order].quantity - orders[queue[i].order].filled
           /\ a[i] \in Nat
  PROVE  UnfilledQuantity(queue) = Cardinality(UnitsOf(a, 1..n))
<1> DEFINE count == [s \in SUBSET (1..n) |-> Cardinality(UnitsOf(a, s))]
           total == CHOOSE g : IsTotal(g, queue)
<1>1. ASSUME NEW s \in SUBSET (1..n), s # {}
      PROVE  count[s] = count[s \ {Max(s)}] + orders[queue[Max(s)].order].quantity
                                            - orders[queue[Max(s)].order].filled
  <2> DEFINE x == Max(s)
             rest == s \ {x}
             order == orders[queue[x].order]
  <2>1. x \in s
    BY <1>1, MaxOf
  <2>2. /\ order.quantity \in Int /\ order.filled \in Nat /\ a[x] = order.quantity - order.filled
        /\ \A k \in s : a[k] \in Nat
    BY <2>1
  <2> HIDE DEF x, order
  <2>3. IsFiniteSet(1..n) /\ IsFiniteSet(s)
    <3>1. IsFiniteSet(1..n)
      BY FS_Interval
    <3> QED
      BY <3>1, FS_Subset
  <2>4. rest \in SUBSET (1..n) /\ IsFiniteSet(rest) /\ \A k \in rest : a[k] \in Nat
    BY <2>2, <2>3, FS_RemoveElement
  <2>5. Cardinality(UnitsOf(a, s)) = Cardinality(UnitsOf(a, rest)) + a[x]
    BY <2>1, <2>2, <2>3, UnitsWithout
  <2> HIDE DEF rest
  <2>6. Cardinality(UnitsOf(a, rest)) \in Nat
    BY ONLY <2>4, UnitsFinite
  <2>7. count[s] = Cardinality(UnitsOf(a, s)) /\ count[rest] = Cardinality(UnitsOf(a, rest))
    BY <2>4
  <2> HIDE DEF count
  <2>8. count[s] = count[rest] + order.quantity - order.filled
    BY <2>2, <2>5, <2>6, <2>7
  <2> QED
    BY <2>8 DEF rest, x, order
<1>2. count[{}] = 0
  <2>1. UnitsOf(a, {}) = {}
    BY DEF UnitsOf
  <2> QED
    BY <2>1, FS_EmptySet
<1>3. count = [s \in SUBSET (1..n) |-> count[s]] /\ count[1..n] = Cardinality(UnitsOf(a, 1..n))
  OBVIOUS
<1> HIDE DEF count
<1>4. ASSUME NEW s \in SUBSET (1..n)
      PROVE  count[s] = IF s = {} THEN 0
                        ELSE LET x == Max(s)
                             IN  count[s \ {x}] + orders[queue[x].order].quantity
                                                - orders[queue[x].order].filled
  <2>1. CASE s = {}
    BY <1>2, <2>1
  <2>2. CASE s # {}
    BY <1>1, <2>2
  <2> QED
    BY <2>1, <2>2
<1>5. IsTotal(count, queue)
  BY <1>3, <1>4, Zenon DEF IsTotal
<1>6. IsTotal(total, queue)
  BY <1>5
<1>7. UnfilledQuantity(queue) = total[1..n]
  BY TotalIsFold
<1> HIDE DEF total
<1>8. total[1..n] = count[1..n]
  BY <1>5, <1>6, TotalsAgree
<1> QED
  BY <1>3, <1>7, <1>8

\* Where the queue holds the open orders, each once, it reports what is left of them.

LEMMA QueueReportsLeft ==
  ASSUME ReplayInv, QueueInv
  PROVE  /\ UnfilledQuantity(pending) \in Nat
         /\ NothingDropped => UnfilledQuantity(pending) = Unfilled(orders)
<1> DEFINE n == Len(pending)
           at == [i \in 1..n |-> pending[i].order]
           a == [i \in 1..n |-> orders[pending[i].order].quantity - orders[pending[i].order].filled]
           b == Amounts(orders)
<1>1. n \in Nat /\ DOMAIN pending = 1..n /\ orders \in Seq(Order)
  BY LenProperties DEF ReplayInv, Shape
<1>2. /\ Queued(pending) \subseteq Open(orders)
      /\ NothingDropped => Queued(pending) = Open(orders)
      /\ \A i, j \in 1..n : pending[i].order = pending[j].order => i = j
  BY <1>1 DEF QueueInv, QueueIsOpenOrders
<1>3. /\ \A o \in Open(orders) : o \in DOMAIN orders /\ b[o] \in Nat
      /\ \A o \in DOMAIN orders : orders[o].quantity \in Int /\ orders[o].filled \in Nat
  BY <1>1, BookFacts DEF QueueInv, OrdersAged
<1>4. \A i \in 1..n : pending[i].order \in Open(orders)
  BY <1>1, <1>2 DEF Queued
<1>5. \A i \in 1..n :
        /\ orders[pending[i].order].quantity \in Int /\ orders[pending[i].order].filled \in Nat
        /\ a[i] = orders[pending[i].order].quantity - orders[pending[i].order].filled
        /\ b[pending[i].order] = a[i] /\ a[i] \in Nat
  BY <1>3, <1>4 DEF Amounts
<1> HIDE DEF n, a, b
<1>6. UnfilledQuantity(pending) = Cardinality(UnitsOf(a, 1..n))
  BY <1>1, <1>5, TotalCounted
<1>7. IsFiniteSet(1..n) /\ \A i \in 1..n : a[i] \in Nat /\ b[at[i]] = a[i]
  BY <1>1, <1>5, FS_Interval
<1>8. Cardinality(UnitsOf(a, 1..n)) \in Nat
  BY ONLY <1>7, UnitsFinite
<1>9. ASSUME NothingDropped
      PROVE  UnfilledQuantity(pending) = Unfilled(orders)
  <2>1. at \in Bijection(1..n, Open(orders))
    BY <1>1, <1>2, <1>4, <1>9 DEF Bijection, Injection, Surjection, IsInjective, Queued
  <2> DEFINE places == 1..n
             open == Open(orders)
  <2>2. at \in Bijection(places, open)
    BY <2>1
  <2>3. IsFiniteSet(places)
    BY <1>7
  <2>4. \A i \in places : a[i] \in Nat
    BY <1>7
  <2>5. \A i \in places : b[at[i]] = a[i]
    BY <1>7
  <2> HIDE DEF at, places, open
  <2>6. Cardinality(UnitsOf(b, open)) = Cardinality(UnitsOf(a, places))
    BY ONLY <2>2, <2>3, <2>4, <2>5, UnitsMoved
  <2> QED
    BY <1>6, <2>6 DEF Unfilled, b, places, open
<1> QED
  BY <1>6, <1>8, <1>9

-----------------------------------------------------------------------------
(* The steps of a replay account for every unit. *)

LEMMA ExecuteCounts ==
  ASSUME Shape, NEW book \in Seq(Order), NEW counts \in Metrics,
         \A p \in DOMAIN book : book[p].status \in Executable => book[p].filled < book[p].quantity,
         counts.requested = counts.filled + Unfilled(book),
         NEW o \in Open(book), NEW queue, NEW available \in Nat, NEW impact,
         Execute(book, counts, o, queue, available, impact)
  PROVE  /\ metrics' \in Metrics
         /\ metrics'.requested = metrics'.filled + Unfilled(orders')
<1> DEFINE unfilled == book[o].quantity - book[o].filled
           q == FillQuantity(model, unfilled, available)
           part == IF q < unfilled THEN 1 ELSE 0
           next == [book EXCEPT ![o] = Traded(book[o], q)]
<1>1. /\ book[o].quantity \in Int /\ book[o].filled \in Nat /\ o \in DOMAIN book
      /\ book[o].filled < book[o].quantity /\ Unfilled(book) \in Nat
  BY BookFacts DEF Open
<1>2. unfilled \in Nat /\ unfilled > 0
  BY <1>1
<1>3. q \in Nat /\ q <= unfilled
  BY <1>2 DEF FillQuantity, Lesser
<1>4. CASE q <= 0
  <2>1. orders' = book /\ metrics' = counts
    BY <1>4 DEF Execute
  <2> QED
    BY <2>1
<1>5. CASE ~(q <= 0)
  <2>1. /\ orders' = next
        /\ metrics' = [counts EXCEPT !.filled = @ + q, !.fills = @ + 1, !.partial = @ + part]
    BY <1>5 DEF Execute
  <2>2. Unfilled(next) = Unfilled(book) - q
    BY <1>1, <1>3, <1>5, FillLeaves
  <2>3. part \in Int
    OBVIOUS
  <2> HIDE DEF q, part, next
  <2>4. /\ counts.filled \in Int /\ counts.requested \in Int
        /\ counts.fills \in Int /\ counts.partial \in Int
    BY DEF Metrics
  <2>5. counts.filled + q \in Int /\ counts.fills + 1 \in Int /\ counts.partial + part \in Int
    BY <1>3, <2>3, <2>4
  <2>6. /\ metrics' \in Metrics /\ metrics'.requested = counts.requested
        /\ metrics'.filled = counts.filled + q
    BY <2>1, <2>5 DEF Metrics
  <2> QED
    BY <1>1, <1>3, <2>1, <2>2, <2>4, <2>6
<1> QED
  BY <1>4, <1>5

LEMMA MetricsInit == Init => MetricsInv
<1> SUFFICES ASSUME Init
             PROVE  MetricsInv
  OBVIOUS
<1>1. /\ orders = <<>> /\ phase = "next" /\ metrics.requested = 0 /\ metrics.filled = 0
      /\ metrics \in Metrics
  BY DEF Init, Metrics
<1>2. Open(orders) = {}
  BY <1>1 DEF Open
<1>3. UnitsOf(Amounts(orders), {}) = {}
  BY DEF UnitsOf
<1>4. Unfilled(orders) = 0
  BY <1>2, <1>3, FS_EmptySet DEF Unfilled
<1> QED
  BY <1>1, <1>4 DEF MetricsInv, MetricsReconcile

\* The metrics with one more order submitted or rejected.

LEMMA SubmittedCounts ==
  ASSUME ReplayInv, QueueInv, MetricsInv, NEW row \in Order, NEW book, book = Append(orders, row)
  PROVE  /\ row.status = "SUBMITTED" /\ row.filled = 0 /\ row.quantity > 0 =>
              /\ Submitted(row) \in Metrics
              /\ Submitted(row).requested = Submitted(row).filled + Unfilled(book)
         /\ row.status = "REJECTED" =>
              /\ [metrics EXCEPT !.rejected = @ + 1] \in Metrics
              /\ [metrics EXCEPT !.rejected = @ + 1].requested
                   = [metrics EXCEPT !.rejected = @ + 1].filled + Unfilled(book)
<1>1. /\ orders \in Seq(Order)
      /\ \A o \in DOMAIN orders :
           orders[o].status \in Executable => orders[o].filled < orders[o].quantity
      /\ metrics \in Metrics /\ metrics.requested = metrics.filled + Unfilled(orders)
  BY DEF ReplayInv, Shape, QueueInv, OrdersAged, MetricsInv
<1>2. metrics.requested \in Int /\ metrics.filled \in Int /\ metrics.rejected \in Int
  BY <1>1 DEF Metrics
<1>3. row.quantity \in Int
  BY DEF Order
<1>4. Unfilled(orders) \in Nat
  BY <1>1, BookFacts
<1>5. /\ row.status = "SUBMITTED" /\ row.filled = 0 /\ row.quantity > 0 =>
           Unfilled(book) = Unfilled(orders) + row.quantity
      /\ row.status = "REJECTED" => Unfilled(book) = Unfilled(orders)
  BY <1>1, SubmittedLeft
<1>6. /\ Submitted(row) \in Metrics /\ Submitted(row).requested = metrics.requested + row.quantity
      /\ Submitted(row).filled = metrics.filled
  <2>1. metrics.requested + row.quantity \in Int
    BY <1>2, <1>3
  <2> QED
    BY <1>1, <2>1 DEF Submitted, Metrics
<1>7. /\ [metrics EXCEPT !.rejected = @ + 1] \in Metrics
      /\ [metrics EXCEPT !.rejected = @ + 1].requested = metrics.requested
      /\ [metrics EXCEPT !.rejected = @ + 1].filled = metrics.filled
  <2>1. metrics.rejected + 1 \in Int
    BY <1>2
  <2> QED
    BY <1>1, <2>1 DEF Metrics
<1> QED
  BY <1>1, <1>2, <1>3, <1>4, <1>5, <1>6, <1>7

LEMMA MetricsStep == ReplayInv /\ QueueInv /\ MetricsInv /\ [Next]_vars => MetricsInv'
<1> SUFFICES ASSUME ReplayInv, QueueInv, MetricsInv, [Next]_vars
             PROVE  MetricsInv'
  OBVIOUS
<1>1. /\ Shape /\ orders \in Seq(Order) /\ pending \in Seq(Entries)
      /\ \A o \in DOMAIN orders :
           orders[o].status \in Executable => orders[o].filled < orders[o].quantity
      /\ metrics \in Metrics /\ metrics.requested = metrics.filled + Unfilled(orders)
      /\ remaining \in Nat /\ bar.liquidity \in Nat
  BY DEF ReplayInv, Shape, QueueInv, OrdersAged, MetricsInv, Entries
<1>2. ASSUME metrics' \in Metrics, metrics'.requested = metrics'.filled + Unfilled(orders'),
             phase' # "completed"
      PROVE  MetricsInv'
  <2>1. Unfilled(orders)' = Unfilled(orders')
    OBVIOUS
  <2> QED
    BY <1>2, <2>1 DEF MetricsInv, MetricsReconcile, Metrics
<1>3. CASE metrics' = metrics /\ orders' = orders /\ model' = model /\ latency' = latency
           /\ (phase' = "completed" => phase = "completed")
  BY <1>3 DEF MetricsInv, MetricsReconcile, NothingDropped, Metrics, Unfilled, Amounts, Open
<1>4. CASE NextBar
  BY <1>3, <1>4 DEF NextBar
<1>5. ASSUME NEW i \in DOMAIN pending, Postpone(i)
      PROVE  MetricsInv'
  BY <1>3, <1>5 DEF Postpone
<1>6. ASSUME NEW i \in DOMAIN pending, ExecuteDue(i)
      PROVE  MetricsInv'
  <2> DEFINE o == pending[i].order
             rest == RemoveAt(pending, i)
  <2>1. PICK impact \in ImpactsOf(model) : Execute(orders, metrics, o, rest, remaining, impact)
    BY <1>6 DEF ExecuteDue
  <2>2. phase' = "due"
    BY <1>6 DEF ExecuteDue
  <2>3. o \in Open(orders)
    BY DEF QueueInv, QueueIsOpenOrders, Queued
  <2> HIDE DEF o, rest
  <2>4. metrics' \in Metrics /\ metrics'.requested = metrics'.filled + Unfilled(orders')
    BY ONLY <1>1, <2>1, <2>3, ExecuteCounts
  <2> QED
    BY <1>2, <2>2, <2>4
<1>7. ASSUME NEW trend, Hold(trend)
      PROVE  MetricsInv'
  BY <1>3, <1>7 DEF Hold, EndBar
<1>8. ASSUME NEW trend, Reject(trend)
      PROVE  MetricsInv'
  <2> DEFINE row == [SignalRow(trend) EXCEPT !.status = "REJECTED"]
  <2>1. /\ orders' = Append(orders, row) /\ phase = "due" /\ phase' = "next"
        /\ metrics' = [metrics EXCEPT !.rejected = @ + 1]
    BY <1>8 DEF Reject, EndBar
  <2>2. SignalRow(trend) \in Order
    BY <2>1, SignalRowType DEF ReplayInv
  <2>3. row \in Order /\ row.status = "REJECTED"
    BY <2>2 DEF Order
  <2> HIDE DEF row
  <2>4. metrics' \in Metrics /\ metrics'.requested = metrics'.filled + Unfilled(orders')
    BY <2>1, <2>3, SubmittedCounts
  <2> QED
    BY <1>2, <2>1, <2>4
<1>9. ASSUME NEW trend, Defer(trend)
      PROVE  MetricsInv'
  <2> DEFINE row == SignalRow(trend)
  <2>1. /\ orders' = Append(orders, row) /\ phase = "due" /\ phase' = "next"
        /\ metrics' = Submitted(row) /\ Passes(row)
    BY <1>9 DEF Defer, EndBar
  <2>2. row \in Order /\ row.status = "SUBMITTED" /\ row.filled = 0 /\ row.quantity > 0
    BY <2>1, SignalPasses
  <2> HIDE DEF row
  <2>3. metrics' \in Metrics /\ metrics'.requested = metrics'.filled + Unfilled(orders')
    BY <2>1, <2>2, SubmittedCounts
  <2> QED
    BY <1>2, <2>1, <2>3
<1>10. ASSUME NEW trend, FillAtOnce(trend)
       PROVE  MetricsInv'
  <2> DEFINE row == SignalRow(trend)
             book == Append(orders, row)
             counts == Submitted(row)
             last == Len(orders) + 1
  <2>1. PICK impact \in ImpactsOf(model) :
          Execute(book, counts, last, pending, bar.liquidity, impact)
    BY <1>10 DEF FillAtOnce
  <2>2. phase = "due" /\ phase' = "next" /\ Passes(row)
    BY <1>10 DEF FillAtOnce, EndBar
  <2>3. row \in Order /\ row.status = "SUBMITTED" /\ row.filled = 0 /\ row.quantity > 0
    BY <2>2, SignalPasses
  <2> HIDE DEF row
  <2>4. counts \in Metrics /\ counts.requested = counts.filled + Unfilled(book)
    BY <2>3, SubmittedCounts
  <2>5. /\ book \in Seq(Order) /\ Len(orders) \in Nat /\ DOMAIN orders = 1..Len(orders)
        /\ DOMAIN book = 1..last /\ book[last] = row
        /\ \A p \in 1..Len(orders) : book[p] = orders[p]
    BY <1>1, <2>3, AppendProperties, LenProperties
  <2>6. 1..last = (1..Len(orders)) \cup {last}
    BY <2>5
  <2> HIDE DEF book, counts, last
  <2>7. last \in Open(book)
    BY <2>3, <2>5, <2>6 DEF Open, Executable
  <2>8. \A p \in DOMAIN book :
          book[p].status \in Executable => book[p].filled < book[p].quantity
    BY <1>1, <2>3, <2>5, <2>6
  <2>9. metrics' \in Metrics /\ metrics'.requested = metrics'.filled + Unfilled(orders')
    BY ONLY <1>1, <2>1, <2>4, <2>5, <2>7, <2>8, ExecuteCounts
  <2> QED
    BY <1>2, <2>2, <2>9
<1>11. CASE Complete
  <2>1. /\ orders' = orders /\ model' = model /\ latency' = latency
        /\ metrics' = [metrics EXCEPT !.unfilled = UnfilledQuantity(pending)]
    BY <1>11 DEF Complete
  <2> DEFINE u == UnfilledQuantity(pending)
  <2>2. u \in Nat /\ (NothingDropped => u = Unfilled(orders))
    BY QueueReportsLeft
  <2> HIDE DEF u
  <2>3. /\ metrics' \in Metrics /\ metrics'.requested = metrics.requested
        /\ metrics'.filled = metrics.filled /\ metrics'.unfilled = u
    BY <1>1, <2>1, <2>2 DEF Metrics, u
  <2>4. Unfilled(orders)' = Unfilled(orders) /\ NothingDropped' = NothingDropped
    BY <2>1 DEF NothingDropped, Unfilled, Amounts, Open
  <2>5. metrics' \in Metrics'
    BY <2>3 DEF Metrics
  <2> QED
    BY <1>1, <2>2, <2>3, <2>4, <2>5 DEF MetricsInv, MetricsReconcile
<1> QED
  BY <1>3, <1>4, <1>5, <1>6, <1>7, <1>8, <1>9, <1>10, <1>11 DEF Next, Completed, vars

\* The final metrics of a replay account for every requested unit: it was filled or is reported

\* unfilled, unless an order without latency may meet a bar without liquidity (create_session
\* of paper_trading/service.py sums the queue it is left with).
THEOREM MetricsAddUp == Spec => []MetricsReconcile
<1>1. Init => MetricsInv
  BY MetricsInit
<1>2. ReplayInv /\ QueueInv /\ MetricsInv /\ [Next]_vars => MetricsInv'
  BY MetricsStep
<1>3. MetricsInv => MetricsReconcile
  BY DEF MetricsInv
<1> QED
  BY <1>1, <1>2, <1>3, ReplayInductive, QueueInductive, PTL DEF Spec
=============================================================================
