--------------------------- MODULE PaperExchange ---------------------------
(***************************************************************************)
(* OrderService: the exchange that back tests and "-mock" connections      *)
(* trade on.  A book of open orders, two positions (long and short; one in *)
(* one-way mode), the price limits that gate the matching, the realised    *)
(* profit and the queue of order updates for the script.                   *)
(*                                                                         *)
(* Prices and amounts are naturals (ticks and lots); contractSize and      *)
(* leverage are 1 and there are no fees: balance and margin, which nothing *)
(* in the matching reads, are left out.  A position keeps its value,       *)
(* entryPrice * contracts, so that averaging stays exact.  The loop of     *)
(* trigger() visits one order per step, and no call comes in between.      *)
(***************************************************************************)
EXTENDS Integers, FiniteSets, SequencesExt, Sums

CONSTANTS
  Prices,      \* prices that candles and orders have
  Amounts,     \* order sizes
  EditAmounts, \* those that edits ask for
  HalfSpread,  \* what a market order pays beside the close
  Requests,    \* the orders scripts ask for, in one-way and in hedge mode
  MaxOrders    \* bound: orders that are created

ASSUME PricesPositive == Prices \subseteq Nat \ {0}
ASSUME AmountsPositive == Amounts \subseteq Nat \ {0} /\ EditAmounts \subseteq Amounts
ASSUME SpreadBelowPrices == HalfSpread \in Nat /\ \A price \in Prices : HalfSpread < price
ASSUME BoundNatural == MaxOrders \in Nat

VARIABLES
  isHedgeMode,     \* two positions, or one that nets: the configuration of the start
  orders,          \* every order created, by id; those not closed are openOrdersMap
  positions,       \* long and short; the first one nets in one-way mode
  triggerPriceMax, \* 0 when nothing gates the matching
  triggerPriceMin,
  kline,           \* the last candle
  matching,        \* ids the loop of trigger() has still to visit
  executed,        \* whether that loop has executed an order
  profit,          \* realised profit
  orderUpdates,    \* updates the script has not taken: <<id, status>>
  cash             \* history: what the fills have paid and received

paperVars == <<isHedgeMode, orders, positions, triggerPriceMax, triggerPriceMin, kline,
               matching, executed, profit, orderUpdates, cash>>

OrderTypes == {"limit", "market", "stop"}  \* "stop": market with stopLossPrice or takeProfitPrice
Sides == {"buy", "sell"}
PositionSides == {"long", "short"}
Statuses == {"open", "untriggered", "closed", "canceled"}
Done == {"closed", "canceled"}

\* What a script asks for; reduceOnly is only read in one-way mode, positionSide
\* only in hedge mode.
RequestType == [type : OrderTypes, side : Sides, amount : Amounts, price : Prices,
                reduceOnly : BOOLEAN, positionSide : PositionSides]

ASSUME RequestsTyped == Requests \in [BOOLEAN -> SUBSET RequestType]

NoPosition == [side |-> "", contracts |-> 0, value |-> 0]
NoCandle == [low |-> 0, high |-> 0, close |-> 0]
Candles == {k \in [low : Prices, high : Prices, close : Prices] :
              k.low <= k.close /\ k.close <= k.high}

Ids == 1 .. Len(orders)
OpenIds == {id \in Ids : orders[id].status \notin Done}
Ratio(side) == IF side = "buy" THEN 1 ELSE -1
PositionBySide(side) == IF side = "buy" THEN "long" ELSE "short"

\* The candle reaches the price of the order.
Crosses(id) == kline.low <= orders[id].price /\ orders[id].price <= kline.high

\* The lowest and the highest price of the book, 0 without orders.
LowestPrice(prices) == IF prices = {} THEN 0
                       ELSE CHOOSE p \in prices : \A q \in prices : p <= q
HighestPrice(prices) == IF prices = {} THEN 0
                        ELSE CHOOSE p \in prices : \A q \in prices : p >= q

Init ==
  /\ isHedgeMode \in BOOLEAN
  /\ orders = <<>>
  /\ positions = <<NoPosition, NoPosition>>
  /\ triggerPriceMax = 0
  /\ triggerPriceMin = 0
  /\ kline = NoCandle
  /\ matching = {}
  /\ executed = FALSE
  /\ profit = 0
  /\ orderUpdates = <<>>
  /\ cash = 0

-----------------------------------------------------------------------------
(* Positions.                                                              *)

PositionIndex(o) == IF isHedgeMode /\ o.positionSide # "long" THEN 2 ELSE 1

\* The lots an order fills: one against the position is clipped to it.
Filled(o, position) ==
  IF position.contracts > 0 /\ position.side # PositionBySide(o.side)
     /\ o.amount > position.contracts
  THEN position.contracts ELSE o.amount

\* The position after the order: opened, averaged, reduced or emptied.
Moved(o, position) ==
  LET amount == Filled(o, position)
  IN IF position.contracts = 0
     THEN [side |-> PositionBySide(o.side), contracts |-> amount,
           value |-> amount * o.price]
     ELSE IF position.side = PositionBySide(o.side)
     THEN [position EXCEPT !.contracts = @ + amount, !.value = @ + amount * o.price]
     ELSE IF amount = position.contracts THEN NoPosition
     ELSE [position EXCEPT !.contracts = @ - amount,
                           !.value = @ - (@ * amount) \div position.contracts]

\* The profit it realises: only against the position, its sign turned when
\* the position is short.
Realised(o, position) ==
  IF position.contracts = 0 \/ position.side = PositionBySide(o.side) THEN 0
  ELSE LET amount == Filled(o, position)
           gain == amount * o.price - (position.value * amount) \div position.contracts
       IN IF position.side = "short" THEN -gain ELSE gain

\* Mutant: the order reports its whole amount although it was clipped.
ExecuteUnclipped(id, book) ==
  LET o == book[id]
      i == PositionIndex(o)
  IN IF o.reduceOnly /\ positions[i].contracts = 0
     THEN /\ orders' = [book EXCEPT ![id].status = "canceled"]
          /\ UNCHANGED <<positions, profit, cash>>
     ELSE /\ positions' = [positions EXCEPT ![i] = Moved(o, positions[i])]
          /\ profit' = profit + Realised(o, positions[i])
          /\ cash' = cash - Ratio(o.side) * Filled(o, positions[i]) * o.price
          /\ orders' = [book EXCEPT ![id].status = "closed", ![id].filled = o.amount]

\* Mutant: a reduceOnly order opens the position it does not find.
ExecuteUnguarded(id, book) ==
  LET o == book[id]
      i == PositionIndex(o)
  IN /\ positions' = [positions EXCEPT ![i] = Moved(o, positions[i])]
     /\ profit' = profit + Realised(o, positions[i])
     /\ cash' = cash - Ratio(o.side) * Filled(o, positions[i]) * o.price
     /\ orders' = [book EXCEPT ![id].status = "closed",
                               ![id].filled = Filled(o, positions[i])]

\* execute(order) where the order, already in the book or just created, is
\* recorded in book[id]; a reduceOnly order without a position is canceled.
Execute(id, book) ==
  LET o == book[id]
      i == PositionIndex(o)
      amount == Filled(o, positions[i])
  IN IF o.reduceOnly /\ positions[i].contracts = 0
     THEN /\ orders' = [book EXCEPT ![id].status = "canceled"]
          /\ UNCHANGED <<positions, profit, cash>>
     ELSE /\ positions' = [positions EXCEPT ![i] = Moved(o, positions[i])]
          /\ profit' = profit + Realised(o, positions[i])
          /\ cash' = cash - Ratio(o.side) * amount * o.price
          /\ orders' = [book EXCEPT ![id].status = "closed", ![id].filled = amount]

-----------------------------------------------------------------------------
(* create, update (editOrder and cancelOrder) and the queue of updates.    *)

\* updateTriggerPriceLimits(price) widens the gate by one price.
WidenLimits(price) ==
  /\ triggerPriceMax' = IF triggerPriceMax = 0 \/ triggerPriceMax > price
                        THEN price ELSE triggerPriceMax
  /\ triggerPriceMin' = IF triggerPriceMin = 0 \/ triggerPriceMin < price
                        THEN price ELSE triggerPriceMin

\* A limit order beyond the current price is refused: nothing changes.
Accepted(r) ==
  r.type = "limit" => Ratio(r.side) * (r.price - kline.close) <= 0

\* In hedge mode the sides decide what is reduceOnly, whatever was asked for;
\* otherwise a stop order is reduceOnly.
ReduceOnly(r) ==
  IF isHedgeMode THEN r.positionSide # PositionBySide(r.side)
  ELSE r.reduceOnly \/ r.type = "stop"

NewOrder(r) ==
  [type |-> r.type, side |-> r.side, amount |-> r.amount,
   price |-> IF r.type = "market" THEN kline.close + Ratio(r.side) * HalfSpread
             ELSE r.price,
   status |-> IF r.type = "stop" THEN "untriggered" ELSE "open",
   reduceOnly |-> ReduceOnly(r), positionSide |-> r.positionSide,
   filled |-> 0]

\* Orders come once there is a candle.  A market order is executed at once,
\* any other waits in the book.
Create(r) ==
  LET id == Len(orders) + 1
      book == Append(orders, NewOrder(r))
  IN /\ matching = {}
     /\ kline # NoCandle
     /\ Len(orders) < MaxOrders
     /\ Accepted(r)
     /\ IF r.type = "market"
        THEN /\ Execute(id, book)
             /\ orderUpdates' = orderUpdates \o
                                <<<<id, "open">>, <<id, orders'[id].status>>>>
             /\ UNCHANGED <<triggerPriceMax, triggerPriceMin>>
        ELSE /\ orders' = book
             /\ orderUpdates' = Append(orderUpdates, <<id, book[id].status>>)
             /\ WidenLimits(book[id].price)
             /\ UNCHANGED <<positions, profit, cash>>
     /\ UNCHANGED <<kline, matching, executed>>

\* editOrder looks at open orders only, and leaves the price limits alone.
Edit(id, price, amount) ==
  /\ matching = {}
  /\ id \in Ids
  /\ orders[id].status = "open"
  /\ orders' = [orders EXCEPT ![id].price = price, ![id].amount = amount]
  /\ orderUpdates' = Append(orderUpdates, <<id, "open">>)
  /\ UNCHANGED <<positions, triggerPriceMax, triggerPriceMin, kline, matching,
                 executed, profit, cash>>

\* cancelOrder takes any order out of the book that is still in it.
Cancel(id) ==
  /\ matching = {}
  /\ id \in OpenIds
  /\ orders' = [orders EXCEPT ![id].status = "canceled"]
  /\ orderUpdates' = Append(orderUpdates, <<id, "canceled">>)
  /\ UNCHANGED <<positions, triggerPriceMax, triggerPriceMin, kline, matching,
                 executed, profit, cash>>

CheckOrdersUpdates ==
  /\ matching = {}
  /\ orderUpdates' = <<>>
  /\ UNCHANGED <<orders, positions, triggerPriceMax, triggerPriceMin, kline,
                 matching, executed, profit, cash>>

-----------------------------------------------------------------------------
(* Candles and matching.                                                   *)

SetNewCandle(k) ==
  /\ matching = {}
  /\ kline' = k
  /\ UNCHANGED <<orders, positions, triggerPriceMax, triggerPriceMin, matching, executed,
                 profit, orderUpdates, cash>>

\* Mutant: a candle that just touches a limit is not let through.
GateOpenStrict ==
  \/ triggerPriceMax # 0 /\ kline.high > triggerPriceMax
  \/ triggerPriceMin # 0 /\ kline.low < triggerPriceMin

\* The limits let the candle through to the book.
GateOpen ==
  \/ triggerPriceMax # 0 /\ kline.high >= triggerPriceMax
  \/ triggerPriceMin # 0 /\ kline.low <= triggerPriceMin

\* trigger(): the open orders, oldest first, are visited.
Trigger ==
  /\ matching = {}
  /\ kline # NoCandle
  /\ matching' = IF GateOpen THEN OpenIds ELSE {}
  /\ executed' = FALSE
  /\ UNCHANGED <<orders, positions, triggerPriceMax, triggerPriceMin, kline,
                 profit, orderUpdates, cash>>

\* One round of its loop visits the oldest of them; after the last one the
\* limits are computed anew if an order has been executed.
MatchNext ==
  \E id \in matching :
     /\ \A n \in matching : id <= n
     /\ IF Crosses(id)
        THEN /\ Execute(id, orders)
             /\ orderUpdates' = Append(orderUpdates, <<id, orders'[id].status>>)
        ELSE UNCHANGED <<orders, positions, profit, cash, orderUpdates>>
     /\ executed' = (executed \/ Crosses(id))
     /\ matching' = matching \ {id}
     /\ IF executed' /\ matching' = {}
        THEN LET prices == {orders'[n].price :
                              n \in {m \in Ids : orders'[m].status \notin Done}}
             IN /\ triggerPriceMax' = LowestPrice(prices)
                /\ triggerPriceMin' = HighestPrice(prices)
        ELSE UNCHANGED <<triggerPriceMax, triggerPriceMin>>
     /\ UNCHANGED kline

-----------------------------------------------------------------------------
Next ==
  /\ \/ \E r \in Requests[isHedgeMode] : Create(r)
     \/ \E id \in Ids, price \in Prices, amount \in EditAmounts : Edit(id, price, amount)
     \/ \E id \in Ids : Cancel(id)
     \/ CheckOrdersUpdates
     \/ \E k \in Candles : SetNewCandle(k)
     \/ Trigger
     \/ MatchNext
  /\ UNCHANGED isHedgeMode

Spec == Init /\ [][Next]_paperVars

-----------------------------------------------------------------------------
(* Properties.                                                             *)

Signed(position, n) == IF position.side = "short" THEN -n ELSE n

\* The lots that the orders of a position have filled, signed by their side.
Fills(i) == [id \in Ids |-> IF PositionIndex(orders[id]) = i
                            THEN Ratio(orders[id].side) * orders[id].filled ELSE 0]

\* What execute does to a position is what the closed orders of that position
\* have filled, clipped and canceled ones included: no lot appears or is lost.
PositionMatchesFills ==
  \A i \in 1..2 :
    Signed(positions[i], positions[i].contracts) = SumTo(Fills(i), Len(orders))

\* getProfit() is what the fills have really earned: the cash they moved plus
\* the entry value of what is still open, long or short, averaged or reduced.
ProfitMatchesCash ==
  profit = cash + Signed(positions[1], positions[1].value)
                + Signed(positions[2], positions[2].value)

\* In hedge mode the long position is only ever long, the short one short.
PositionsKeepSides ==
  isHedgeMode => positions[1].side # "short" /\ positions[2].side # "long"

\* The book of OrderService is what its fills have made of it: its positions
\* by lots and by side, and its profit.
BookFollowsFills == PositionMatchesFills /\ ProfitMatchesCash /\ PositionsKeepSides

\* The gate triggerPriceMax / triggerPriceMin, which edits and cancels leave as
\* it was, never hides from trigger() an order that the candle reaches.
CrossedOrdersMatched ==
  [][Trigger => \A id \in OpenIds : Crosses(id) => id \in matching']_paperVars

\* In hedge mode an order that is reduceOnly makes its position smaller when it
\* executes, whatever has happened to the position while the order waited.
ReduceOnlyReduces ==
  [][isHedgeMode => \A id \in DOMAIN orders' :
       /\ orders'[id].reduceOnly
       /\ orders'[id].status = "closed"
       /\ id \in Ids => orders[id].status # "closed"
       => LET i == PositionIndex(orders'[id])
          IN positions'[i].contracts < positions[i].contracts]_paperVars
=============================================================================
