-------------------------- MODULE TesterTickProofs --------------------------
(***************************************************************************)
(* Proofs about PaperExchange and TesterTick, which runs on it, for every  *)
(* set of prices, amounts and requests, every spread, every history and    *)
(* every bound.                                                            *)
(***************************************************************************)
EXTENDS TesterTick, InductionProofs, FiniteSetTheorems

Positive == Nat \ {0}
OrderType == [type : OrderTypes, side : Sides, amount : Positive, price : Positive,
              status : Statuses, reduceOnly : BOOLEAN, positionSide : PositionSides,
              filled : Nat]
PositionType == [side : {"", "long", "short"}, contracts : Nat, value : Int]

PaperTypeOK ==
  /\ isHedgeMode \in BOOLEAN
  /\ orders \in Seq(OrderType)
  /\ positions \in [1..2 -> PositionType]
  /\ triggerPriceMax \in Nat
  /\ triggerPriceMin \in Nat
  /\ kline \in Candles \cup {NoCandle}
  /\ matching \in SUBSET Ids
  /\ executed \in BOOLEAN
  /\ profit \in Int
  /\ cash \in Int
  /\ orderUpdates \in Seq(Nat \X Statuses)

\* A position without lots is a new one; one with lots has a side.
EmptyIsNew(p) == (p.contracts = 0 <=> p.side = "") /\ (p.contracts = 0 => p.value = 0)
PositionsWhole == \A i \in 1..2 : EmptyIsNew(positions[i])

\* While an order waits the limits are set, the lower one named Max: whatever
\* price an edit gives it, one of the two is not beyond it.
LimitsCross == OpenIds # {} => /\ 0 < triggerPriceMax
                               /\ triggerPriceMax <= triggerPriceMin

\* In hedge mode an order that is reduceOnly trades against its position.
ReduceAgainst ==
  isHedgeMode => \A id \in Ids :
    orders[id].reduceOnly <=> orders[id].positionSide # PositionBySide(orders[id].side)

PaperInv ==
  /\ PaperTypeOK
  /\ PositionsWhole
  /\ LimitsCross
  /\ ReduceAgainst
  /\ PositionsKeepSides
  /\ ProfitMatchesCash

-----------------------------------------------------------------------------
(* Arithmetic of positions.                                                *)

LEMMA DivisionExact ==
  ASSUME NEW v \in Int, NEW c \in Positive PROVE (v * c) \div c = v
BY DEF Positive

LEMMA Quotient ==
  ASSUME NEW v \in Int, NEW a \in Nat, NEW c \in Positive
  PROVE  (v * a) \div c \in Int
BY DEF Positive

LEMMA Turnover ==
  ASSUME NEW side \in Sides, NEW a \in Nat, NEW price \in Nat
  PROVE  /\ a * price \in Int
         /\ Ratio(side) * a * price = IF side = "buy" THEN a * price ELSE -(a * price)
BY DEF Sides, Ratio

LEMMA SignedNumber ==
  ASSUME NEW q, NEW n \in Int
  PROVE  /\ Signed(q, n) \in Int
         /\ q.side = "short" => Signed(q, n) = -n
         /\ q.side # "short" => Signed(q, n) = n
BY DEF Signed

LEMMA NoPositionTyped ==
  /\ NoPosition \in PositionType
  /\ EmptyIsNew(NoPosition)
  /\ NoPosition.side = "" /\ NoPosition.contracts = 0 /\ NoPosition.value = 0
BY DEF NoPosition, PositionType, EmptyIsNew

LEMMA WayTyped ==
  ASSUME NEW side PROVE PositionBySide(side) \in {"long", "short"}
BY DEF PositionBySide

\* What an order does to a position: it fills at least a lot, an order against the
\* position makes it smaller, and the profit it realises is what the fill pays plus
\* what the position's entry value grows by.
LEMMA PositionMoves ==
  ASSUME NEW o \in OrderType, NEW p \in PositionType, EmptyIsNew(p)
  PROVE  /\ Filled(o, p) \in Positive
         /\ Moved(o, p) \in PositionType
         /\ EmptyIsNew(Moved(o, p))
         /\ Realised(o, p) \in Int
         /\ p.contracts = 0 \/ p.side = PositionBySide(o.side)
              => Moved(o, p).side = PositionBySide(o.side)
         /\ p.contracts # 0 /\ p.side # PositionBySide(o.side)
              => Moved(o, p).contracts < p.contracts /\ Moved(o, p).side \in {p.side, ""}
         /\ Realised(o, p) = -(Ratio(o.side) * Filled(o, p) * o.price)
                             + Signed(Moved(o, p), Moved(o, p).value) - Signed(p, p.value)
<1> DEFINE a == Filled(o, p)
           way == PositionBySide(o.side)
           gain == a * o.price
           part == (p.value * a) \div p.contracts
           paid == Ratio(o.side) * a * o.price
<1>1. /\ o.amount \in Positive /\ o.price \in Nat
      /\ p.contracts \in Nat /\ p.value \in Int
  BY DEF OrderType, PositionType, Positive
<1>2. /\ o.side \in Sides /\ p.side \in {"", "long", "short"}
  BY DEF OrderType, PositionType
<1>3. Filled(o, p) \in Positive
  BY <1>1 DEF Filled, Positive
<1>w. way \in {"long", "short"} /\ (way = "long" <=> o.side = "buy")
  BY DEF PositionBySide
<1>4. /\ gain \in Int /\ paid \in Int
      /\ o.side = "buy" => paid = gain
      /\ o.side # "buy" => paid = -gain
  <2> HIDE DEF way
  <2>1. a \in Nat
    BY <1>3 DEF Positive
  <2> HIDE DEF a
  <2>2. gain \in Int /\ -gain \in Int
    BY <1>1, <2>1
  <2>3. paid = IF o.side = "buy" THEN gain ELSE -gain
    BY <1>1, <1>2, <2>1, Turnover
  <2> HIDE DEF paid, gain
  <2>4. QED
    BY <2>2, <2>3
<1> HIDE DEF way, gain, paid
<1>5. CASE p.contracts = 0
  <2>1. Moved(o, p) = [side |-> way, contracts |-> a, value |-> gain]
    BY <1>5 DEF Moved, gain, way
  <2>2. Realised(o, p) = 0
    BY <1>5 DEF Realised
  <2>3. p.side = "" /\ p.value = 0
    BY <1>5 DEF EmptyIsNew
  <2>4. /\ Moved(o, p).side = way
        /\ Moved(o, p).contracts = a
        /\ Moved(o, p).value = gain
    BY <2>1
  <2>5. Moved(o, p) \in PositionType
    <3>1. a \in Nat
      BY <1>3 DEF Positive
    <3> HIDE DEF a
    <3>2. way \in {"", "long", "short"} /\ gain \in Int
      BY <1>w, <1>4
    <3>3. [side |-> way, contracts |-> a, value |-> gain] \in PositionType
      BY <3>1, <3>2 DEF PositionType
    <3>4. QED
      BY <2>1, <3>3
  <2>6. EmptyIsNew(Moved(o, p))
    BY <1>w, <1>3, <2>4 DEF EmptyIsNew, Positive
  <2>7. way = "short" <=> o.side # "buy"
    BY <1>w
  <2>8. Signed(Moved(o, p), gain) = paid
    BY <1>4, <2>4, <2>7, SignedNumber
  <2>9. Signed(p, p.value) = 0
    BY <2>3 DEF Signed
  <2>10. Realised(o, p) = -paid + Signed(Moved(o, p), Moved(o, p).value)
                                - Signed(p, p.value)
    BY <1>4, <2>2, <2>4, <2>8, <2>9
  <2>11. QED
    BY <1>3, <1>5, <2>2, <2>4, <2>5, <2>6, <2>10 DEF a, way, paid
<1>6. CASE p.contracts # 0 /\ p.side = way
  <2> DEFINE c == p.contracts + a
             v == p.value + gain
  <2>1. Moved(o, p) = [p EXCEPT !.contracts = c, !.value = v]
    BY <1>6 DEF Moved, gain, way
  <2>2. Realised(o, p) = 0
    BY <1>6 DEF Realised, way
  <2>3. c \in Nat /\ c # 0 /\ v \in Int
    BY <1>1, <1>3, <1>4 DEF Positive
  <2> HIDE DEF c, v
  <2>4. /\ Moved(o, p).side = p.side
        /\ Moved(o, p).contracts = c
        /\ Moved(o, p).value = v
    BY <2>1 DEF PositionType
  <2>5. Moved(o, p) \in PositionType
    BY <2>1, <2>3 DEF PositionType
  <2>6. EmptyIsNew(Moved(o, p))
    BY <1>w, <1>6, <2>3, <2>4 DEF EmptyIsNew
  <2>7. p.side = "short" <=> o.side # "buy"
    BY <1>w, <1>6
  <2>8. Signed(Moved(o, p), v) = IF p.side = "short" THEN -v ELSE v
    BY <2>4 DEF Signed
  <2>9. Signed(p, p.value) = IF p.side = "short" THEN -p.value ELSE p.value
    BY DEF Signed
  <2>10. Realised(o, p) = -paid + Signed(Moved(o, p), Moved(o, p).value)
                                - Signed(p, p.value)
    BY <1>1, <1>4, <2>2, <2>4, <2>7, <2>8, <2>9 DEF v
  <2>11. QED
    BY <1>3, <1>6, <2>2, <2>4, <2>5, <2>6, <2>10 DEF a, way, paid
<1>7. CASE p.contracts # 0 /\ p.side # way
  <2>1. a <= p.contracts
    BY <1>1, <1>7 DEF Filled, way, Positive
  <2>2. part \in Int
    BY <1>1, <1>3, <1>7, Quotient DEF Positive
  <2>3. Realised(o, p) = IF p.side = "short" THEN -(gain - part) ELSE gain - part
    BY <1>7 DEF Realised, gain, way
  <2>4. /\ Moved(o, p) \in PositionType
        /\ EmptyIsNew(Moved(o, p))
        /\ Moved(o, p).contracts < p.contracts
        /\ Moved(o, p).side \in {p.side, ""}
        /\ Signed(Moved(o, p), Moved(o, p).value) - Signed(p, p.value) =
             IF p.side = "short" THEN part ELSE -part
    <3>1. CASE a = p.contracts
      <4>1. part = p.value
        BY <1>1, <1>3, <3>1, DivisionExact
      <4>2. Moved(o, p) = NoPosition
        BY <1>7, <3>1 DEF Moved, way
      <4> HIDE DEF part
      <4>3. /\ Moved(o, p).side = ""
            /\ Moved(o, p).contracts = 0
            /\ Moved(o, p).value = 0
        BY <4>2, NoPositionTyped
      <4>4. Moved(o, p) \in PositionType /\ EmptyIsNew(Moved(o, p))
        BY <4>2, NoPositionTyped
      <4>5. Signed(Moved(o, p), Moved(o, p).value) = 0
        BY <4>3 DEF Signed
      <4>6. Signed(p, p.value) = IF p.side = "short" THEN -p.value ELSE p.value
        BY DEF Signed
      <4>7. Moved(o, p).contracts < p.contracts
        <5>1. 0 < p.contracts
          BY <1>1, <1>7
        <5>2. QED
          BY <4>3, <5>1
      <4>8. 0 - Signed(p, p.value) = IF p.side = "short" THEN part ELSE -part
        BY <1>1, <4>1, <4>6
      <4>9. QED
        BY <4>3, <4>4, <4>5, <4>7, <4>8
    <3>2. CASE a # p.contracts
      <4> DEFINE c == p.contracts - a
                 v == p.value - part
      <4>1. Moved(o, p) = [p EXCEPT !.contracts = c, !.value = v]
        BY <1>7, <3>2 DEF Moved, way
      <4> HIDE DEF part
      <4>2. c \in Nat /\ c # 0 /\ c < p.contracts /\ v \in Int
        BY <1>1, <1>3, <2>1, <2>2, <3>2 DEF Positive
      <4> HIDE DEF c, v
      <4>3. /\ Moved(o, p).side = p.side
            /\ Moved(o, p).contracts = c
            /\ Moved(o, p).value = v
        BY <4>1 DEF PositionType
      <4>4. Moved(o, p) \in PositionType
        BY <4>1, <4>2 DEF PositionType
      <4>5. EmptyIsNew(Moved(o, p))
        BY <1>7, <4>2, <4>3 DEF EmptyIsNew
      <4>6. Signed(Moved(o, p), v) = IF p.side = "short" THEN -v ELSE v
        BY <4>3 DEF Signed
      <4>7. Signed(p, p.value) = IF p.side = "short" THEN -p.value ELSE p.value
        BY DEF Signed
      <4>8. Signed(Moved(o, p), v) - Signed(p, p.value) =
              IF p.side = "short" THEN part ELSE -part
        BY <1>1, <2>2, <4>6, <4>7 DEF v
      <4>9. QED
        BY <4>2, <4>3, <4>4, <4>5, <4>8
    <3>3. QED
      BY <3>1, <3>2
  <2> HIDE DEF part
  <2>5. p.side = "short" <=> o.side = "buy"
    BY <1>w, <1>2, <1>7 DEF EmptyIsNew
  <2>6. Realised(o, p) = -paid + Signed(Moved(o, p), Moved(o, p).value)
                               - Signed(p, p.value)
    <3> DEFINE after == Signed(Moved(o, p), Moved(o, p).value)
               before == Signed(p, p.value)
    <3>1. after \in Int /\ before \in Int
      BY <1>1, <2>4, SignedNumber DEF PositionType
    <3>2. after - before = IF p.side = "short" THEN part ELSE -part
      BY <2>4
    <3> HIDE DEF after, before
    <3>3. Realised(o, p) = -paid + after - before
      BY <1>4, <2>2, <2>3, <2>5, <3>1, <3>2
    <3>4. QED
      BY <3>3 DEF after, before
  <2>7. Realised(o, p) \in Int
    BY <1>4, <2>2, <2>3
  <2>8. QED
    BY <1>3, <1>7, <2>4, <2>6, <2>7 DEF a, way, paid
<1>8. QED
  BY <1>5, <1>6, <1>7
-----------------------------------------------------------------------------
(* Execution of an order.                                                  *)

LEMMA ReplacedInSeq ==
  ASSUME NEW T, NEW book \in Seq(T), NEW id \in 1..Len(book), NEW x \in T
  PROVE  /\ [book EXCEPT ![id] = x] \in Seq(T)
         /\ Len([book EXCEPT ![id] = x]) = Len(book)
         /\ [book EXCEPT ![id] = x][id] = x
         /\ \A n \in 1..Len(book) : n # id => [book EXCEPT ![id] = x][n] = book[n]
OBVIOUS

\* What the other lemmas need of the positions and the money.
Money ==
  /\ positions \in [1..2 -> PositionType]
  /\ profit \in Int
  /\ cash \in Int
  /\ PositionsWhole
  /\ PositionsKeepSides
  /\ ProfitMatchesCash

\* A reduceOnly order is one that trades against its position, in hedge mode.
AgainstPosition(o) ==
  isHedgeMode => (o.reduceOnly <=> o.positionSide # PositionBySide(o.side))

\* An execution ends its order and no other, keeps what the order asked for, and
\* leaves positions and money in agreement; a reduceOnly order of hedge mode that it
\* closes has made its position smaller.
LEMMA Execution ==
  ASSUME isHedgeMode \in BOOLEAN, Money,
         NEW book \in Seq(OrderType), NEW id \in 1..Len(book),
         AgainstPosition(book[id]),
         Execute(id, book), isHedgeMode' = isHedgeMode
  PROVE  /\ orders' \in Seq(OrderType)
         /\ Len(orders') = Len(book)
         /\ \A n \in 1..Len(book) : n # id => orders'[n] = book[n]
         /\ orders'[id].status \in Done
         /\ orders'[id].reduceOnly = book[id].reduceOnly
         /\ orders'[id].side = book[id].side
         /\ orders'[id].positionSide = book[id].positionSide
         /\ Money'
         /\ isHedgeMode /\ book[id].reduceOnly /\ orders'[id].status = "closed"
              => LET i == PositionIndex(book[id])
                 IN positions'[i].contracts < positions[i].contracts
<1> DEFINE o == book[id]
           i == PositionIndex(o)
           p == positions[i]
           paid == Ratio(o.side) * Filled(o, p) * o.price
<1>1. o \in OrderType
  OBVIOUS
<1>2. i \in 1..2
  BY DEF PositionIndex
<1>3. p \in PositionType /\ EmptyIsNew(p)
  BY <1>2 DEF Money, PositionsWhole
<1> HIDE DEF o, i
<1>4. CASE o.reduceOnly /\ p.contracts = 0
  <2> DEFINE x == [o EXCEPT !.status = "canceled"]
  <2>1. orders' = [book EXCEPT ![id] = x] /\ UNCHANGED <<positions, profit, cash>>
    BY <1>4 DEF Execute, o, i
  <2>2. x \in OrderType /\ x.status = "canceled" /\ x.reduceOnly = o.reduceOnly
        /\ x.side = o.side /\ x.positionSide = o.positionSide
    BY <1>1 DEF OrderType, Statuses
  <2> HIDE DEF x
  <2>3. /\ orders' \in Seq(OrderType)
        /\ Len(orders') = Len(book)
        /\ \A n \in 1..Len(book) : n # id => orders'[n] = book[n]
        /\ orders'[id] = x
    BY <2>1, <2>2, ReplacedInSeq
  <2>4. Money'
    BY <2>1 DEF Money, PositionsWhole, PositionsKeepSides, ProfitMatchesCash, Signed,
                EmptyIsNew
  <2>5. QED
    BY <2>2, <2>3, <2>4 DEF o, Done
<1>5. CASE ~(o.reduceOnly /\ p.contracts = 0)
  <2> DEFINE x == [o EXCEPT !.status = "closed", !.filled = Filled(o, p)]
             new == Moved(o, p)
  <2>1. /\ orders' = [book EXCEPT ![id] = x]
        /\ positions' = [positions EXCEPT ![i] = new]
        /\ profit' = profit + Realised(o, p)
        /\ cash' = cash - paid
    <3>1. orders' = [book EXCEPT ![id].status = "closed", ![id].filled = Filled(o, p)]
      BY <1>5 DEF Execute, o, i
    <3>2. QED
      BY <1>5, <3>1 DEF Execute, o, i
  <2>2. /\ Filled(o, p) \in Positive
        /\ new \in PositionType
        /\ EmptyIsNew(new)
        /\ Realised(o, p) \in Int
        /\ p.contracts = 0 \/ p.side = PositionBySide(o.side)
             => new.side = PositionBySide(o.side)
        /\ p.contracts # 0 /\ p.side # PositionBySide(o.side)
             => new.contracts < p.contracts /\ new.side \in {p.side, ""}
        /\ Realised(o, p) = -paid + Signed(new, new.value) - Signed(p, p.value)
    BY <1>1, <1>3, PositionMoves
  <2>3. x \in OrderType /\ x.status = "closed" /\ x.reduceOnly = o.reduceOnly
        /\ x.side = o.side /\ x.positionSide = o.positionSide
    BY <1>1, <2>2 DEF OrderType, Statuses, Positive
  <2> HIDE DEF x, new, p, paid
  <2>4. /\ orders' \in Seq(OrderType)
        /\ Len(orders') = Len(book)
        /\ \A n \in 1..Len(book) : n # id => orders'[n] = book[n]
        /\ orders'[id] = x
    BY <2>1, <2>3, ReplacedInSeq
  <2>5. /\ positions' \in [1..2 -> PositionType]
        /\ positions'[i] = new
        /\ \A j \in 1..2 : j # i => positions'[j] = positions[j]
    BY <1>2, <2>1, <2>2 DEF Money
  <2>6. PositionsWhole'
    <3>1. EmptyIsNew(new)
      BY <2>2
    <3>2. \A j \in 1..2 : EmptyIsNew(positions'[j])
      BY <2>5, <3>1 DEF Money, PositionsWhole
    <3>3. QED
      BY <3>2 DEF PositionsWhole, EmptyIsNew
  <2>7. paid \in Int
    <3>1. o.side \in Sides /\ o.price \in Nat /\ Filled(o, p) \in Nat
      BY <1>1, <2>2 DEF OrderType, Positive
    <3>2. Filled(o, p) * o.price \in Int
      BY <3>1, Turnover
    <3>3. paid = IF o.side = "buy" THEN Filled(o, p) * o.price
                 ELSE -(Filled(o, p) * o.price)
      BY <3>1, Turnover DEF paid
    <3>4. QED
      BY <3>2, <3>3
  <2>8. profit' \in Int /\ cash' \in Int
    <3>1. Realised(o, p) \in Int /\ profit \in Int /\ cash \in Int
      BY <2>2 DEF Money
    <3>2. QED
      BY <2>1, <2>7, <3>1
  <2>9. ASSUME isHedgeMode
        PROVE  /\ positions'[1].side # "short" /\ positions'[2].side # "long"
               /\ o.reduceOnly => new.contracts < p.contracts
    <3>1. /\ o.positionSide \in PositionSides
          /\ i = IF o.positionSide # "long" THEN 2 ELSE 1
      BY <1>1, <2>9 DEF OrderType, PositionIndex, i
    <3>2. /\ positions[1].side # "short"
          /\ positions[2].side # "long"
      BY <2>9 DEF Money, PositionsKeepSides
    <3>3. o.reduceOnly <=> o.positionSide # PositionBySide(o.side)
      BY <2>9 DEF AgainstPosition, o
    <3>4. p.contracts # 0 => p.side = o.positionSide
      BY <1>3, <3>1, <3>2 DEF PositionType, EmptyIsNew, PositionSides, p
    <3>5. o.reduceOnly => p.contracts # 0 /\ p.side # PositionBySide(o.side)
      BY <1>5, <3>3, <3>4
    <3>6. new.side \in {"", o.positionSide}
      <4>1. CASE o.reduceOnly
        BY <2>2, <3>4, <3>5, <4>1
      <4>2. CASE ~o.reduceOnly
        <5>1. PositionBySide(o.side) = o.positionSide
          BY <3>3, <4>2
        <5>2. p.contracts = 0 \/ p.side = PositionBySide(o.side)
          BY <3>4, <5>1
        <5>3. QED
          BY <2>2, <5>1, <5>2
      <4>3. QED
        BY <4>1, <4>2
    <3>7. positions'[1].side # "short" /\ positions'[2].side # "long"
      <4>1. CASE o.positionSide = "long"
        <5>1. i = 1 /\ new.side # "short"
          BY <3>1, <3>6, <4>1
        <5>2. positions'[1] = new /\ positions'[2] = positions[2]
          BY <2>5, <5>1
        <5>3. QED
          BY <3>2, <5>1, <5>2
      <4>2. CASE o.positionSide # "long"
        <5>1. i = 2 /\ new.side # "long"
          BY <3>1, <3>6, <4>2
        <5>2. positions'[2] = new /\ positions'[1] = positions[1]
          BY <2>5, <5>1
        <5>3. QED
          BY <3>2, <5>1, <5>2
      <4>3. QED
        BY <4>1, <4>2
    <3>8. QED
      BY <2>2, <3>5, <3>7
  <2>10. PositionsKeepSides'
    BY <2>9 DEF PositionsKeepSides
  <2>11. ProfitMatchesCash'
    <3> DEFINE before(j) == Signed(positions[j], positions[j].value)
               after(j) == Signed(positions'[j], positions'[j].value)
    <3>1. \A j \in 1..2 : before(j) \in Int
      BY SignedNumber DEF Money, PositionType
    <3>2. \A j \in 1..2 : after(j) \in Int
      BY <2>5, SignedNumber DEF PositionType
    <3>3. \A j \in 1..2 : j # i => after(j) = before(j)
      BY <2>5
    <3>4. Realised(o, p) = -paid + after(i) - before(i)
      BY <2>2, <2>5 DEF p
    <3>5. profit = cash + before(1) + before(2)
      BY DEF Money, ProfitMatchesCash
    <3>6. profit \in Int /\ cash \in Int
      BY DEF Money
    <3> HIDE DEF before, after
    <3>7. profit' = cash' + after(1) + after(2)
      <4>1. /\ before(1) \in Int /\ before(2) \in Int
            /\ after(1) \in Int /\ after(2) \in Int
        BY <3>1, <3>2
      <4>2. CASE i = 1
        <5>1. after(2) = before(2) /\ Realised(o, p) = -paid + after(1) - before(1)
          BY <3>3, <3>4, <4>2
        <5>2. QED
          BY <2>1, <2>7, <3>5, <3>6, <4>1, <5>1
      <4>3. CASE i = 2
        <5>1. after(1) = before(1) /\ Realised(o, p) = -paid + after(2) - before(2)
          BY <3>3, <3>4, <4>3
        <5>2. QED
          BY SMTT(30), <2>1, <2>7, <3>5, <3>6, <4>1, <5>1
      <4>4. QED
        BY <1>2, <4>2, <4>3
    <3>8. QED
      BY <3>7 DEF ProfitMatchesCash, Signed, after
  <2>12. Money'
    BY <2>5, <2>6, <2>8, <2>10, <2>11 DEF Money
  <2>13. isHedgeMode /\ o.reduceOnly => positions'[i].contracts < positions[i].contracts
    BY <2>5, <2>9 DEF p
  <2>14. QED
    BY <2>3, <2>4, <2>12, <2>13 DEF o, i, Done
<1>6. QED
  BY <1>4, <1>5
-----------------------------------------------------------------------------
(* The limits of the book.                                                 *)

\* Finitely many prices have a lowest and a highest: a smallest set of orders without
\* them would still have none after one of its orders is taken away.
LEMMA Extremes ==
  ASSUME NEW I, IsFiniteSet(I), I # {}, NEW f \in [I -> Nat]
  PROVE  \E lo, hi \in I : \A i \in I : f[lo] <= f[i] /\ f[i] <= f[hi]
<1> DEFINE Bounded(X) == \E lo, hi \in X : \A i \in X : f[lo] <= f[i] /\ f[i] <= f[hi]
           bad == {X \in SUBSET I : X # {} /\ ~Bounded(X)}
<1>1. SUFFICES ASSUME bad # {} PROVE FALSE
  BY DEF Bounded
<1>2. IsWellFoundedOn(StrictSubsetOrdering(I), SUBSET I)
  BY FS_StrictSubsetOrderingWellFounded, FS_FiniteSubsetsOfFinite
<1>3. PICK X \in bad : \A Y \in bad : <<Y, X>> \notin StrictSubsetOrdering(I)
  <2>1. bad \subseteq SUBSET I
    OBVIOUS
  <2> HIDE DEF bad
  <2>2. QED
    BY <1>1, <1>2, <2>1, WFMin
<1>4. PICK e \in X : TRUE
  BY <1>3
<1>5. X \in SUBSET I /\ ~Bounded(X)
  BY <1>3
<1>6. X \ {e} \in SUBSET I /\ <<X \ {e}, X>> \in StrictSubsetOrdering(I)
  BY <1>4, <1>5 DEF StrictSubsetOrdering
<1>7. X \ {e} = {} \/ Bounded(X \ {e})
  BY <1>3, <1>6
<1> HIDE DEF bad
<1>8. CASE X \ {e} = {}
  <2>1. \A i \in X : i = e
    BY <1>4, <1>8
  <2>2. f[e] \in Nat
    BY <1>4, <1>5
  <2>3. QED
    BY <1>4, <1>5, <2>1, <2>2
<1>9. CASE Bounded(X \ {e})
  <2>1. PICK lo \in X, hi \in X : \A i \in X : i # e => f[lo] <= f[i] /\ f[i] <= f[hi]
    BY <1>9
  <2>2. \A i \in X : f[i] \in Nat
    BY <1>5
  <2> DEFINE l == IF f[e] < f[lo] THEN e ELSE lo
             h == IF f[e] > f[hi] THEN e ELSE hi
  <2>3. l \in X /\ h \in X /\ \A i \in X : f[l] <= f[i] /\ f[i] <= f[h]
    <3>1. f[e] \in Nat /\ f[lo] \in Nat /\ f[hi] \in Nat /\ e \in X
      BY <1>4, <2>1, <2>2
    <3>2. /\ l \in X /\ f[l] \in Nat /\ f[l] <= f[e] /\ f[l] <= f[lo]
          /\ h \in X /\ f[h] \in Nat /\ f[e] <= f[h] /\ f[hi] <= f[h]
      <4>1. /\ l \in X /\ f[l] \in Nat /\ f[l] <= f[e] /\ f[l] <= f[lo]
        BY <2>1, <3>1
      <4>2. /\ h \in X /\ f[h] \in Nat /\ f[e] <= f[h] /\ f[hi] <= f[h]
        BY <2>1, <3>1
      <4>3. QED
        BY <4>1, <4>2
    <3> HIDE DEF l, h
    <3>3. ASSUME NEW i \in X PROVE f[l] <= f[i] /\ f[i] <= f[h]
      <4>1. CASE i = e
        BY <3>2, <4>1
      <4>2. CASE i # e
        <5>1. f[i] \in Nat /\ f[lo] <= f[i] /\ f[i] <= f[hi]
          BY <2>1, <2>2, <4>2
        <5>2. f[l] <= f[lo] /\ f[hi] <= f[h]
          BY <3>2
        <5>3. f[l] \in Nat /\ f[h] \in Nat
          BY <3>2
        <5>4. QED
          BY <3>1, <5>1, <5>2, <5>3
      <4>3. QED
        BY <4>1, <4>2
    <3>4. QED
      BY <3>2, <3>3
  <2> HIDE DEF l, h
  <2>4. Bounded(X)
    BY <2>3
  <2>5. QED
    BY <1>5, <2>4
<1>10. QED
  BY <1>7, <1>8, <1>9

\* Of a book with orders, the lowest price is not above the highest.
LEMMA LimitsOfBook ==
  ASSUME NEW n \in Nat, NEW I \in SUBSET (1..n), NEW f \in [I -> Positive]
  PROVE  LET prices == {f[i] : i \in I}
         IN /\ LowestPrice(prices) \in Nat /\ HighestPrice(prices) \in Nat
            /\ I # {} => /\ 0 < LowestPrice(prices)
                         /\ LowestPrice(prices) <= HighestPrice(prices)
<1> DEFINE prices == {f[i] : i \in I}
           IsLow(p) == \A q \in prices : p <= q
           IsHigh(p) == \A q \in prices : p >= q
<1>1. CASE I = {}
  <2>1. prices = {}
    BY <1>1
  <2>2. QED
    <3> HIDE DEF prices
    <3>1. LowestPrice(prices) = 0 /\ HighestPrice(prices) = 0
      BY <2>1 DEF LowestPrice, HighestPrice
    <3>2. QED
      BY <1>1, <3>1 DEF prices
<1>2. CASE I # {}
  <2>1. IsFiniteSet(I)
    <3>1. IsFiniteSet(1..n)
      BY FS_Interval
    <3>2. QED
      BY <3>1, FS_Subset
  <2>2. f \in [I -> Nat]
    BY DEF Positive
  <2>3. PICK lo, hi \in I : \A i \in I : f[lo] <= f[i] /\ f[i] <= f[hi]
    BY <1>2, <2>1, <2>2, Extremes
  <2>4. /\ f[lo] \in prices /\ IsLow(f[lo])
        /\ f[hi] \in prices /\ IsHigh(f[hi])
    BY <2>2, <2>3
  <2>5. /\ prices # {}
        /\ \A p \in prices : p \in Nat /\ 0 < p
    BY <1>2 DEF Positive
  <2>6. /\ LowestPrice(prices) = CHOOSE p \in prices : IsLow(p)
        /\ HighestPrice(prices) = CHOOSE p \in prices : IsHigh(p)
    BY <2>5 DEF LowestPrice, HighestPrice
  <2> HIDE DEF prices
  <2>7. LowestPrice(prices) \in prices /\ IsLow(LowestPrice(prices))
    BY <2>4, <2>6
  <2>8. HighestPrice(prices) \in prices /\ IsHigh(HighestPrice(prices))
    BY <2>4, <2>6
  <2>9. QED
    BY <2>5, <2>7, <2>8 DEF prices
<1>3. QED
  BY <1>1, <1>2
-----------------------------------------------------------------------------
(* The invariant of the book.                                              *)

LEMMA MoneyOfInv == PaperInv => Money
BY DEF PaperInv, PaperTypeOK, Money

\* As long as no other order opens, limits that stay still cover the book.
LEMMA LimitsStay ==
  ASSUME LimitsCross, UNCHANGED <<triggerPriceMax, triggerPriceMin>>,
         \A id \in Ids' : orders'[id].status \notin Done =>
           id \in Ids /\ orders[id].status \notin Done
  PROVE  LimitsCross'
<1>1. OpenIds' # {} => OpenIds # {}
  BY DEF OpenIds
<1>2. QED
  BY <1>1 DEF LimitsCross

\* What a step has to show when it changes the book.
LEMMA BookStep ==
  ASSUME PaperInv, isHedgeMode' = isHedgeMode,
         Money', LimitsCross',
         orders' \in Seq(OrderType),
         Len(orders) <= Len(orders'),
         \A id \in 1..Len(orders') : AgainstPosition(orders'[id]),
         kline' = kline, matching' \subseteq matching, executed' \in BOOLEAN,
         triggerPriceMax' \in Nat, triggerPriceMin' \in Nat,
         orderUpdates' \in Seq(Nat \X Statuses)
  PROVE  PaperInv'
<1>1. matching' \in SUBSET Ids'
  BY DEF PaperInv, PaperTypeOK, Ids
<1>2. PaperTypeOK'
  BY <1>1 DEF PaperInv, PaperTypeOK, Money
<1>3. ReduceAgainst'
  BY DEF ReduceAgainst, AgainstPosition, Ids, PositionBySide
<1>4. QED
  BY <1>2, <1>3 DEF PaperInv, Money

LEMMA PaperInit == Init => PaperInv
<1> SUFFICES ASSUME Init PROVE PaperInv
  OBVIOUS
<1>1. Ids = {}
  BY DEF Init, Ids
<1>2. \A i \in 1..2 : positions[i] = NoPosition
  BY DEF Init
<1>3. PaperTypeOK
  <2>1. positions \in [1..2 -> PositionType]
    <3>1. positions = <<NoPosition, NoPosition>>
      BY DEF Init
    <3> HIDE DEF NoPosition
    <3>2. \A i \in 1..2 : <<NoPosition, NoPosition>>[i] = NoPosition
      OBVIOUS
    <3>3. NoPosition \in PositionType
      BY NoPositionTyped
    <3>4. <<NoPosition, NoPosition>> \in [1..2 -> PositionType]
      BY <3>2, <3>3
    <3>5. QED
      BY <3>1, <3>4
  <2>2. /\ triggerPriceMax = 0 /\ triggerPriceMin = 0 /\ profit = 0 /\ cash = 0
        /\ executed = FALSE
    BY DEF Init
  <2>3. /\ kline \in Candles \cup {NoCandle}
        /\ isHedgeMode \in BOOLEAN
        /\ orders \in Seq(OrderType)
        /\ orderUpdates \in Seq(Nat \X Statuses)
        /\ matching \in SUBSET Ids
    BY DEF Init
  <2>4. /\ triggerPriceMax \in Nat /\ triggerPriceMin \in Nat
        /\ profit \in Int /\ cash \in Int
    BY <2>2
  <2>5. executed \in BOOLEAN
    BY <2>2
  <2>6. QED
    BY <2>1, <2>3, <2>4, <2>5 DEF PaperTypeOK
<1>4. PositionsWhole
  BY <1>2, NoPositionTyped DEF PositionsWhole
<1>5. LimitsCross /\ ReduceAgainst
  BY <1>1 DEF LimitsCross, ReduceAgainst, OpenIds
<1>6. PositionsKeepSides
  <2>1. NoPosition.side # "short" /\ NoPosition.side # "long"
    BY NoPositionTyped
  <2> HIDE DEF NoPosition
  <2>2. positions[1] = NoPosition /\ positions[2] = NoPosition
    BY <1>2
  <2>3. QED
    BY <2>1, <2>2 DEF PositionsKeepSides
<1>7. ProfitMatchesCash
  <2>1. Signed(NoPosition, NoPosition.value) = 0
    BY NoPositionTyped DEF Signed
  <2>2. positions[1] = NoPosition /\ positions[2] = NoPosition /\ profit = 0 /\ cash = 0
    BY <1>2 DEF Init
  <2>3. QED
    BY <2>1, <2>2 DEF ProfitMatchesCash
<1>8. QED
  BY <1>3, <1>4, <1>5, <1>6, <1>7 DEF PaperInv

\* A request becomes an order with a positive price and amount.
LEMMA NewOrderTyped ==
  ASSUME PaperInv, NEW r \in RequestType, kline # NoCandle
  PROVE  NewOrder(r) \in OrderType /\ AgainstPosition(NewOrder(r))
<1>1. /\ r.type \in OrderTypes /\ r.side \in Sides /\ r.amount \in Amounts
      /\ r.price \in Prices /\ r.reduceOnly \in BOOLEAN
      /\ r.positionSide \in PositionSides
  BY DEF RequestType
<1>2. r.amount \in Positive /\ r.price \in Positive
  BY <1>1, AmountsPositive, PricesPositive DEF Positive
<1>3. kline.close \in Prices
  BY DEF PaperInv, PaperTypeOK, Candles
<1>4. kline.close + Ratio(r.side) * HalfSpread \in Positive
  <2>1. kline.close \in Nat /\ HalfSpread \in Nat /\ HalfSpread < kline.close
    BY <1>3, PricesPositive, SpreadBelowPrices
  <2>2. Ratio(r.side) = 1 \/ Ratio(r.side) = -1
    BY DEF Ratio
  <2>3. QED
    BY <2>1, <2>2 DEF Positive
<1>5. ReduceOnly(r) \in BOOLEAN
  BY <1>1 DEF ReduceOnly, PaperInv, PaperTypeOK
<1> DEFINE price == IF r.type = "market" THEN kline.close + Ratio(r.side) * HalfSpread
                    ELSE r.price
           status == IF r.type = "stop" THEN "untriggered" ELSE "open"
<1>6. price \in Positive /\ status \in Statuses
  BY <1>2, <1>4 DEF Statuses
<1>7. NewOrder(r) = [type |-> r.type, side |-> r.side, amount |-> r.amount,
                     price |-> price, status |-> status, reduceOnly |-> ReduceOnly(r),
                     positionSide |-> r.positionSide, filled |-> 0]
  BY DEF NewOrder
<1> HIDE DEF price, status
<1>8. NewOrder(r) \in OrderType
  BY <1>1, <1>2, <1>5, <1>6, <1>7 DEF OrderType
<1>9. AgainstPosition(NewOrder(r))
  <2>1. /\ NewOrder(r).reduceOnly = ReduceOnly(r)
        /\ NewOrder(r).positionSide = r.positionSide
        /\ NewOrder(r).side = r.side
    BY <1>7
  <2>2. QED
    BY <2>1 DEF AgainstPosition, ReduceOnly
<1>10. QED
  BY <1>8, <1>9

\* The prices of the open orders, by id.
LEMMA OpenPrices ==
  ASSUME NEW book \in Seq(OrderType)
  PROVE  LET open == {n \in 1..Len(book) : book[n].status \notin Done}
             prices == {book[n].price : n \in open}
         IN /\ LowestPrice(prices) \in Nat /\ HighestPrice(prices) \in Nat
            /\ open # {} => /\ 0 < LowestPrice(prices)
                            /\ LowestPrice(prices) <= HighestPrice(prices)
<1> DEFINE open == {n \in 1..Len(book) : book[n].status \notin Done}
           f == [n \in open |-> book[n].price]
<1>1. \A n \in 1..Len(book) : book[n].price \in Positive
  <2>1. \A n \in 1..Len(book) : book[n] \in OrderType
    OBVIOUS
  <2>2. QED
    BY <2>1 DEF OrderType
<1>2. open \in SUBSET (1..Len(book)) /\ Len(book) \in Nat
  OBVIOUS
<1>3. f \in [open -> Positive]
  BY <1>1
<1>4. {f[n] : n \in open} = {book[n].price : n \in open}
  OBVIOUS
<1> HIDE DEF open, f
<1>5. QED
  BY <1>2, <1>3, <1>4, LimitsOfBook DEF open

LEMMA CreateKeeps ==
  ASSUME PaperInv, NEW r \in Requests[isHedgeMode], Create(r), isHedgeMode' = isHedgeMode
  PROVE  PaperInv'
<1> DEFINE id == Len(orders) + 1
           book == Append(orders, NewOrder(r))
<1>1. r \in RequestType
  BY RequestsTyped DEF PaperInv, PaperTypeOK
<1>2. NewOrder(r) \in OrderType /\ AgainstPosition(NewOrder(r))
  BY <1>1, NewOrderTyped DEF Create
<1>3. orders \in Seq(OrderType) /\ Len(orders) \in Nat
  BY DEF PaperInv, PaperTypeOK
<1>4. /\ book \in Seq(OrderType) /\ Len(book) = id /\ book[id] = NewOrder(r)
      /\ \A n \in 1..Len(orders) : book[n] = orders[n]
  BY <1>2, <1>3
<1>5. \A n \in 1..Len(book) : AgainstPosition(book[n])
  <2>1. \A n \in 1..Len(orders) : AgainstPosition(orders[n])
    BY DEF PaperInv, ReduceAgainst, AgainstPosition, Ids
  <2>2. QED
    BY <1>2, <1>3, <1>4, <2>1
<1>6. /\ kline' = kline /\ matching' = matching /\ executed' = executed
  BY DEF Create
<1>7. executed \in BOOLEAN /\ orderUpdates \in Seq(Nat \X Statuses)
      /\ triggerPriceMax \in Nat /\ triggerPriceMin \in Nat
  BY DEF PaperInv, PaperTypeOK
<1>8. CASE r.type = "market"
  <2>1. /\ Execute(id, book)
        /\ orderUpdates' = orderUpdates \o <<<<id, "open">>, <<id, orders'[id].status>>>>
        /\ UNCHANGED <<triggerPriceMax, triggerPriceMin>>
    BY <1>8 DEF Create
  <2>2. /\ id \in 1..Len(book)
        /\ isHedgeMode \in BOOLEAN
        /\ Money
    BY <1>3, <1>4, MoneyOfInv DEF PaperInv, PaperTypeOK
  <2> HIDE DEF id, book
  <2>3. /\ orders' \in Seq(OrderType)
        /\ Len(orders') = Len(book)
        /\ \A n \in 1..Len(book) : n # id => orders'[n] = book[n]
        /\ orders'[id].status \in Done
        /\ orders'[id].reduceOnly = book[id].reduceOnly
        /\ orders'[id].side = book[id].side
        /\ orders'[id].positionSide = book[id].positionSide
        /\ Money'
    BY <1>4, <1>5, <2>1, <2>2, Execution
  <2>4. \A n \in 1..Len(orders') : AgainstPosition(orders'[n])
    BY <1>5, <2>3 DEF AgainstPosition
  <2>5. LimitsCross'
    <3>1. \A n \in Ids' : orders'[n].status \notin Done =>
            n \in Ids /\ orders[n].status \notin Done
      BY <1>3, <1>4, <2>3 DEF Ids, id
    <3>2. LimitsCross
      BY DEF PaperInv
    <3>3. QED
      BY <2>1, <3>1, <3>2, LimitsStay
  <2>6. orderUpdates' \in Seq(Nat \X Statuses)
    BY <1>3, <1>7, <2>1, <2>3 DEF Statuses, Done, id
  <2>7. QED
    BY <1>3, <1>4, <1>6, <1>7, <2>1, <2>3, <2>4, <2>5, <2>6, BookStep DEF id
<1>9. CASE r.type # "market"
  <2>1. /\ orders' = book
        /\ orderUpdates' = Append(orderUpdates, <<id, book[id].status>>)
        /\ WidenLimits(book[id].price)
        /\ UNCHANGED <<positions, profit, cash>>
    BY <1>9 DEF Create
  <2>2. book[id].price \in Nat /\ 0 < book[id].price /\ book[id].status \in Statuses
    BY <1>2, <1>4 DEF OrderType, Positive
  <2> HIDE DEF id, book
  <2>3. Money'
    BY <2>1, MoneyOfInv DEF Money, PositionsWhole, PositionsKeepSides, EmptyIsNew,
                            ProfitMatchesCash, Signed
  <2>4. /\ triggerPriceMax' \in Nat /\ triggerPriceMin' \in Nat
        /\ 0 < triggerPriceMax' /\ triggerPriceMax' <= triggerPriceMin'
    BY <1>7, <2>1, <2>2 DEF WidenLimits
  <2>5. LimitsCross'
    BY <2>4 DEF LimitsCross
  <2>6. orderUpdates' \in Seq(Nat \X Statuses)
    BY <1>3, <1>7, <2>1, <2>2 DEF id
  <2>7. QED
    BY <1>3, <1>4, <1>5, <1>6, <1>7, <2>1, <2>3, <2>4, <2>5, <2>6, BookStep DEF id
<1>10. QED
  BY <1>8, <1>9

LEMMA MoneyStays ==
  ASSUME Money, UNCHANGED <<isHedgeMode, positions, profit, cash>>
  PROVE  Money'
<1>1. PositionsWhole'
  BY DEF Money, PositionsWhole, EmptyIsNew
<1>2. PositionsKeepSides'
  BY DEF Money, PositionsKeepSides
<1>3. ProfitMatchesCash'
  BY DEF Money, ProfitMatchesCash, Signed
<1>4. QED
  BY <1>1, <1>2, <1>3 DEF Money

\* An order of the book is replaced by one that asks for the same position.
LEMMA ReplacementKeeps ==
  ASSUME PaperInv, NEW id \in Ids, NEW x \in OrderType,
         orders' = [orders EXCEPT ![id] = x],
         x.reduceOnly = orders[id].reduceOnly,
         x.side = orders[id].side,
         x.positionSide = orders[id].positionSide,
         x.status \in Done \/ x.status = orders[id].status,
         NEW status \in Statuses,
         orderUpdates' = Append(orderUpdates, <<id, status>>),
         UNCHANGED <<isHedgeMode, positions, triggerPriceMax, triggerPriceMin, kline,
                     matching, executed, profit, cash>>
  PROVE  PaperInv'
<1>1. orders \in Seq(OrderType) /\ id \in 1..Len(orders) /\ id \in Nat
  BY DEF PaperInv, PaperTypeOK, Ids
<1>2. /\ orders' \in Seq(OrderType) /\ Len(orders') = Len(orders)
      /\ orders'[id] = x
      /\ \A n \in 1..Len(orders) : n # id => orders'[n] = orders[n]
  BY <1>1, ReplacedInSeq
<1>3. \A n \in 1..Len(orders') : AgainstPosition(orders'[n])
  <2>1. \A n \in 1..Len(orders) : AgainstPosition(orders[n])
    BY DEF PaperInv, ReduceAgainst, AgainstPosition, Ids
  <2>2. AgainstPosition(orders'[id])
    BY <1>1, <1>2, <2>1 DEF AgainstPosition
  <2>3. QED
    BY <1>2, <2>1, <2>2
<1>4. LimitsCross'
  <2>1. \A n \in Ids' : orders'[n].status \notin Done =>
          n \in Ids /\ orders[n].status \notin Done
    BY <1>1, <1>2 DEF Ids
  <2>2. LimitsCross
    BY DEF PaperInv
  <2>3. QED
    BY <2>1, <2>2, LimitsStay
<1>5. Money'
  BY MoneyOfInv, MoneyStays
<1>6. /\ executed \in BOOLEAN /\ triggerPriceMax \in Nat /\ triggerPriceMin \in Nat
      /\ orderUpdates \in Seq(Nat \X Statuses)
  BY DEF PaperInv, PaperTypeOK
<1>7. orderUpdates' \in Seq(Nat \X Statuses)
  BY <1>1, <1>6
<1>8. Len(orders) \in Nat
  BY <1>1
<1>9. QED
  BY <1>2, <1>3, <1>4, <1>5, <1>6, <1>7, <1>8, BookStep

LEMMA EditKeeps ==
  ASSUME PaperInv, NEW id \in Ids, NEW price \in Prices, NEW amount \in EditAmounts,
         Edit(id, price, amount), isHedgeMode' = isHedgeMode
  PROVE  PaperInv'
<1> DEFINE x == [orders[id] EXCEPT !.price = price, !.amount = amount]
<1>1. orders[id] \in OrderType
  BY DEF PaperInv, PaperTypeOK, Ids
<1>2. price \in Positive /\ amount \in Positive
  BY PricesPositive, AmountsPositive DEF Positive
<1>3. /\ x \in OrderType
      /\ x.reduceOnly = orders[id].reduceOnly
      /\ x.side = orders[id].side
      /\ x.positionSide = orders[id].positionSide
      /\ x.status = orders[id].status
  BY <1>1, <1>2 DEF OrderType
<1>4. /\ orders' = [orders EXCEPT ![id] = x]
      /\ orderUpdates' = Append(orderUpdates, <<id, "open">>)
      /\ UNCHANGED <<isHedgeMode, positions, triggerPriceMax, triggerPriceMin, kline,
                     matching, executed, profit, cash>>
  BY DEF Edit
<1>5. "open" \in Statuses
  BY DEF Statuses
<1> HIDE DEF x
<1>6. QED
  BY <1>3, <1>4, <1>5, ReplacementKeeps

LEMMA CancelKeeps ==
  ASSUME PaperInv, NEW id \in Ids, Cancel(id), isHedgeMode' = isHedgeMode
  PROVE  PaperInv'
<1> DEFINE x == [orders[id] EXCEPT !.status = "canceled"]
<1>1. orders[id] \in OrderType
  BY DEF PaperInv, PaperTypeOK, Ids
<1>2. "canceled" \in Statuses /\ "canceled" \in Done
  BY DEF Statuses, Done
<1>3. /\ x \in OrderType
      /\ x.reduceOnly = orders[id].reduceOnly
      /\ x.side = orders[id].side
      /\ x.positionSide = orders[id].positionSide
      /\ x.status = "canceled"
  BY <1>1, <1>2 DEF OrderType
<1>4. /\ orders' = [orders EXCEPT ![id] = x]
      /\ orderUpdates' = Append(orderUpdates, <<id, "canceled">>)
      /\ UNCHANGED <<isHedgeMode, positions, triggerPriceMax, triggerPriceMin, kline,
                     matching, executed, profit, cash>>
  BY DEF Cancel
<1> HIDE DEF x
<1>5. QED
  BY <1>2, <1>3, <1>4, ReplacementKeeps

LEMMA MatchKeeps ==
  ASSUME PaperInv, MatchNext, isHedgeMode' = isHedgeMode
  PROVE  PaperInv'
<1>1. PICK id \in matching :
        /\ IF Crosses(id)
           THEN /\ Execute(id, orders)
                /\ orderUpdates' = Append(orderUpdates, <<id, orders'[id].status>>)
           ELSE UNCHANGED <<orders, positions, profit, cash, orderUpdates>>
        /\ executed' = (executed \/ Crosses(id))
        /\ matching' = matching \ {id}
        /\ kline' = kline
  BY DEF MatchNext
<1>2. \/ UNCHANGED <<triggerPriceMax, triggerPriceMin>>
      \/ LET prices == {orders'[n].price :
                          n \in {m \in 1..Len(orders) : orders'[m].status \notin Done}}
         IN /\ triggerPriceMax' = LowestPrice(prices)
            /\ triggerPriceMin' = HighestPrice(prices)
  BY DEF MatchNext, Ids
<1>3. /\ orders \in Seq(OrderType) /\ Len(orders) \in Nat
      /\ id \in 1..Len(orders) /\ id \in Nat
      /\ isHedgeMode \in BOOLEAN
      /\ orderUpdates \in Seq(Nat \X Statuses)
      /\ triggerPriceMax \in Nat /\ triggerPriceMin \in Nat
      /\ LimitsCross
  BY DEF PaperInv, PaperTypeOK, Ids
<1>4. \A n \in 1..Len(orders) : AgainstPosition(orders[n])
  BY DEF PaperInv, ReduceAgainst, AgainstPosition, Ids
<1>5. Money
  BY MoneyOfInv
<1>6. /\ orders' \in Seq(OrderType)
      /\ Len(orders') = Len(orders)
      /\ \A n \in 1..Len(orders) : orders'[n].status \notin Done =>
           orders[n].status \notin Done
      /\ \A n \in 1..Len(orders) : AgainstPosition(orders'[n])
      /\ Money'
      /\ orderUpdates' \in Seq(Nat \X Statuses)
  <2>1. CASE Crosses(id)
    <3>1. /\ Execute(id, orders)
          /\ orderUpdates' = Append(orderUpdates, <<id, orders'[id].status>>)
      BY <1>1, <2>1
    <3>2. AgainstPosition(orders[id])
      BY <1>3, <1>4
    <3>3. /\ orders' \in Seq(OrderType)
          /\ Len(orders') = Len(orders)
          /\ \A n \in 1..Len(orders) : n # id => orders'[n] = orders[n]
          /\ orders'[id].status \in Done
          /\ orders'[id].reduceOnly = orders[id].reduceOnly
          /\ orders'[id].side = orders[id].side
          /\ orders'[id].positionSide = orders[id].positionSide
          /\ Money'
      BY <1>3, <1>5, <3>1, <3>2, Execution
    <3>4. AgainstPosition(orders'[id])
      BY <3>2, <3>3 DEF AgainstPosition
    <3>5. orderUpdates' \in Seq(Nat \X Statuses)
      BY <1>3, <3>1, <3>3 DEF Statuses, Done
    <3>6. QED
      BY <1>3, <1>4, <3>3, <3>4, <3>5
  <2>2. CASE ~Crosses(id)
    <3>1. UNCHANGED <<orders, positions, profit, cash, orderUpdates>>
      BY <1>1, <2>2
    <3>2. Money'
      BY <1>5, <3>1, MoneyStays
    <3>3. QED
      BY <1>3, <1>4, <3>1, <3>2
  <2>3. QED
    BY <2>1, <2>2
<1>7. /\ triggerPriceMax' \in Nat /\ triggerPriceMin' \in Nat
      /\ LimitsCross'
  <2>1. CASE UNCHANGED <<triggerPriceMax, triggerPriceMin>>
    <3>1. \A n \in Ids' : orders'[n].status \notin Done =>
            n \in Ids /\ orders[n].status \notin Done
      BY <1>6 DEF Ids
    <3>2. QED
      BY <1>3, <2>1, <3>1, LimitsStay
  <2>2. ASSUME LET prices == {orders'[n].price : n \in
                                {m \in 1..Len(orders) : orders'[m].status \notin Done}}
               IN /\ triggerPriceMax' = LowestPrice(prices)
                  /\ triggerPriceMin' = HighestPrice(prices)
        PROVE  /\ triggerPriceMax' \in Nat /\ triggerPriceMin' \in Nat
               /\ LimitsCross'
    <3> DEFINE open == {n \in 1..Len(orders') : orders'[n].status \notin Done}
    <3>1. open = OpenIds'
      BY DEF OpenIds, Ids
    <3>2. /\ triggerPriceMax' \in Nat /\ triggerPriceMin' \in Nat
          /\ open # {} => /\ 0 < triggerPriceMax'
                          /\ triggerPriceMax' <= triggerPriceMin'
      BY <1>6, <2>2, OpenPrices
    <3> HIDE DEF open
    <3>3. QED
      BY <3>1, <3>2 DEF LimitsCross
  <2>3. QED
    BY <1>2, <2>1, <2>2
<1>8. /\ kline' = kline /\ matching' \subseteq matching /\ executed' \in BOOLEAN
  BY <1>1 DEF PaperInv, PaperTypeOK
<1>9. Len(orders) <= Len(orders')
  BY <1>3, <1>6
<1>10. \A n \in 1..Len(orders') : AgainstPosition(orders'[n])
  BY <1>6
<1>11. QED
  BY <1>6, <1>7, <1>8, <1>9, <1>10, BookStep

LEMMA PaperStep == PaperInv /\ [Next]_paperVars => PaperInv'
<1> SUFFICES ASSUME PaperInv, [Next]_paperVars PROVE PaperInv'
  OBVIOUS
<1>1. ASSUME NEW r \in Requests[isHedgeMode], Create(r), isHedgeMode' = isHedgeMode
      PROVE  PaperInv'
  BY <1>1, CreateKeeps
<1>2. ASSUME NEW id \in Ids, NEW price \in Prices, NEW amount \in EditAmounts,
             Edit(id, price, amount), isHedgeMode' = isHedgeMode
      PROVE  PaperInv'
  BY <1>2, EditKeeps
<1>3. ASSUME NEW id \in Ids, Cancel(id), isHedgeMode' = isHedgeMode
      PROVE  PaperInv'
  BY <1>3, CancelKeeps
<1>4. CASE CheckOrdersUpdates /\ isHedgeMode' = isHedgeMode
  <2>1. /\ orderUpdates' = <<>>
        /\ UNCHANGED <<isHedgeMode, orders, positions, triggerPriceMax, triggerPriceMin,
                       kline, matching, executed, profit, cash>>
    BY <1>4 DEF CheckOrdersUpdates
  <2>2. Money'
    BY <2>1, MoneyOfInv, MoneyStays
  <2>3. PaperTypeOK'
    BY <2>1 DEF PaperInv, PaperTypeOK, Ids
  <2>4. LimitsCross' /\ ReduceAgainst'
    BY <2>1 DEF PaperInv, LimitsCross, ReduceAgainst, OpenIds, Ids, PositionBySide
  <2>5. QED
    BY <2>2, <2>3, <2>4 DEF PaperInv, Money
<1>5. ASSUME NEW k \in Candles, SetNewCandle(k), isHedgeMode' = isHedgeMode
      PROVE  PaperInv'
  <2>1. /\ kline' = k
        /\ UNCHANGED <<isHedgeMode, orders, positions, triggerPriceMax, triggerPriceMin,
                       matching, executed, profit, cash, orderUpdates>>
    BY <1>5 DEF SetNewCandle
  <2>2. Money'
    BY <2>1, MoneyOfInv, MoneyStays
  <2>3. kline' \in Candles \cup {NoCandle}'
    BY <2>1
  <2>4. PaperTypeOK'
    BY <2>1, <2>3 DEF PaperInv, PaperTypeOK, Ids, Candles, NoCandle
  <2>5. LimitsCross' /\ ReduceAgainst'
    BY <2>1 DEF PaperInv, LimitsCross, ReduceAgainst, OpenIds, Ids, PositionBySide
  <2>6. QED
    BY <2>2, <2>4, <2>5 DEF PaperInv, Money
<1>6. CASE Trigger /\ isHedgeMode' = isHedgeMode
  <2>1. /\ matching' = IF GateOpen THEN OpenIds ELSE {}
        /\ executed' = FALSE
        /\ UNCHANGED <<isHedgeMode, orders, positions, triggerPriceMax, triggerPriceMin,
                       kline, profit, orderUpdates, cash>>
    BY <1>6 DEF Trigger
  <2>2. Money'
    BY <2>1, MoneyOfInv, MoneyStays
  <2>3. matching' \subseteq Ids' /\ executed' \in BOOLEAN
    BY <2>1 DEF OpenIds, Ids
  <2>4. PaperTypeOK'
    BY <2>1, <2>3 DEF PaperInv, PaperTypeOK
  <2>5. LimitsCross' /\ ReduceAgainst'
    BY <2>1 DEF PaperInv, LimitsCross, ReduceAgainst, OpenIds, Ids, PositionBySide
  <2>6. QED
    BY <2>2, <2>4, <2>5 DEF PaperInv, Money
<1>7. CASE MatchNext /\ isHedgeMode' = isHedgeMode
  BY <1>7, MatchKeeps
<1>8. CASE UNCHANGED paperVars
  <2>1. UNCHANGED <<isHedgeMode, positions, profit, cash>>
    BY <1>8 DEF paperVars
  <2>2. Money'
    BY <2>1, MoneyOfInv, MoneyStays
  <2>3. PaperTypeOK'
    BY <1>8 DEF paperVars, PaperInv, PaperTypeOK, Ids
  <2>4. LimitsCross' /\ ReduceAgainst'
    BY <1>8 DEF paperVars, PaperInv, LimitsCross, ReduceAgainst, OpenIds, Ids,
                PositionBySide
  <2>5. QED
    BY <2>2, <2>3, <2>4 DEF PaperInv, Money
<1>9. QED
  BY <1>1, <1>2, <1>3, <1>4, <1>5, <1>6, <1>7, <1>8 DEF Next

\* The invariant holds of every behaviour of the exchange.
THEOREM PaperInvCorrect == Spec => []PaperInv
BY PaperInit, PaperStep, PTL DEF Spec

\* The realised profit is what the fills have earned: the cash they moved plus the entry
\* value of what is open, whatever was averaged, reduced, clipped or turned.
THEOREM ProfitCorrect == Spec => []ProfitMatchesCash
BY PaperInvCorrect, PTL DEF PaperInv

\* In hedge mode the long position is only ever long, the short one short.
THEOREM SidesCorrect == Spec => []PositionsKeepSides
BY PaperInvCorrect, PTL DEF PaperInv

\* An order that the candle reaches is visited by trigger(): the price limits, which
\* edits and cancels leave as they were, never keep the candle from the book.
THEOREM CrossedOrdersMatchedCorrect == Spec => CrossedOrdersMatched
<1> DEFINE Visited == Trigger => \A id \in OpenIds : Crosses(id) => id \in matching'
<1>1. PaperInv /\ [Next]_paperVars => [Visited]_paperVars
  <2> SUFFICES ASSUME PaperInv, Trigger, NEW id \in OpenIds PROVE id \in matching'
    OBVIOUS
  <2>1. 0 < triggerPriceMax /\ triggerPriceMax <= triggerPriceMin
    BY DEF PaperInv, LimitsCross
  <2>2. triggerPriceMax \in Nat /\ triggerPriceMin \in Nat
    BY DEF PaperInv, PaperTypeOK
  <2>3. kline \in Candles
    BY DEF Trigger, PaperInv, PaperTypeOK
  <2>4. kline.low \in Nat /\ kline.high \in Nat /\ kline.low <= kline.high
    <3>1. /\ kline.low \in Prices /\ kline.high \in Prices /\ kline.close \in Prices
          /\ kline.low <= kline.close /\ kline.close <= kline.high
      BY <2>3 DEF Candles
    <3>2. kline.low \in Nat /\ kline.high \in Nat /\ kline.close \in Nat
      BY <3>1, PricesPositive
    <3>3. QED
      BY <3>1, <3>2
  <2>5. kline.high >= triggerPriceMax \/ kline.low <= triggerPriceMin
    BY <2>1, <2>2, <2>4
  <2>6. GateOpen
    BY <2>1, <2>2, <2>5 DEF GateOpen
  <2>7. QED
    BY <2>6 DEF Trigger
<1>2. QED
  BY <1>1, PaperInvCorrect, PTL DEF Spec, CrossedOrdersMatched

\* A step that executes no order closes none.
LEMMA NoneCloses ==
  ASSUME \A n \in DOMAIN orders' : orders'[n].status = "closed" =>
           n \in Ids /\ orders[n].status = "closed",
         NEW id \in DOMAIN orders', orders'[id].status = "closed",
         id \in Ids => orders[id].status # "closed"
  PROVE  FALSE
OBVIOUS

\* In hedge mode a reduceOnly order that executes makes its position smaller, whatever
\* has happened to the position while the order waited.
THEOREM ReduceOnlyReducesCorrect == Spec => ReduceOnlyReduces
<1> DEFINE Reduced(id) == LET i == PositionIndex(orders'[id])
                          IN positions'[i].contracts < positions[i].contracts
           Closes(id) == /\ orders'[id].reduceOnly
                         /\ orders'[id].status = "closed"
                         /\ id \in Ids => orders[id].status # "closed"
           AllReduce == isHedgeMode => \A id \in DOMAIN orders' : Closes(id) => Reduced(id)
<1>1. PaperInv /\ [Next]_paperVars => [AllReduce]_paperVars
  <2> SUFFICES ASSUME PaperInv, Next, isHedgeMode,
                      NEW id \in DOMAIN orders', Closes(id)
               PROVE  Reduced(id)
    OBVIOUS
  <2>1. /\ orders \in Seq(OrderType) /\ Len(orders) \in Nat
        /\ isHedgeMode \in BOOLEAN /\ isHedgeMode' = isHedgeMode
    BY DEF Next, PaperInv, PaperTypeOK
  <2>2. \A n \in 1..Len(orders) : AgainstPosition(orders[n])
    BY DEF PaperInv, ReduceAgainst, AgainstPosition, Ids
  <2>3. ASSUME \A n \in DOMAIN orders' : orders'[n].status = "closed" =>
                 n \in 1..Len(orders) /\ orders[n].status = "closed"
        PROVE  FALSE
    BY <2>3, NoneCloses DEF Ids
  <2>4. ASSUME NEW book \in Seq(OrderType), NEW n \in 1..Len(book),
               AgainstPosition(book[n]), Execute(n, book), n = id
        PROVE  Reduced(id)
    <3>1. /\ orders'[n].reduceOnly = book[n].reduceOnly
          /\ orders'[n].positionSide = book[n].positionSide
          /\ isHedgeMode /\ book[n].reduceOnly /\ orders'[n].status = "closed"
               => LET i == PositionIndex(book[n])
                  IN positions'[i].contracts < positions[i].contracts
      BY <2>1, <2>4, MoneyOfInv, Execution
    <3>2. PositionIndex(orders'[n]) = PositionIndex(book[n])
      BY <3>1 DEF PositionIndex
    <3>3. QED
      BY <2>4, <3>1, <3>2
  <2>5. ASSUME NEW r \in Requests[isHedgeMode], Create(r)
        PROVE  Reduced(id)
    <3> DEFINE new == Len(orders) + 1
               book == Append(orders, NewOrder(r))
    <3>1. NewOrder(r) \in OrderType /\ AgainstPosition(NewOrder(r))
      BY <2>1, <2>5, RequestsTyped, NewOrderTyped DEF Create
    <3>2. /\ book \in Seq(OrderType) /\ Len(book) = new /\ book[new] = NewOrder(r)
          /\ new \in 1..Len(book)
          /\ \A n \in 1..Len(orders) : book[n] = orders[n]
      BY <2>1, <3>1
    <3>3. CASE r.type = "market"
      <4>1. Execute(new, book)
        BY <2>5, <3>3 DEF Create
      <4>2. AgainstPosition(book[new]) /\ Money
        BY <3>1, <3>2, MoneyOfInv
      <4> HIDE DEF book
      <4>3. /\ orders' \in Seq(OrderType) /\ Len(orders') = Len(book)
            /\ \A n \in 1..Len(book) : n # new => orders'[n] = book[n]
        BY <2>1, <3>2, <4>1, <4>2, Execution
      <4>4. id = new
        BY <2>1, <3>2, <4>3 DEF Ids
      <4>5. QED
        BY <2>4, <3>2, <4>1, <4>2, <4>4
    <3>4. CASE r.type # "market"
      <4>1. orders' = book
        BY <2>5, <3>4 DEF Create
      <4>2. NewOrder(r).status # "closed"
        BY DEF NewOrder
      <4> HIDE DEF book
      <4>3. QED
        BY <2>1, <2>3, <3>2, <4>1, <4>2
    <3>5. QED
      BY <3>3, <3>4
  <2>6. ASSUME NEW n \in Ids, NEW price, NEW amount, Edit(n, price, amount)
        PROVE  Reduced(id)
    <3>1. /\ orders' = [orders EXCEPT ![n].price = price, ![n].amount = amount]
          /\ orders[n] \in OrderType
      BY <2>1, <2>6 DEF Edit, Ids
    <3>2. \A m \in DOMAIN orders' : m \in 1..Len(orders)
                                    /\ orders'[m].status = orders[m].status
      BY <2>1, <3>1 DEF OrderType
    <3>3. QED
      BY <2>3, <3>2
  <2>7. ASSUME NEW n \in Ids, Cancel(n)
        PROVE  Reduced(id)
    <3>1. /\ orders' = [orders EXCEPT ![n].status = "canceled"]
          /\ orders[n] \in OrderType
      BY <2>1, <2>7 DEF Cancel, Ids
    <3>2. \A m \in DOMAIN orders' : m \in 1..Len(orders)
            /\ orders'[m].status = IF m = n THEN "canceled" ELSE orders[m].status
      BY <2>1, <3>1 DEF OrderType
    <3>3. QED
      BY <2>3, <3>2
  <2>8. CASE UNCHANGED orders
    BY <2>1, <2>3, <2>8
  <2>9. CASE MatchNext
    <3>1. PICK n \in matching : IF Crosses(n) THEN Execute(n, orders)
                                ELSE UNCHANGED orders
      BY <2>9 DEF MatchNext
    <3>2. n \in 1..Len(orders) /\ AgainstPosition(orders[n])
      BY <2>2 DEF PaperInv, PaperTypeOK, Ids
    <3>3. CASE Execute(n, orders)
      <4>1. /\ orders' \in Seq(OrderType) /\ Len(orders') = Len(orders)
            /\ \A m \in 1..Len(orders) : m # n => orders'[m] = orders[m]
        BY <2>1, <3>2, <3>3, MoneyOfInv, Execution
      <4>2. id = n
        BY <2>1, <4>1 DEF Ids
      <4>3. QED
        BY <2>1, <2>4, <3>2, <3>3, <4>2
    <3>4. CASE UNCHANGED orders
      BY <2>8, <3>4
    <3>5. QED
      BY <3>1, <3>3, <3>4
  <2>10. QED
    BY <2>5, <2>6, <2>7, <2>8, <2>9 DEF Next, CheckOrdersUpdates, SetNewCandle, Trigger
<1>2. QED
  BY <1>1, PaperInvCorrect, PTL DEF Spec, ReduceOnlyReduces

-----------------------------------------------------------------------------
(* What the orders have filled.                                            *)

\* trigger() visits orders that wait, and only an order that traded has filled lots.
MatchingOpen == \A id \in matching : orders[id].status \notin Done
WaitingUnfilled == \A id \in Ids : orders[id].status # "closed" => orders[id].filled = 0
FillsInv == MatchingOpen /\ WaitingUnfilled /\ PositionMatchesFills

\* Fills, of any book.
IndexIn(o, hedge) == IF hedge /\ o.positionSide # "long" THEN 2 ELSE 1
FillsIn(book, hedge, i) ==
  [id \in 1 .. Len(book) |-> IF IndexIn(book[id], hedge) = i
                             THEN Ratio(book[id].side) * book[id].filled ELSE 0]
\* The positions are what a book has filled.
PositionsMatch(book) ==
  \A i \in 1..2 :
    Signed(positions[i], positions[i].contracts) = SumTo(FillsIn(book, isHedgeMode, i), Len(book))

LEMMA FillsTyped ==
  ASSUME NEW book \in Seq(OrderType), NEW i, NEW id \in 1 .. Len(book)
  PROVE  /\ FillsIn(book, isHedgeMode, i)[id] \in Int
         /\ FillsIn(book, isHedgeMode, i)[id] = IF IndexIn(book[id], isHedgeMode) = i
                                   THEN Ratio(book[id].side) * book[id].filled ELSE 0
<1>1. book[id] \in OrderType /\ Len(book) \in Nat
  OBVIOUS
<1>2. book[id].filled \in Nat
  BY <1>1 DEF OrderType
<1>3. Ratio(book[id].side) * book[id].filled \in Int
  BY <1>2 DEF Ratio
<1>4. QED
  BY <1>1, <1>3 DEF FillsIn

\* A book that has filled the same lots.
LEMMA SameFills ==
  ASSUME NEW book \in Seq(OrderType), NEW other \in Seq(OrderType), Len(other) = Len(book),
         \A id \in 1 .. Len(book) : /\ other[id].filled = book[id].filled
                                    /\ other[id].side = book[id].side
                                    /\ other[id].positionSide = book[id].positionSide,
         NEW i
  PROVE  SumTo(FillsIn(other, isHedgeMode, i), Len(other))
           = SumTo(FillsIn(book, isHedgeMode, i), Len(book))
<1>1. \A id \in 1 .. Len(book) : FillsIn(book, isHedgeMode, i)[id] \in Int
  BY FillsTyped
<1>2. \A id \in 1 .. Len(book) :
        FillsIn(other, isHedgeMode, i)[id] = FillsIn(book, isHedgeMode, i)[id]
  <2> TAKE id \in 1 .. Len(book)
  <2>1. IndexIn(other[id], isHedgeMode) = IndexIn(book[id], isHedgeMode)
    BY DEF IndexIn
  <2>2. QED
    BY <2>1, FillsTyped
<1>3. Len(book) \in Nat
  OBVIOUS
<1>4. QED
  BY <1>1, <1>2, <1>3, SumSame

\* A new order has filled nothing.
LEMMA NewFillsNone ==
  ASSUME NEW book \in Seq(OrderType), NEW o \in OrderType, o.filled = 0, NEW i
  PROVE  SumTo(FillsIn(Append(book, o), isHedgeMode, i), Len(book) + 1)
           = SumTo(FillsIn(book, isHedgeMode, i), Len(book))
<1> DEFINE n == Len(book)
           other == Append(book, o)
<1>1. /\ n \in Nat /\ other \in Seq(OrderType) /\ Len(other) = n + 1 /\ other[n + 1] = o
      /\ \A id \in 1 .. n : other[id] = book[id]
  OBVIOUS
<1> HIDE DEF other
<1>2. \A id \in 1 .. n + 1 : FillsIn(other, isHedgeMode, i)[id] \in Int
  BY <1>1, FillsTyped
<1>3. \A id \in 1 .. n : FillsIn(book, isHedgeMode, i)[id] \in Int
  BY FillsTyped
<1>4. FillsIn(other, isHedgeMode, i)[n + 1] = 0
  <2>1. n + 1 \in 1 .. Len(other)
    BY <1>1
  <2>2. Ratio(o.side) * 0 = 0
    BY DEF Ratio
  <2>3. QED
    BY <1>1, <2>1, <2>2, FillsTyped
<1>5. \A id \in 1 .. n : FillsIn(other, isHedgeMode, i)[id] = FillsIn(book, isHedgeMode, i)[id]
  <2> TAKE id \in 1 .. n
  <2>1. id \in 1 .. Len(other)
    BY <1>1
  <2>2. QED
    BY <1>1, <2>1, FillsTyped
<1>6. SumTo(FillsIn(other, isHedgeMode, i), n) = SumTo(FillsIn(book, isHedgeMode, i), n)
  BY <1>1, <1>3, <1>5, SumSame
<1>7. /\ SumTo(FillsIn(other, isHedgeMode, i), n) \in Int
      /\ SumTo(FillsIn(other, isHedgeMode, i), n + 1)
           = SumTo(FillsIn(other, isHedgeMode, i), n) + FillsIn(other, isHedgeMode, i)[n + 1]
  BY <1>1, <1>2, SumSteps
<1>8. QED
  BY <1>4, <1>6, <1>7 DEF other

\* Lots of a position that opens, grows or is reduced, shorts counted down.
LEMMA SignedLots ==
  ASSUME NEW c \in Nat, NEW d \in Nat, NEW a \in Nat, NEW from, NEW way \in {"long", "short"},
         NEW to, NEW before, NEW after, NEW filled,
         filled = IF way = "long" THEN a ELSE -a,
         before = IF from = "short" THEN -c ELSE c,
         after = IF to = "short" THEN -d ELSE d,
         \/ c = 0 /\ to = way /\ d = a
         \/ from = way /\ to = from /\ d = c + a
         \/ from \in {"long", "short"} /\ from # way /\ (to = from \/ d = 0) /\ d + a = c
  PROVE  filled \in Int /\ before \in Int /\ after = before + filled
OBVIOUS

\* The lots of a position change by those that an order fills.
LEMMA LotsMove ==
  ASSUME NEW o \in OrderType, NEW p \in PositionType, EmptyIsNew(p)
  PROVE  /\ Ratio(o.side) * Filled(o, p) \in Int
         /\ Signed(p, p.contracts) \in Int
         /\ Signed(Moved(o, p), Moved(o, p).contracts)
              = Signed(p, p.contracts) + Ratio(o.side) * Filled(o, p)
<1> DEFINE a == Filled(o, p)
           way == PositionBySide(o.side)
           q == Moved(o, p)
           filled == Ratio(o.side) * a
           before == Signed(p, p.contracts)
           after == Signed(q, q.contracts)
           c == p.contracts
           d == q.contracts
           from == p.side
           to == q.side
<1>1. o.amount \in Nat \ {0} /\ o.side \in Sides
  BY DEF OrderType, Positive
<1>c. c \in Nat
  BY DEF PositionType
<1>f. from \in {"", "long", "short"}
  BY DEF PositionType
<1>e. c # 0 => from # ""
  BY DEF EmptyIsNew
<1>2. a \in Nat
  BY <1>1, <1>c DEF Filled
<1>3. way \in {"long", "short"}
  BY DEF PositionBySide
<1>4. filled = IF way = "long" THEN a ELSE -a
  <2> HIDE DEF a
  <2>1. o.side = "buy" \/ o.side = "sell"
    BY <1>1 DEF Sides
  <2>2. QED
    BY <1>2, <2>1 DEF PositionBySide, Ratio
<1>5. /\ before = IF from = "short" THEN -c ELSE c
      /\ after = IF to = "short" THEN -d ELSE d
  BY DEF Signed
<1>6. CASE c = 0
  <2>1. q = [side |-> way, contracts |-> a, value |-> a * o.price]
    BY <1>6 DEF Moved
  <2>2. to = way /\ d = a
    BY <2>1
  <2> HIDE DEF q, a, way, filled, before, after, c, d, from, to
  <2>3. filled \in Int /\ before \in Int /\ after = before + filled
    BY <1>c, <1>2, <1>3, <1>4, <1>5, <1>6, <2>2, SignedLots
  <2>4. QED
    BY <2>3 DEF q, a, filled, before, after, c, d
<1>7. CASE c # 0 /\ from = way
  <2>1. q = [p EXCEPT !.contracts = @ + a, !.value = @ + a * o.price]
    BY <1>7 DEF Moved
  <2> DEFINE value == p.value + a * o.price
             more == c + a
  <2>2. q = [p EXCEPT !.contracts = more, !.value = value]
    BY <2>1
  <2> HIDE DEF value, more
  <2>3. to = from /\ d = more
    BY <2>2 DEF PositionType
  <2> HIDE DEF q, a, way, filled, before, after, c, d, from, to
  <2>4. d = c + a /\ d \in Nat
    BY <1>c, <1>2, <2>3 DEF more
  <2>5. filled \in Int /\ before \in Int /\ after = before + filled
    BY <1>c, <1>2, <1>3, <1>4, <1>5, <1>7, <2>3, <2>4, SignedLots
  <2>6. QED
    BY <2>5 DEF q, a, filled, before, after, c, d
<1>8. CASE c # 0 /\ from # way
  <2>1. a = IF o.amount > c THEN c ELSE o.amount
    BY <1>1, <1>c, <1>8 DEF Filled
  <2>f. from \in {"long", "short"} /\ from # way
    BY <1>e, <1>f, <1>8
  <2>2. a <= c
    <3> DEFINE asked == o.amount
    <3>1. a = IF asked > c THEN c ELSE asked
      BY <2>1
    <3>2. asked \in Nat
      BY <1>1
    <3> HIDE DEF a, c, asked
    <3>3. QED
      BY <1>c, <3>1, <3>2
  <2>3. (to = from \/ d = 0) /\ d \in Nat /\ d + a = c
    <3>1. CASE a = c
      <4>1. q = NoPosition
        BY <1>8, <3>1 DEF Moved
      <4>2. d = 0
        BY <4>1, NoPositionTyped
      <4> HIDE DEF a, c, d, to, from
      <4>3. QED
        BY <1>c, <3>1, <4>2
    <3>2. CASE a # c
      <4>1. q = [p EXCEPT !.contracts = @ - a, !.value = @ - (@ * a) \div p.contracts]
        BY <1>8, <3>2 DEF Moved
      <4> DEFINE value == p.value - (p.value * a) \div p.contracts
                 less == c - a
      <4>2. q = [p EXCEPT !.contracts = less, !.value = value]
        BY <4>1
      <4> HIDE DEF value, less
      <4>3. to = from /\ d = less
        BY <4>2 DEF PositionType
      <4> HIDE DEF q, a, c, d, to, from
      <4>4. QED
        BY <1>c, <1>2, <2>2, <4>3 DEF less
    <3>3. QED
      BY <3>1, <3>2
  <2> HIDE DEF q, a, way, filled, before, after, c, d, from, to
  <2>4. filled \in Int /\ before \in Int /\ after = before + filled
    BY <1>c, <1>2, <1>3, <1>4, <1>5, <1>8, <2>3, <2>f, SignedLots
  <2>5. QED
    BY <2>4 DEF q, a, filled, before, after, c, d
<1>9. QED
  BY <1>6, <1>7, <1>8

\* An order that executes moves its position by what it fills.
LEMMA ExecutionFills ==
  ASSUME NEW book \in Seq(OrderType), NEW id \in 1 .. Len(book), AgainstPosition(book[id]),
         isHedgeMode \in BOOLEAN, isHedgeMode' = isHedgeMode, Money, Execute(id, book),
         book[id].filled = 0, PositionsMatch(book)
  PROVE  /\ PositionsMatch(orders)'
         /\ orders'[id].status # "closed" => orders'[id].filled = 0
<1> DEFINE o == book[id]
           j == IndexIn(o, isHedgeMode)
           p == positions[j]
<1>1. /\ orders' \in Seq(OrderType) /\ Len(orders') = Len(book)
      /\ \A n \in 1 .. Len(book) : n # id => orders'[n] = book[n]
      /\ orders'[id].side = o.side /\ orders'[id].positionSide = o.positionSide
  BY Execution
<1>2. o \in OrderType /\ Len(book) \in Nat /\ j \in 1..2 /\ p \in PositionType /\ EmptyIsNew(p)
  BY DEF Money, PositionsWhole, IndexIn
<1>3. PositionsMatch(orders)' <=>
        \A i \in 1..2 : Signed(positions'[i], positions'[i].contracts)
                         = SumTo(FillsIn(orders', isHedgeMode, i), Len(orders'))
  BY DEF PositionsMatch
<1>4. CASE o.reduceOnly /\ p.contracts = 0
  <2>1. orders' = [book EXCEPT ![id].status = "canceled"] /\ positions' = positions
    BY <1>4 DEF Execute, IndexIn, PositionIndex
  <2>2. orders'[id].filled = 0
    BY <1>2, <2>1 DEF OrderType
  <2>3. \A n \in 1 .. Len(book) : /\ orders'[n].filled = book[n].filled
                                  /\ orders'[n].side = book[n].side
                                  /\ orders'[n].positionSide = book[n].positionSide
    BY <1>1, <2>2
  <2>4. \A i \in 1..2 : SumTo(FillsIn(orders', isHedgeMode, i), Len(orders'))
                          = SumTo(FillsIn(book, isHedgeMode, i), Len(book))
    BY <1>1, <2>3, SameFills
  <2>5. \A i \in 1..2 : Signed(positions'[i], positions'[i].contracts)
                          = Signed(positions[i], positions[i].contracts)
    BY <2>1
  <2>6. QED
    BY <1>3, <2>2, <2>4, <2>5 DEF PositionsMatch
<1>5. CASE ~(o.reduceOnly /\ p.contracts = 0)
  <2> DEFINE a == Filled(o, p)
  <2>1. /\ positions' = [positions EXCEPT ![j] = Moved(o, p)]
        /\ orders' = [book EXCEPT ![id].status = "closed", ![id].filled = a]
    BY <1>5 DEF Execute, IndexIn, PositionIndex
  <2>2. orders'[id].filled = a /\ orders'[id].status = "closed"
    BY <1>2, <2>1 DEF OrderType
  <2>3. /\ Ratio(o.side) * a \in Int /\ Signed(p, p.contracts) \in Int
        /\ Signed(Moved(o, p), Moved(o, p).contracts) = Signed(p, p.contracts) + Ratio(o.side) * a
    BY <1>2, LotsMove
  <2>4. positions'[j] = Moved(o, p) /\ \A i \in 1..2 : i # j => positions'[i] = positions[i]
    BY <1>2, <2>1 DEF Money
  <2> HIDE DEF a
  <2>5. /\ IndexIn(orders'[id], isHedgeMode) = j
        /\ \A n \in 1 .. Len(book) : FillsIn(book, isHedgeMode, j)[n] \in Int
    BY <1>1, FillsTyped DEF IndexIn
  <2>6. FillsIn(book, isHedgeMode, j)[id] = 0
    <3>1. Ratio(o.side) * 0 = 0
      BY DEF Ratio
    <3>2. QED
      BY <3>1, FillsTyped
  <2>7. FillsIn(orders', isHedgeMode, j)[id] = Ratio(o.side) * a
    BY <1>1, <2>2, <2>5, FillsTyped
  <2>8. \A i \in 1..2 : \A n \in 1 .. Len(book) : n # id \/ i # j =>
          FillsIn(orders', isHedgeMode, i)[n] = FillsIn(book, isHedgeMode, i)[n]
    <3> TAKE i \in 1..2
    <3> TAKE n \in 1 .. Len(book)
    <3>1. n \in 1 .. Len(orders')
      BY <1>1
    <3>2. IndexIn(orders'[n], isHedgeMode) = IndexIn(book[n], isHedgeMode)
      BY <1>1 DEF IndexIn
    <3>3. CASE n # id
      BY <1>1, <3>1, <3>2, <3>3, FillsTyped
    <3>4. CASE n = id /\ i # j
      BY <1>1, <3>1, <3>2, <3>4, FillsTyped
    <3>5. QED
      BY <3>3, <3>4
  <2> DEFINE f(i) == FillsIn(book, isHedgeMode, i)
             g(i) == FillsIn(orders', isHedgeMode, i)
  <2>9. SumTo(g(j), Len(book)) = SumTo(f(j), Len(book)) + Ratio(o.side) * a
    <3>1. \A n \in 1 .. Len(book) : n # id => g(j)[n] = f(j)[n]
      BY <1>2, <2>8
    <3>2. SumTo(f(j), Len(book)) \in Int
      BY <1>2, <2>5, SumType
    <3> DEFINE lots == Ratio(o.side) * a
    <3>3. g(j)[id] = lots /\ f(j)[id] = 0 /\ lots \in Int
      BY <2>3, <2>6, <2>7
    <3> HIDE DEF f, g, lots
    <3>4. \A n \in 1 .. Len(book) : f(j)[n] \in Int
      BY <2>5 DEF f
    <3>5. SumTo(g(j), Len(book)) = SumTo(f(j), Len(book)) + g(j)[id] - f(j)[id]
      BY <1>2, <3>1, <3>3, <3>4, SumChanged
    <3>6. SumTo(g(j), Len(book)) = SumTo(f(j), Len(book)) + lots
      BY <3>2, <3>3, <3>5
    <3>7. QED
      BY <3>6 DEF lots
  <2>10. \A i \in 1..2 : i # j => SumTo(g(i), Len(book)) = SumTo(f(i), Len(book))
    <3> TAKE i \in 1..2
    <3>1. SUFFICES ASSUME i # j PROVE SumTo(g(i), Len(book)) = SumTo(f(i), Len(book))
      OBVIOUS
    <3>2. \A n \in 1 .. Len(book) : f(i)[n] \in Int
      BY FillsTyped
    <3>3. \A n \in 1 .. Len(book) : g(i)[n] = f(i)[n]
      BY <2>8, <3>1
    <3> HIDE DEF f, g
    <3>4. QED
      BY <1>2, <3>2, <3>3, SumSame
  <2>11. Signed(p, p.contracts) = SumTo(FillsIn(book, isHedgeMode, j), Len(book))
    BY <1>2 DEF PositionsMatch
  <2>12. Signed(positions'[j], positions'[j].contracts)
           = SumTo(FillsIn(orders', isHedgeMode, j), Len(book))
    BY <2>3, <2>4, <2>9, <2>11
  <2>13. \A i \in 1..2 : i # j =>
           Signed(positions'[i], positions'[i].contracts) = SumTo(FillsIn(orders', isHedgeMode, i), Len(book))
    BY <2>4, <2>10 DEF PositionsMatch
  <2>14. \A i \in 1..2 :
           Signed(positions'[i], positions'[i].contracts) = SumTo(FillsIn(orders', isHedgeMode, i), Len(orders'))
    BY <1>1, <2>12, <2>13
  <2>15. PositionsMatch(orders)'
    BY <1>3, <2>14
  <2>16. QED
    BY <2>2, <2>15
<1>6. QED
  BY <1>4, <1>5

LEMMA FillsAreFillsIn == PositionMatchesFills <=> PositionsMatch(orders)
BY DEF PositionMatchesFills, PositionsMatch, Fills, FillsIn, IndexIn, PositionIndex, Ids

LEMMA FillsInit == Init => FillsInv
<1> SUFFICES ASSUME Init PROVE FillsInv
  OBVIOUS
<1>1. Len(orders) = 0 /\ matching = {} /\ \A i \in 1..2 : positions[i] = NoPosition
  BY DEF Init
<1>2. Signed(NoPosition, NoPosition.contracts) = 0
  BY NoPositionTyped DEF Signed
<1> HIDE DEF NoPosition
<1>3. \A f : (\A n \in 1 .. 0 : f[n] = 0) => SumTo(f, 0) = 0
  BY SumOfNone
<1>4. \A i \in 1..2 : SumTo(FillsIn(orders, isHedgeMode, i), Len(orders)) = 0
  BY <1>1, <1>3
<1>5. PositionsMatch(orders)
  BY <1>1, <1>2, <1>4 DEF PositionsMatch
<1>6. QED
  BY <1>1, <1>5, FillsAreFillsIn DEF FillsInv, MatchingOpen, WaitingUnfilled, Ids

\* Orders that are changed in other ways than by what they fill, and for whom.
LEMMA FillsStay ==
  ASSUME orders \in Seq(OrderType), orders' \in Seq(OrderType), Len(orders') = Len(orders),
         \A id \in 1 .. Len(orders) : /\ orders'[id].filled = orders[id].filled
                                      /\ orders'[id].side = orders[id].side
                                      /\ orders'[id].positionSide = orders[id].positionSide,
         UNCHANGED <<isHedgeMode, positions>>, PositionMatchesFills
  PROVE  PositionMatchesFills'
<1>1. \A i \in 1..2 : SumTo(FillsIn(orders', isHedgeMode, i), Len(orders'))
                      = SumTo(FillsIn(orders, isHedgeMode, i), Len(orders))
  BY SameFills
<1>2. PositionsMatch(orders)' <=>
        \A i \in 1..2 : Signed(positions'[i], positions'[i].contracts)
                         = SumTo(FillsIn(orders', isHedgeMode, i), Len(orders'))
  BY DEF PositionsMatch
<1>3. PositionsMatch(orders)'
  BY <1>1, <1>2, FillsAreFillsIn DEF PositionsMatch
<1>4. PositionMatchesFills' <=> PositionsMatch(orders)'
  BY DEF PositionMatchesFills, PositionsMatch, Fills, FillsIn, IndexIn, PositionIndex, Ids
<1>5. QED
  BY <1>3, <1>4

LEMMA FillsCreate ==
  ASSUME PaperInv, FillsInv, NEW r \in Requests[isHedgeMode], Create(r), isHedgeMode' = isHedgeMode
  PROVE  FillsInv'
<1> DEFINE id == Len(orders) + 1
           book == Append(orders, NewOrder(r))
<1>1. r \in RequestType /\ isHedgeMode \in BOOLEAN /\ Money
  BY RequestsTyped, MoneyOfInv DEF PaperInv, PaperTypeOK
<1>2. NewOrder(r) \in OrderType /\ AgainstPosition(NewOrder(r)) /\ NewOrder(r).filled = 0
  BY <1>1, NewOrderTyped DEF Create, NewOrder
<1>3. orders \in Seq(OrderType) /\ Len(orders) \in Nat
  BY DEF PaperInv, PaperTypeOK
<1>4. /\ book \in Seq(OrderType) /\ Len(book) = id /\ book[id] = NewOrder(r) /\ id \in 1 .. Len(book)
      /\ \A n \in 1..Len(orders) : book[n] = orders[n]
  BY <1>2, <1>3
<1>5. PositionsMatch(book)
  <2>1. \A i \in 1..2 : SumTo(FillsIn(book, isHedgeMode, i), id)
                        = SumTo(FillsIn(orders, isHedgeMode, i), Len(orders))
    BY <1>2, <1>3, NewFillsNone
  <2>2. QED
    BY <1>4, <2>1, FillsAreFillsIn DEF FillsInv, PositionsMatch
<1>6. \A n \in 1 .. Len(book) : book[n].status # "closed" => book[n].filled = 0
  BY <1>2, <1>3, <1>4 DEF FillsInv, WaitingUnfilled, Ids
<1>7. MatchingOpen'
  BY DEF Create, MatchingOpen
<1>8. PositionMatchesFills' <=> PositionsMatch(orders)'
  BY DEF PositionMatchesFills, PositionsMatch, Fills, FillsIn, IndexIn, PositionIndex, Ids
<1>9. CASE r.type = "market"
  <2>1. Execute(id, book)
    BY <1>9 DEF Create
  <2> HIDE DEF id, book
  <2>2. /\ PositionsMatch(orders)' /\ (orders'[id].status # "closed" => orders'[id].filled = 0)
        /\ Len(orders') = Len(book) /\ \A n \in 1..Len(book) : n # id => orders'[n] = book[n]
    BY <1>1, <1>2, <1>4, <1>5, <2>1, ExecutionFills, Execution
  <2>3. WaitingUnfilled'
    BY <1>6, <2>2 DEF WaitingUnfilled, Ids
  <2>4. QED
    BY <1>7, <1>8, <2>2, <2>3 DEF FillsInv
<1>10. CASE r.type # "market"
  <2>1. orders' = book /\ positions' = positions
    BY <1>10 DEF Create
  <2>2. PositionsMatch(orders)' <=> PositionsMatch(book)
    BY <2>1 DEF PositionsMatch
  <2>3. WaitingUnfilled'
    BY <1>6, <2>1 DEF WaitingUnfilled, Ids
  <2>4. QED
    BY <1>5, <1>7, <1>8, <2>2, <2>3 DEF FillsInv
<1>11. QED
  BY <1>9, <1>10

\* An order is edited or canceled.
LEMMA FillsReplaced ==
  ASSUME PaperInv, FillsInv, NEW id \in Ids, NEW x \in OrderType,
         orders' = [orders EXCEPT ![id] = x],
         orders[id].status # "closed", x.status # "closed", x.filled = orders[id].filled,
         x.side = orders[id].side, x.positionSide = orders[id].positionSide,
         matching = {}, UNCHANGED <<isHedgeMode, positions, matching>>
  PROVE  FillsInv'
<1>1. orders \in Seq(OrderType) /\ id \in 1..Len(orders)
  BY DEF PaperInv, PaperTypeOK, Ids
<1>2. /\ orders' \in Seq(OrderType) /\ Len(orders') = Len(orders) /\ orders'[id] = x
      /\ \A n \in 1..Len(orders) : n # id => orders'[n] = orders[n]
  BY <1>1, ReplacedInSeq
<1>3. \A n \in 1 .. Len(orders) : /\ orders'[n].filled = orders[n].filled
                                  /\ orders'[n].side = orders[n].side
                                  /\ orders'[n].positionSide = orders[n].positionSide
  BY <1>2
<1>4. PositionMatchesFills'
  BY <1>1, <1>2, <1>3, FillsStay DEF FillsInv
<1>5. WaitingUnfilled'
  BY <1>1, <1>2 DEF FillsInv, WaitingUnfilled, Ids
<1>6. MatchingOpen'
  BY DEF MatchingOpen
<1>7. QED
  BY <1>4, <1>5, <1>6 DEF FillsInv

LEMMA FillsMatch ==
  ASSUME PaperInv, FillsInv, MatchNext, isHedgeMode' = isHedgeMode PROVE FillsInv'
<1>1. PICK id \in matching :
        /\ IF Crosses(id) THEN Execute(id, orders) ELSE UNCHANGED <<orders, positions>>
        /\ matching' = matching \ {id}
  BY DEF MatchNext
<1>2. /\ orders \in Seq(OrderType) /\ id \in 1..Len(orders) /\ isHedgeMode \in BOOLEAN /\ Money
      /\ AgainstPosition(orders[id]) /\ matching \subseteq 1 .. Len(orders)
  BY MoneyOfInv DEF PaperInv, PaperTypeOK, Ids, ReduceAgainst, AgainstPosition
<1>3. orders[id].filled = 0
  BY <1>2 DEF FillsInv, MatchingOpen, WaitingUnfilled, Done, Ids
<1>4. PositionMatchesFills' <=> PositionsMatch(orders)'
  BY DEF PositionMatchesFills, PositionsMatch, Fills, FillsIn, IndexIn, PositionIndex, Ids
<1>5. CASE Crosses(id)
  <2>1. Execute(id, orders) /\ PositionsMatch(orders)
    BY <1>1, <1>5, FillsAreFillsIn DEF FillsInv
  <2>2. /\ PositionsMatch(orders)' /\ (orders'[id].status # "closed" => orders'[id].filled = 0)
        /\ Len(orders') = Len(orders) /\ \A n \in 1..Len(orders) : n # id => orders'[n] = orders[n]
    BY <1>2, <1>3, <2>1, ExecutionFills, Execution
  <2>3. WaitingUnfilled'
    BY <1>2, <2>2 DEF FillsInv, WaitingUnfilled, Ids
  <2>4. MatchingOpen'
    BY <1>1, <1>2, <2>2 DEF FillsInv, MatchingOpen
  <2>5. QED
    BY <1>4, <2>2, <2>3, <2>4 DEF FillsInv
<1>6. CASE ~Crosses(id)
  <2>1. UNCHANGED <<orders, positions, isHedgeMode>>
    BY <1>1, <1>6
  <2>2. PositionMatchesFills'
    BY <1>2, <2>1, FillsStay DEF FillsInv
  <2>3. MatchingOpen' /\ WaitingUnfilled'
    BY <1>1, <2>1 DEF FillsInv, MatchingOpen, WaitingUnfilled, Ids
  <2>4. QED
    BY <2>2, <2>3 DEF FillsInv
<1>7. QED
  BY <1>5, <1>6

LEMMA FillsStep == PaperInv /\ FillsInv /\ [Next]_paperVars => FillsInv'
<1> SUFFICES ASSUME PaperInv, FillsInv, [Next]_paperVars PROVE FillsInv'
  OBVIOUS
<1>1. ASSUME NEW id \in Ids, NEW price \in Prices, NEW amount \in EditAmounts,
             Edit(id, price, amount), isHedgeMode' = isHedgeMode
      PROVE  FillsInv'
  <2> DEFINE x == [orders[id] EXCEPT !.price = price, !.amount = amount]
  <2>1. orders[id] \in OrderType
    BY DEF PaperInv, PaperTypeOK, Ids
  <2>2. price \in Positive /\ amount \in Positive
    BY PricesPositive, AmountsPositive DEF Positive
  <2>3. /\ x \in OrderType /\ x.filled = orders[id].filled /\ x.side = orders[id].side
        /\ x.positionSide = orders[id].positionSide /\ x.status = orders[id].status
    BY <2>1, <2>2 DEF OrderType
  <2>4. /\ orders' = [orders EXCEPT ![id] = x] /\ orders[id].status = "open" /\ matching = {}
        /\ UNCHANGED <<isHedgeMode, positions, matching>>
    BY <1>1 DEF Edit
  <2> HIDE DEF x
  <2>5. QED
    BY <2>3, <2>4, FillsReplaced
<1>2. ASSUME NEW id \in Ids, Cancel(id), isHedgeMode' = isHedgeMode PROVE FillsInv'
  <2> DEFINE x == [orders[id] EXCEPT !.status = "canceled"]
  <2>1. orders[id] \in OrderType /\ "canceled" \in Statuses
    BY DEF PaperInv, PaperTypeOK, Ids, Statuses
  <2>2. /\ x \in OrderType /\ x.filled = orders[id].filled /\ x.side = orders[id].side
        /\ x.positionSide = orders[id].positionSide /\ x.status = "canceled"
    BY <2>1 DEF OrderType
  <2>3. /\ orders' = [orders EXCEPT ![id] = x] /\ orders[id].status # "closed" /\ matching = {}
        /\ UNCHANGED <<isHedgeMode, positions, matching>>
    BY <1>2 DEF Cancel, OpenIds, Done
  <2> HIDE DEF x
  <2>4. QED
    BY <2>2, <2>3, FillsReplaced
<1>3. CASE /\ UNCHANGED <<isHedgeMode, orders, positions>>
           /\ matching' = matching \/ matching' = {} \/ matching' = OpenIds
  <2>1. PositionMatchesFills'
    BY <1>3, FillsStay DEF FillsInv, PaperInv, PaperTypeOK
  <2>2. MatchingOpen' /\ WaitingUnfilled'
    BY <1>3 DEF FillsInv, MatchingOpen, WaitingUnfilled, Ids, OpenIds
  <2>3. QED
    BY <2>1, <2>2 DEF FillsInv
<1>4. QED
  BY <1>1, <1>2, <1>3, FillsCreate, FillsMatch DEF Next, CheckOrdersUpdates, SetNewCandle, Trigger,
                                          paperVars

\* The positions of the exchange hold what its closed orders have filled, its profit is
\* what the fills have paid and received, and in hedge mode each position keeps its
\* side: whatever orders came, and however they were edited, clipped and canceled.
THEOREM BookCorrect == Spec => []BookFollowsFills
<1>1. Init => PaperInv /\ FillsInv
  BY PaperInit, FillsInit
<1>2. PaperInv /\ FillsInv /\ [Next]_paperVars => (PaperInv /\ FillsInv)'
  BY PaperStep, FillsStep
<1>3. PaperInv /\ FillsInv => BookFollowsFills
  BY DEF PaperInv, FillsInv, BookFollowsFills
<1>4. QED
  BY <1>1, <1>2, <1>3, PTL DEF Spec


-----------------------------------------------------------------------------
(* The inductive invariant.                                                *)

\* Stages by number: where orders trade, where updates are handed out, the end.
Trading == IF sync THEN {2, 4} ELSE {3, 5}
Reporting == stage \in IF sync THEN {5} ELSE {4, 6}
Ending == stage = IF sync THEN 6 ELSE 7

UpdateType == Nat \X Statuses

TickTypeOK ==
  /\ sync \in BOOLEAN
  /\ stage \in 0 .. IF sync THEN 6 ELSE 7
  /\ round \in 0 .. IF sync THEN 2 ELSE 0
  /\ batch \in Seq(UpdateType)
  /\ rows \in Nat
  /\ told \in [Ids -> Statuses \cup {"none"}]
  /\ born \in [Ids -> Nat]
  /\ filledAt \in [Ids -> Nat \X Nat]

\* An order is never born behind the candle; between a candle and its matching the
\* asynchronous tester lets no order be born; and only open orders are matched.
HistoryInv ==
  /\ matching \subseteq OpenIds
  /\ \A id \in Ids : born[id] <= rows
  /\ ~sync /\ stage \in {2, 3} => \A id \in Ids : born[id] < rows
  /\ \A id \in Ids : orders[id].status \notin Done => filledAt[id] = <<0, 0>>
  /\ NoLookAhead

\* The updates of seq are about the first n orders, and lead from the statuses T
\* that have been told to the statuses S of the book, a final one being the last.
Leads(seq, T, S, n) ==
  /\ \A i \in 1 .. Len(seq) : seq[i][1] \in 1 .. n
  /\ \A id \in 1 .. n : (\A i \in 1 .. Len(seq) : seq[i][1] # id) => T[id] = S[id]
  /\ \A i \in 1 .. Len(seq) : T[seq[i][1]] \notin Done
  /\ \A i \in 1 .. Len(seq) :
       (\A j \in 1 .. Len(seq) : i < j => seq[j][1] # seq[i][1])
         => seq[i][2] = S[seq[i][1]]
  /\ \A i, j \in 1 .. Len(seq) :
       i < j /\ seq[i][1] = seq[j][1] => seq[i][2] \notin Done

Status == [id \in Ids |-> orders[id].status]
SeesInv == Leads(Undelivered, told, Status, Len(orders))

\* Traded in this candle, before this stage.
Early(id) ==
  /\ filledAt[id][1] = rows
  /\ filledAt[id][2] \in Trading
  /\ filledAt[id][2] < stage

\* Once the round's updates are taken the queue holds nothing of the early trades,
\* and after the first round neither do the updates being handed out.
TradeInv ==
  /\ batch # <<>> \/ round # 0 => Reporting
  /\ Ending \/ (Reporting /\ (batch # <<>> \/ round # 0)) =>
       \A id \in Ids : Early(id) =>
         \A n \in 1 .. Len(orderUpdates) : orderUpdates[n][1] # id
  /\ round # 0 => \A id \in Ids : Early(id) =>
                    \A n \in 1 .. Len(batch) : batch[n][1] # id

TickInv ==
  /\ PaperInv
  /\ TickTypeOK
  /\ HistoryInv
  /\ SeesInv
  /\ TradeInv

-----------------------------------------------------------------------------
(* Updates that lead to the book.                                          *)

LEMMA Appended ==
  ASSUME NEW seq \in Seq(UpdateType), NEW x \in UpdateType
  PROVE  /\ Append(seq, x) \in Seq(UpdateType)
         /\ Len(Append(seq, x)) = Len(seq) + 1
         /\ Append(seq, x)[Len(seq) + 1] = x
         /\ \A i \in 1 .. Len(seq) : Append(seq, x)[i] = seq[i]
OBVIOUS

\* An order that is not done changes, and the update says to what.
LEMMA LeadsToChange ==
  ASSUME NEW seq \in Seq(UpdateType), NEW T, NEW S, NEW R, NEW n \in Nat,
         Leads(seq, T, S, n),
         NEW id \in 1 .. n, S[id] \notin Done, R[id] \in Statuses,
         \A k \in 1 .. n : k # id => R[k] = S[k]
  PROVE  Leads(Append(seq, <<id, R[id]>>), T, R, n)
<1> DEFINE x == <<id, R[id]>>
           new == Append(seq, x)
<1>1. /\ Len(new) = Len(seq) + 1 /\ new[Len(seq) + 1] = x
      /\ \A i \in 1 .. Len(seq) : new[i] = seq[i]
      /\ Len(seq) \in Nat
  BY Appended DEF UpdateType
<1>2. x[1] = id /\ x[2] = R[id]
  OBVIOUS
<1> HIDE DEF new, x
<1>3. \A i \in 1 .. Len(new) : i \in 1 .. Len(seq) \/ i = Len(seq) + 1
  BY <1>1
<1>4. \A i \in 1 .. Len(new) : new[i][1] \in 1 .. n
  BY <1>1, <1>2, <1>3 DEF Leads
<1>5. T[id] \notin Done
  BY DEF Leads
<1>6. ASSUME NEW k \in 1 .. n, \A i \in 1 .. Len(new) : new[i][1] # k PROVE T[k] = R[k]
  <2>1. k # id
    BY <1>1, <1>2, <1>6
  <2>2. \A i \in 1 .. Len(seq) : seq[i][1] # k
    BY <1>1, <1>6
  <2>3. QED
    BY <2>1, <2>2 DEF Leads
<1>7. \A i \in 1 .. Len(new) : T[new[i][1]] \notin Done
  BY <1>1, <1>2, <1>3, <1>5 DEF Leads
<1>8. ASSUME NEW i \in 1 .. Len(new),
             \A j \in 1 .. Len(new) : i < j => new[j][1] # new[i][1]
      PROVE  new[i][2] = R[new[i][1]]
  <2>1. CASE i = Len(seq) + 1
    BY <1>1, <1>2, <2>1
  <2>2. CASE i \in 1 .. Len(seq)
    <3>1. seq[i][1] # id
      BY <1>1, <1>2, <1>8, <2>2
    <3>2. \A j \in 1 .. Len(seq) : i < j => seq[j][1] # seq[i][1]
      BY <1>1, <1>8, <2>2
    <3>3. seq[i][2] = S[seq[i][1]] /\ seq[i][1] \in 1 .. n
      BY <2>2, <3>2 DEF Leads
    <3>4. QED
      BY <1>1, <2>2, <3>1, <3>3
  <2>3. QED
    BY <1>3, <2>1, <2>2
<1>9. ASSUME NEW i \in 1 .. Len(new), NEW j \in 1 .. Len(new), i < j,
             new[i][1] = new[j][1]
      PROVE  new[i][2] \notin Done
  <2>1. i \in 1 .. Len(seq) /\ new[i] = seq[i]
    BY <1>1, <1>3, <1>9
  <2>2. CASE j \in 1 .. Len(seq)
    BY <1>1, <1>9, <2>1, <2>2 DEF Leads
  <2>3. CASE j = Len(seq) + 1
    <3>1. seq[i][1] = id
      BY <1>1, <1>2, <1>9, <2>1, <2>3
    <3>2. CASE \A m \in 1 .. Len(seq) : i < m => seq[m][1] # seq[i][1]
      BY <2>1, <3>1, <3>2 DEF Leads
    <3>3. CASE \E m \in 1 .. Len(seq) : i < m /\ seq[m][1] = seq[i][1]
      BY <2>1, <3>3 DEF Leads
    <3>4. QED
      BY <3>2, <3>3
  <2>4. QED
    BY <1>3, <2>2, <2>3
<1>10. Leads(new, T, R, n)
  BY <1>4, <1>6, <1>7, <1>8, <1>9 DEF Leads
<1>11. QED
  BY <1>10 DEF new, x

\* An order is created, and the update says so.
LEMMA LeadsToNew ==
  ASSUME NEW seq \in Seq(UpdateType), NEW T, NEW S, NEW U, NEW R, NEW n \in Nat,
         Leads(seq, T, S, n),
         U[n + 1] \notin Done, R[n + 1] \in Statuses,
         \A k \in 1 .. n : U[k] = T[k] /\ R[k] = S[k]
  PROVE  Leads(Append(seq, <<n + 1, R[n + 1]>>), U, R, n + 1)
<1> DEFINE id == n + 1
           x == <<id, R[id]>>
           new == Append(seq, x)
<1>1. /\ Len(new) = Len(seq) + 1 /\ new[Len(seq) + 1] = x
      /\ \A i \in 1 .. Len(seq) : new[i] = seq[i]
      /\ Len(seq) \in Nat
  BY Appended DEF UpdateType
<1>2. x[1] = id /\ x[2] = R[id]
  OBVIOUS
<1>3. id \in 1 .. id /\ id \notin 1 .. n /\ (\A k \in 1 .. id : k \in 1 .. n \/ k = id)
      /\ \A k \in 1 .. n : k \in 1 .. id
  OBVIOUS
<1>4. U[id] \notin Done /\ \A k \in 1 .. n : U[k] = T[k] /\ R[k] = S[k]
  OBVIOUS
<1> HIDE DEF new, x, id
<1>5. \A i \in 1 .. Len(new) : i \in 1 .. Len(seq) \/ i = Len(seq) + 1
  BY <1>1
<1>6. \A i \in 1 .. Len(seq) : seq[i][1] \in 1 .. n
  BY DEF Leads
<1>7. \A i \in 1 .. Len(new) : new[i][1] \in 1 .. id
  BY <1>1, <1>2, <1>3, <1>5, <1>6
<1>8. ASSUME NEW k \in 1 .. id, \A i \in 1 .. Len(new) : new[i][1] # k PROVE U[k] = R[k]
  <2>1. k # id
    BY <1>1, <1>2, <1>8
  <2>2. \A i \in 1 .. Len(seq) : seq[i][1] # k
    BY <1>1, <1>8
  <2>3. QED
    BY <1>3, <1>4, <2>1, <2>2 DEF Leads
<1>9. \A i \in 1 .. Len(new) : U[new[i][1]] \notin Done
  BY <1>1, <1>2, <1>4, <1>5, <1>6 DEF Leads
<1>10. ASSUME NEW i \in 1 .. Len(new),
              \A j \in 1 .. Len(new) : i < j => new[j][1] # new[i][1]
       PROVE  new[i][2] = R[new[i][1]]
  <2>1. CASE i = Len(seq) + 1
    BY <1>1, <1>2, <2>1
  <2>2. CASE i \in 1 .. Len(seq)
    <3>1. \A j \in 1 .. Len(seq) : i < j => seq[j][1] # seq[i][1]
      BY <1>1, <1>10, <2>2
    <3>2. seq[i][2] = S[seq[i][1]]
      BY <2>2, <3>1 DEF Leads
    <3>3. QED
      BY <1>1, <1>4, <1>6, <2>2, <3>2
  <2>3. QED
    BY <1>5, <2>1, <2>2
<1>11. ASSUME NEW i \in 1 .. Len(new), NEW j \in 1 .. Len(new), i < j,
              new[i][1] = new[j][1]
       PROVE  new[i][2] \notin Done
  <2>1. i \in 1 .. Len(seq) /\ new[i] = seq[i]
    BY <1>1, <1>5, <1>11
  <2>2. j \in 1 .. Len(seq)
    BY <1>1, <1>2, <1>3, <1>5, <1>6, <1>11, <2>1
  <2>3. QED
    BY <1>1, <1>11, <2>1, <2>2 DEF Leads
<1>12. Leads(new, U, R, id)
  BY <1>7, <1>8, <1>9, <1>10, <1>11 DEF Leads
<1>13. QED
  BY <1>12 DEF new, x, id

\* The first update is told.
LEMMA LeadsTold ==
  ASSUME NEW seq \in Seq(UpdateType), seq # <<>>, NEW T, NEW S, NEW n \in Nat,
         Leads(seq, T, S, n),
         NEW U, U[seq[1][1]] = seq[1][2], \A k \in 1 .. n : k # seq[1][1] => U[k] = T[k]
  PROVE  Leads(Tail(seq), U, S, n)
<1> DEFINE rest == Tail(seq)
           id == seq[1][1]
<1>1. /\ Len(rest) = Len(seq) - 1 /\ Len(seq) \in Nat /\ Len(seq) # 0
      /\ \A i \in 1 .. Len(rest) : rest[i] = seq[i + 1]
  BY HeadTailProperties
<1> HIDE DEF rest
<1>2. \A i \in 1 .. Len(rest) : i + 1 \in 1 .. Len(seq) /\ rest[i] = seq[i + 1] /\ 1 < i + 1
  BY <1>1
<1>3. \A i \in 1 .. Len(seq) : i = 1 \/ (i - 1 \in 1 .. Len(rest) /\ seq[i] = rest[i - 1])
  BY <1>1
<1>4. 1 \in 1 .. Len(seq) /\ id \in 1 .. n
  BY <1>1 DEF Leads
<1>5. \A i \in 1 .. Len(rest) : rest[i][1] \in 1 .. n
  BY <1>2 DEF Leads
<1>6. ASSUME NEW k \in 1 .. n, \A i \in 1 .. Len(rest) : rest[i][1] # k PROVE U[k] = S[k]
  <2>1. CASE k = id
    <3>1. \A j \in 1 .. Len(seq) : 1 < j => seq[j][1] # seq[1][1]
      BY <1>3, <1>6, <2>1
    <3>2. seq[1][2] = S[seq[1][1]]
      BY <1>4, <3>1 DEF Leads
    <3>3. QED
      BY <2>1, <3>2
  <2>2. CASE k # id
    <3>1. \A j \in 1 .. Len(seq) : seq[j][1] # k
      BY <1>3, <1>6, <2>2
    <3>2. QED
      BY <2>2, <3>1 DEF Leads
  <2>3. QED
    BY <2>1, <2>2
<1>7. ASSUME NEW i \in 1 .. Len(rest) PROVE U[rest[i][1]] \notin Done
  <2>1. CASE rest[i][1] = id
    <3>1. seq[1][2] \notin Done
      BY <1>2, <1>4, <1>7, <2>1 DEF Leads
    <3>2. QED
      BY <2>1, <3>1
  <2>2. CASE rest[i][1] # id
    BY <1>2, <1>5, <2>2 DEF Leads
  <2>3. QED
    BY <2>1, <2>2
<1>8. ASSUME NEW i \in 1 .. Len(rest),
             \A j \in 1 .. Len(rest) : i < j => rest[j][1] # rest[i][1]
      PROVE  rest[i][2] = S[rest[i][1]]
  <2>1. \A j \in 1 .. Len(seq) : i + 1 < j => seq[j][1] # seq[i + 1][1]
    <3>1. SUFFICES ASSUME NEW j \in 1 .. Len(seq), i + 1 < j
                   PROVE  seq[j][1] # seq[i + 1][1]
      OBVIOUS
    <3>2. j - 1 \in 1 .. Len(rest) /\ seq[j] = rest[j - 1] /\ i < j - 1
      BY <1>1, <1>3, <3>1
    <3>3. QED
      BY <1>2, <1>8, <3>2
  <2>2. QED
    BY <1>2, <2>1 DEF Leads
<1>9. ASSUME NEW i \in 1 .. Len(rest), NEW j \in 1 .. Len(rest), i < j,
             rest[i][1] = rest[j][1]
      PROVE  rest[i][2] \notin Done
  <2>1. /\ i + 1 \in 1 .. Len(seq) /\ j + 1 \in 1 .. Len(seq) /\ i + 1 < j + 1
        /\ rest[i] = seq[i + 1] /\ rest[j] = seq[j + 1]
    <3>1. i \in Nat /\ j \in Nat
      BY <1>1
    <3>2. i + 1 < j + 1
      BY <1>9, <3>1
    <3>3. i + 1 \in 1 .. Len(seq) /\ rest[i] = seq[i + 1]
      BY <1>2
    <3>4. j + 1 \in 1 .. Len(seq) /\ rest[j] = seq[j + 1]
      BY <1>2
    <3>5. QED
      BY <3>2, <3>3, <3>4
  <2>2. QED
    BY <1>9, <2>1 DEF Leads
<1>10. QED
  BY <1>5, <1>6, <1>7, <1>8, <1>9 DEF Leads, rest

-----------------------------------------------------------------------------
(* The stages, and what the steps of the tick have in common.              *)

LEMMA Timetable ==
  ASSUME TickTypeOK
  PROVE  /\ At("candle") <=> stage = 1
         /\ At("tick") <=> stage = IF sync THEN 2 ELSE 5
         /\ At("trigger") <=> stage = IF sync THEN 3 ELSE 2
         /\ At("match") <=> stage = IF sync THEN 4 ELSE 3
         /\ At("updates") <=> Reporting
         /\ At("end") <=> Ending
         /\ Len(Stages) = IF sync THEN 6 ELSE 7
         /\ MaxRounds = IF sync THEN 3 ELSE 1
<1>1. sync \in BOOLEAN /\ stage \in 0 .. IF sync THEN 6 ELSE 7
  BY DEF TickTypeOK
<1>2. CASE sync
  <2>1. Stages = <<"candle", "tick", "trigger", "match", "updates", "end">>
    BY <1>2 DEF Stages
  <2>2. stage \in {0, 1, 2, 3, 4, 5, 6}
    BY <1>1, <1>2
  <2>3. QED
    BY <1>2, <2>1, <2>2 DEF At, Failed, Reporting, Ending, MaxRounds
<1>3. CASE ~sync
  <2>1. Stages = <<"candle", "trigger", "match", "updates", "tick", "updates", "end">>
    BY <1>3 DEF Stages
  <2>2. stage \in {0, 1, 2, 3, 4, 5, 6, 7}
    BY <1>1, <1>3
  <2>3. QED
    BY <1>3, <2>1, <2>2 DEF At, Failed, Reporting, Ending, MaxRounds
<1>4. QED
  BY <1>1, <1>2, <1>3

\* Every step of the tick is a step of the exchange, or leaves it alone.
LEMMA ExchangeStep == TickNext => [Next]_paperVars
<1> SUFFICES ASSUME TickNext PROVE [Next]_paperVars
  OBVIOUS
<1>0. isHedgeMode' = isHedgeMode
  BY DEF TickNext
<1>1. ASSUME NEW k \in Candles, NewRow(k) PROVE Next
  BY <1>0, <1>1 DEF NewRow, Next
<1>2. CASE DataEnd
  BY <1>0, <1>2 DEF DataEnd
<1>3. CASE StartTrigger
  BY <1>0, <1>3 DEF StartTrigger, Next
<1>4. CASE Match
  BY <1>0, <1>4 DEF Match, Next
<1>5. CASE EndTrigger
  BY <1>5 DEF EndTrigger
<1>6. ASSUME NEW r \in Requests[isHedgeMode], ScriptCreates(r) PROVE Next
  BY <1>0, <1>6 DEF ScriptCreates, Next
<1>7. ASSUME NEW id \in Ids, NEW price \in Prices, NEW amount \in EditAmounts,
             ScriptEdits(id, price, amount)
      PROVE  Next
  BY <1>0, <1>7 DEF ScriptEdits, Next
<1>8. ASSUME NEW id \in Ids, ScriptCancels(id) PROVE Next
  BY <1>0, <1>8 DEF ScriptCancels, Next
<1>9. CASE TickEmitted
  BY <1>9 DEF TickEmitted
<1>10. CASE TakeUpdates
  BY <1>0, <1>10 DEF TakeUpdates, Next
<1>11. CASE UpdateEmitted
  BY <1>11 DEF UpdateEmitted
<1>12. QED
  BY <1>1, <1>2, <1>3, <1>4, <1>5, <1>6, <1>7, <1>8, <1>9, <1>10, <1>11 DEF TickNext

LEMMA BookTyped ==
  ASSUME PaperInv
  PROVE  /\ orders \in Seq(OrderType) /\ Len(orders) \in Nat
         /\ Ids = 1 .. Len(orders)
         /\ \A id \in Ids : orders[id] \in OrderType /\ orders[id].status \in Statuses
         /\ orderUpdates \in Seq(UpdateType)
<1>1. orders \in Seq(OrderType) /\ orderUpdates \in Seq(UpdateType)
  BY DEF PaperInv, PaperTypeOK, UpdateType
<1>2. \A id \in 1 .. Len(orders) : orders[id] \in OrderType
  BY <1>1
<1>3. QED
  BY <1>1, <1>2 DEF Ids, OrderType

\* The updates on their way are typed, and grow and shrink as sequences do.
LEMMA OnTheirWay ==
  ASSUME NEW b \in Seq(UpdateType), NEW q \in Seq(UpdateType)
  PROVE  LET way == (IF b = <<>> THEN <<>> ELSE Tail(b)) \o q
         IN /\ way \in Seq(UpdateType)
            /\ \A x \in UpdateType :
                 (IF b = <<>> THEN <<>> ELSE Tail(b)) \o Append(q, x) = Append(way, x)
            /\ b # <<>> /\ Tail(b) # <<>> => /\ Tail(Tail(b)) \o q = Tail(way)
                                             /\ way # <<>> /\ way[1] = Head(Tail(b))
            /\ b # <<>> /\ Tail(b) = <<>> => way = q
<1> DEFINE rest == IF b = <<>> THEN <<>> ELSE Tail(b)
           way == rest \o q
<1>1. rest \in Seq(UpdateType)
  <2>1. b # <<>> => Tail(b) \in Seq(UpdateType)
    BY HeadTailProperties
  <2>2. QED
    BY <2>1
<1>2. way \in Seq(UpdateType)
  BY <1>1, ConcatProperties
<1>3. ASSUME NEW x \in UpdateType PROVE rest \o Append(q, x) = Append(way, x)
  <2>1. Append(q, x) = q \o <<x>> /\ Append(way, x) = way \o <<x>> /\ <<x>> \in Seq(UpdateType)
    BY <1>2, AppendIsConcat
  <2> HIDE DEF rest
  <2>2. (rest \o q) \o <<x>> = rest \o (q \o <<x>>)
    BY SMTT(30), <1>1, <2>1, ConcatAssociative
  <2>3. QED
    BY <2>1, <2>2
<1>4. ASSUME b # <<>>, Tail(b) # <<>>
      PROVE  /\ Tail(Tail(b)) \o q = Tail(way)
             /\ way # <<>> /\ way[1] = Head(Tail(b))
  <2> DEFINE t == Tail(b)
  <2>1. t \in Seq(UpdateType) /\ t # <<>> /\ way = t \o q
    BY <1>1, <1>4
  <2> HIDE DEF t, way
  <2>2. /\ Len(way) = Len(t) + Len(q) /\ Len(t) \in Nat /\ Len(q) \in Nat /\ Len(t) # 0
        /\ \A i \in 1 .. Len(t) + Len(q) : way[i] = IF i <= Len(t) THEN t[i] ELSE q[i - Len(t)]
    BY <2>1, ConcatProperties
  <2>3. way # <<>> /\ way[1] = t[1] /\ Head(t) = t[1]
    BY <2>1, <2>2
  <2>4. /\ Tail(t) \in Seq(UpdateType) /\ Len(Tail(t)) = Len(t) - 1
        /\ \A i \in 1 .. Len(Tail(t)) : Tail(t)[i] = t[i + 1]
    BY <2>1, HeadTailProperties
  <2>5. /\ Tail(t) \o q \in Seq(UpdateType)
        /\ Len(Tail(t) \o q) = Len(Tail(t)) + Len(q)
        /\ \A i \in 1 .. Len(Tail(t)) + Len(q) :
             (Tail(t) \o q)[i] = IF i <= Len(Tail(t)) THEN Tail(t)[i]
                                 ELSE q[i - Len(Tail(t))]
    BY <2>4, ConcatProperties
  <2>6. /\ Tail(way) \in Seq(UpdateType) /\ Len(Tail(way)) = Len(way) - 1
        /\ \A i \in 1 .. Len(Tail(way)) : Tail(way)[i] = way[i + 1]
    BY <1>2, <2>3, HeadTailProperties
  <2>7. Len(Tail(t) \o q) = Len(Tail(way))
    BY <2>2, <2>4, <2>5, <2>6
  <2>8. \A i \in 1 .. Len(Tail(way)) : (Tail(t) \o q)[i] = Tail(way)[i]
    <3>1. TAKE i \in 1 .. Len(Tail(way))
    <3>2. i + 1 \in 1 .. Len(t) + Len(q) /\ i \in 1 .. Len(Tail(t)) + Len(q)
      BY <2>2, <2>4, <2>5, <2>6
    <3>3. CASE i <= Len(Tail(t))
      <4>1. i \in 1 .. Len(Tail(t)) /\ i + 1 <= Len(t)
        BY <2>2, <2>4, <3>2, <3>3
      <4>2. QED
        BY <2>2, <2>4, <2>5, <2>6, <3>2, <3>3, <4>1
    <3>4. CASE ~(i <= Len(Tail(t)))
      <4>1. ~(i + 1 <= Len(t)) /\ i - Len(Tail(t)) = i + 1 - Len(t)
        BY <2>2, <2>4, <3>2, <3>4
      <4>2. QED
        BY <2>2, <2>4, <2>5, <2>6, <3>2, <3>4, <4>1
    <3>5. QED
      BY <3>3, <3>4
  <2>9. Tail(t) \o q = Tail(way)
    BY <2>5, <2>6, <2>7, <2>8, SeqEqual
  <2>10. Tail(t) \o q = Tail(way) /\ way # <<>> /\ way[1] = Head(t)
    BY <2>3, <2>9
  <2>11. QED
    BY <2>10 DEF t
<1>5. ASSUME b # <<>>, Tail(b) = <<>> PROVE way = q
  BY <1>5, ConcatEmptySeq
<1>6. QED
  BY <1>2, <1>3, <1>4, <1>5

LEMMA UndeliveredTyped ==
  ASSUME PaperInv, TickTypeOK PROVE Undelivered \in Seq(UpdateType)
<1>1. batch \in Seq(UpdateType) /\ orderUpdates \in Seq(UpdateType)
  BY BookTyped DEF TickTypeOK
<1>2. QED
  BY <1>1, OnTheirWay DEF Undelivered

LEMMA UndeliveredGrows ==
  ASSUME PaperInv, TickTypeOK, NEW x \in UpdateType,
         orderUpdates' = Append(orderUpdates, x), batch' = batch
  PROVE  Undelivered' = Append(Undelivered, x)
<1>1. batch \in Seq(UpdateType) /\ orderUpdates \in Seq(UpdateType)
  BY BookTyped DEF TickTypeOK
<1>2. (IF batch = <<>> THEN <<>> ELSE Tail(batch)) \o Append(orderUpdates, x)
        = Append((IF batch = <<>> THEN <<>> ELSE Tail(batch)) \o orderUpdates, x)
  BY ZenonT(30), <1>1, OnTheirWay
<1>3. QED
  BY <1>2 DEF Undelivered

\* A step that leaves the orders, their updates and their history alone.
Quiet ==
  /\ orders' = orders
  /\ Undelivered' = Undelivered
  /\ UNCHANGED <<sync, told, born, filledAt>>

LEMMA QuietKeeps ==
  ASSUME TickInv, Quiet,
         matching' \subseteq OpenIds,
         rows' \in Nat, rows <= rows',
         stage' \in {2, 3} /\ rows' = rows => stage \in {2, 3}
  PROVE  /\ told' \in [Ids' -> Statuses \cup {"none"}]
         /\ born' \in [Ids' -> Nat]
         /\ filledAt' \in [Ids' -> Nat \X Nat]
         /\ HistoryInv'
         /\ SeesInv'
<1>1. Ids' = Ids /\ OpenIds' = OpenIds
  BY DEF Quiet, Ids, OpenIds
<1>2. /\ told \in [Ids -> Statuses \cup {"none"}] /\ born \in [Ids -> Nat]
      /\ filledAt \in [Ids -> Nat \X Nat] /\ rows \in Nat
  BY DEF TickInv, TickTypeOK
<1>3. \A id \in Ids : born[id] \in Nat
  BY <1>2
<1>4. HistoryInv'
  <2>1. matching' \subseteq OpenIds'
    BY <1>1
  <2>2. \A id \in Ids' : born'[id] <= rows'
    BY <1>1, <1>2, <1>3 DEF Quiet, TickInv, HistoryInv
  <2>3. ~sync' /\ stage' \in {2, 3} => \A id \in Ids' : born'[id] < rows'
    <3>1. CASE rows' = rows
      BY <1>1, <3>1 DEF Quiet, TickInv, HistoryInv
    <3>2. CASE rows' # rows
      BY <1>1, <1>2, <1>3, <3>2 DEF Quiet, TickInv, HistoryInv
    <3>3. QED
      BY <3>1, <3>2
  <2>4. \A id \in Ids' : orders'[id].status \notin Done => filledAt'[id] = <<0, 0>>
    BY <1>1 DEF Quiet, TickInv, HistoryInv
  <2>5. NoLookAhead'
    BY <1>1 DEF Quiet, TickInv, HistoryInv, NoLookAhead
  <2>6. QED
    BY <2>1, <2>2, <2>3, <2>4, <2>5 DEF HistoryInv
<1>5. SeesInv'
  <2>1. Status' = Status /\ Len(orders') = Len(orders) /\ told' = told
    BY <1>1 DEF Quiet, Status
  <2>2. QED
    BY <2>1 DEF Quiet, TickInv, SeesInv
<1>6. QED
  BY <1>1, <1>2, <1>4, <1>5 DEF Quiet

\* A step that changes one waiting order, queues the update and remembers it.
Changes(id) ==
  /\ id \in OpenIds
  /\ orders' \in Seq(OrderType)
  /\ Len(orders') = Len(orders)
  /\ orders'[id].type = orders[id].type
  /\ \A k \in Ids : k # id => orders'[k] = orders[k]
  /\ orderUpdates' = Append(orderUpdates, <<id, orders'[id].status>>)
  /\ matching' \subseteq matching \ {id}
  /\ filledAt' = [filledAt EXCEPT ![id] = IF orders'[id].status \in Done
                                          THEN <<rows, stage>> ELSE <<0, 0>>]
  /\ UNCHANGED <<sync, stage, round, batch, rows, told, born>>

LEMMA ChangeKeeps ==
  ASSUME TickInv, NEW id, Changes(id),
         ~sync /\ orders'[id].type # "market" /\ orders'[id].status = "closed" => stage = 3
  PROVE  TickTypeOK' /\ HistoryInv' /\ SeesInv' /\ TradeInv'
<1>1. /\ orders \in Seq(OrderType) /\ Len(orders) \in Nat
      /\ Ids = 1 .. Len(orders) /\ Ids' = Ids
      /\ id \in Ids /\ orders[id].status \notin Done
      /\ orderUpdates \in Seq(UpdateType)
  BY BookTyped DEF Changes, TickInv, OpenIds, Ids
<1>2. orders'[id].status \in Statuses /\ <<id, orders'[id].status>> \in UpdateType
  <2>1. orders'[id] \in OrderType
    BY <1>1 DEF Changes
  <2>2. orders'[id].status \in Statuses
    BY <2>1 DEF OrderType
  <2>3. id \in Nat
    BY <1>1
  <2>4. QED
    BY <2>2, <2>3 DEF UpdateType
<1>3. /\ sync \in BOOLEAN /\ stage \in Nat /\ rows \in Nat
      /\ told \in [Ids -> Statuses \cup {"none"}] /\ born \in [Ids -> Nat]
      /\ filledAt \in [Ids -> Nat \X Nat]
      /\ sync' = sync /\ stage' = stage /\ rows' = rows /\ born' = born
  BY DEF Changes, TickInv, TickTypeOK
<1>4. /\ filledAt' \in [Ids -> Nat \X Nat]
      /\ filledAt'[id] = IF orders'[id].status \in Done THEN <<rows, stage>> ELSE <<0, 0>>
      /\ \A k \in Ids : k # id => filledAt'[k] = filledAt[k]
  <2> DEFINE now == IF orders'[id].status \in Done THEN <<rows, stage>> ELSE <<0, 0>>
  <2>1. now \in Nat \X Nat
    BY <1>3
  <2>2. filledAt' = [filledAt EXCEPT ![id] = now]
    BY DEF Changes
  <2> HIDE DEF now
  <2>3. /\ filledAt' \in [Ids -> Nat \X Nat] /\ filledAt'[id] = now
        /\ \A k \in Ids : k # id => filledAt'[k] = filledAt[k]
    BY <1>1, <1>3, <2>1, <2>2
  <2>4. QED
    BY <2>3 DEF now
<1>5. TickTypeOK'
  BY <1>1, <1>4 DEF TickInv, TickTypeOK, Changes
<1>6. HistoryInv'
  <2>1. matching' \subseteq OpenIds'
    BY <1>1 DEF Changes, TickInv, HistoryInv, OpenIds
  <2>2. \A k \in Ids' : born'[k] <= rows'
    BY <1>1, <1>3 DEF TickInv, HistoryInv
  <2>3. ~sync' /\ stage' \in {2, 3} => \A k \in Ids' : born'[k] < rows'
    BY <1>1, <1>3 DEF TickInv, HistoryInv
  <2>4. \A k \in Ids' : orders'[k].status \notin Done => filledAt'[k] = <<0, 0>>
    BY <1>1, <1>4 DEF Changes, TickInv, HistoryInv
  <2>5. ASSUME ~sync', NEW k \in Ids', orders'[k].type # "market",
               orders'[k].status = "closed"
        PROVE  filledAt'[k][1] > born'[k]
    <3>1. CASE k = id
      <4>1. filledAt'[k] = <<rows, stage>>
        BY <1>4, <2>5, <3>1 DEF Done
      <4>2. born[k] < rows
        BY <1>1, <1>3, <2>5, <3>1 DEF TickInv, HistoryInv
      <4>3. born[k] \in Nat
        BY <1>1, <1>3, <3>1
      <4>4. QED
        BY <1>3, <4>1, <4>2, <4>3
    <3>2. CASE k # id
      BY <1>1, <1>3, <1>4, <2>5, <3>2 DEF Changes, TickInv, HistoryInv, NoLookAhead
    <3>3. QED
      BY <3>1, <3>2
  <2>6. NoLookAhead'
    BY <2>5 DEF NoLookAhead
  <2>7. QED
    BY <2>1, <2>2, <2>3, <2>4, <2>6 DEF HistoryInv
<1>7. SeesInv'
  <2>1. Undelivered' = Append(Undelivered, <<id, orders'[id].status>>)
    BY <1>2, UndeliveredGrows DEF Changes, TickInv
  <2>2. Undelivered \in Seq(UpdateType)
    BY UndeliveredTyped DEF TickInv
  <2>3. /\ Status[id] \notin Done /\ Status'[id] = orders'[id].status
        /\ \A k \in 1 .. Len(orders) : k # id => Status'[k] = Status[k]
    BY <1>1 DEF Status, Changes
  <2>4. Leads(Undelivered, told, Status, Len(orders))
    BY DEF TickInv, SeesInv
  <2>5. Leads(Append(Undelivered, <<id, Status'[id]>>), told, Status', Len(orders))
    BY <1>1, <1>2, <2>2, <2>3, <2>4, LeadsToChange
  <2>6. Len(orders') = Len(orders) /\ told' = told
    BY DEF Changes
  <2>7. QED
    BY <2>1, <2>3, <2>5, <2>6 DEF SeesInv
<1>8. TradeInv'
  <2>1. ASSUME NEW k \in Ids, Early(k)' PROVE k # id /\ Early(k)
    <3>1. filledAt'[k][2] \in Trading /\ filledAt'[k][2] < stage /\ filledAt'[k][1] = rows
      BY <1>3, <2>1 DEF Early, Trading
    <3>2. CASE k = id
      <4>1. filledAt'[k][2] = stage \/ filledAt'[k][2] = 0
        BY <1>4, <3>2
      <4>2. 0 \notin Trading
        BY DEF Trading
      <4>3. QED
        BY <1>3, <3>1, <4>1, <4>2
    <3>3. CASE k # id
      BY <1>4, <3>1, <3>3 DEF Early
    <3>4. QED
      BY <3>2, <3>3
  <2>2. \A n \in 1 .. Len(orderUpdates') :
          \/ n \in 1 .. Len(orderUpdates) /\ orderUpdates'[n] = orderUpdates[n]
          \/ orderUpdates'[n][1] = id
    <3>1. orderUpdates' = Append(orderUpdates, <<id, orders'[id].status>>)
      BY DEF Changes
    <3>2. QED
      BY <1>1, <1>2, <3>1, Appended
  <2>3. /\ Reporting' <=> Reporting
        /\ Ending' <=> Ending
        /\ batch' = batch /\ round' = round
    BY <1>3 DEF Reporting, Ending, Changes
  <2>4. batch' # <<>> \/ round' # 0 => Reporting'
    BY <2>3 DEF TickInv, TradeInv
  <2>5. Ending' \/ (Reporting' /\ (batch' # <<>> \/ round' # 0)) =>
          \A k \in Ids' : Early(k)' =>
            \A n \in 1 .. Len(orderUpdates') : orderUpdates'[n][1] # k
    BY <1>1, <2>1, <2>2, <2>3 DEF TickInv, TradeInv
  <2>6. round' # 0 => \A k \in Ids' : Early(k)' =>
                        \A n \in 1 .. Len(batch') : batch'[n][1] # k
    BY <1>1, <2>1, <2>3 DEF TickInv, TradeInv
  <2>7. QED
    BY <2>4, <2>5, <2>6 DEF TradeInv
<1>9. QED
  BY <1>5, <1>6, <1>7, <1>8

-----------------------------------------------------------------------------
(* The steps that change the book.                                         *)

LEMMA TypeStays ==
  ASSUME NEW book \in Seq(OrderType), NEW id \in 1 .. Len(book), Execute(id, book)
  PROVE  orders'[id].type = book[id].type
<1>1. book[id] \in OrderType
  OBVIOUS
<1>2. book[id].status \in Statuses /\ book[id].type \in OrderTypes
  BY <1>1 DEF OrderType
<1>3. \/ orders' = [book EXCEPT ![id].status = "canceled"]
      \/ orders' = [book EXCEPT ![id].status = "closed",
                                ![id].filled = Filled(book[id], positions[PositionIndex(book[id])])]
  BY DEF Execute
<1>4. QED
  BY <1>1, <1>2, <1>3 DEF OrderType

LEMMA ObserveChange ==
  ASSUME TickInv, Observe, NEW id \in OpenIds,
         orders' \in Seq(OrderType), Len(orders') = Len(orders),
         \A k \in Ids : k # id => orders'[k] = orders[k]
  PROVE  /\ told' = told /\ born' = born
         /\ filledAt' = [filledAt EXCEPT ![id] = IF orders'[id].status \in Done
                                                 THEN <<rows, stage>> ELSE <<0, 0>>]
<1>1. /\ Ids = 1 .. Len(orders) /\ DOMAIN orders' = Ids
      /\ id \in Ids /\ orders[id].status \notin Done
  BY DEF Ids, OpenIds
<1>2. /\ told \in [Ids -> Statuses \cup {"none"}] /\ born \in [Ids -> Nat]
      /\ filledAt \in [Ids -> Nat \X Nat]
      /\ \A k \in Ids : orders[k].status \notin Done => filledAt[k] = <<0, 0>>
  BY DEF TickInv, TickTypeOK, HistoryInv
<1>3. told' = told /\ born' = born
  BY <1>1, <1>2 DEF Observe
<1>4. \A k \in Ids : k # id =>
        filledAt[k] = IF orders[k].status \in Done THEN filledAt[k]
                      ELSE IF orders'[k].status \in Done THEN <<rows, stage>> ELSE <<0, 0>>
  BY <1>2
<1>5. filledAt' = [k \in Ids |-> IF orders[k].status \in Done THEN filledAt[k]
                                ELSE IF orders'[k].status \in Done THEN <<rows, stage>>
                                ELSE <<0, 0>>]
  BY <1>1 DEF Observe
<1>6. QED
  BY <1>1, <1>2, <1>3, <1>4, <1>5

LEMMA MatchKeepsTick ==
  ASSUME TickInv, Match, isHedgeMode' = isHedgeMode, sync' = sync
  PROVE  TickTypeOK' /\ HistoryInv' /\ SeesInv' /\ TradeInv'
<1>1. PICK id \in matching :
        /\ IF Crosses(id)
           THEN /\ Execute(id, orders)
                /\ orderUpdates' = Append(orderUpdates, <<id, orders'[id].status>>)
           ELSE UNCHANGED <<orders, positions, profit, cash, orderUpdates>>
        /\ matching' = matching \ {id}
  BY DEF Match, MatchNext
<1>2. /\ orders \in Seq(OrderType) /\ id \in 1 .. Len(orders) /\ id \in OpenIds
      /\ Ids = 1 .. Len(orders)
      /\ isHedgeMode \in BOOLEAN /\ Money
      /\ PaperInv
  BY MoneyOfInv, BookTyped DEF TickInv, HistoryInv, OpenIds, PaperInv, PaperTypeOK
<1>3. AgainstPosition(orders[id])
  BY <1>2 DEF PaperInv, ReduceAgainst, AgainstPosition
<1>4. Observe /\ UNCHANGED <<sync, stage, round, batch, rows>>
  BY DEF Match
<1>5. ~sync => stage = 3
  BY Timetable DEF Match, TickInv
<1>6. CASE Crosses(id)
  <2>1. Execute(id, orders)
    BY <1>1, <1>6
  <2>2. /\ orders' \in Seq(OrderType) /\ Len(orders') = Len(orders)
        /\ \A n \in 1 .. Len(orders) : n # id => orders'[n] = orders[n]
        /\ orders'[id].type = orders[id].type
    BY <1>2, <1>3, <2>1, Execution, TypeStays
  <2>3. /\ told' = told /\ born' = born
        /\ filledAt' = [filledAt EXCEPT ![id] = IF orders'[id].status \in Done
                                                THEN <<rows, stage>> ELSE <<0, 0>>]
    BY <1>2, <1>4, <2>2, ObserveChange
  <2>4. Changes(id)
    BY <1>1, <1>2, <1>4, <1>6, <2>2, <2>3 DEF Changes
  <2>5. QED
    BY <1>5, <2>4, ChangeKeeps
<1>7. CASE ~Crosses(id)
  <2>1. orders' = orders /\ orderUpdates' = orderUpdates
    BY <1>1, <1>7
  <2>2. /\ told' = told /\ born' = born
        /\ filledAt' = [filledAt EXCEPT ![id] = IF orders'[id].status \in Done
                                                THEN <<rows, stage>> ELSE <<0, 0>>]
    BY <1>2, <1>4, <2>1, ObserveChange
  <2>3. filledAt' = filledAt
    <3>1. filledAt[id] = <<0, 0>> /\ orders[id].status \notin Done
      BY <1>2 DEF TickInv, HistoryInv, OpenIds
    <3>2. filledAt \in [Ids -> Nat \X Nat]
      BY DEF TickInv, TickTypeOK
    <3>3. QED
      BY <1>2, <2>1, <2>2, <3>1, <3>2
  <2>4. Quiet
    BY <1>4, <2>1, <2>2, <2>3 DEF Quiet, Undelivered
  <2>5. matching' \subseteq OpenIds
    BY <1>1 DEF TickInv, HistoryInv
  <2>6. rows \in Nat /\ rows' = rows /\ stage' = stage /\ rows <= rows'
    BY <1>4 DEF TickInv, TickTypeOK
  <2>7. /\ told' \in [Ids' -> Statuses \cup {"none"}]
        /\ born' \in [Ids' -> Nat]
        /\ filledAt' \in [Ids' -> Nat \X Nat]
        /\ HistoryInv'
        /\ SeesInv'
    BY <2>4, <2>5, <2>6, QuietKeeps
  <2>8. TickTypeOK'
    BY <1>4, <2>7 DEF TickInv, TickTypeOK
  <2>9. TradeInv'
    BY <1>4, <2>1, <2>3 DEF TickInv, TradeInv, Reporting, Ending, Early, Trading, Ids
  <2>10. QED
    BY <2>7, <2>8, <2>9
<1>8. QED
  BY <1>6, <1>7

LEMMA EditKeepsTick ==
  ASSUME TickInv, NEW id \in Ids, NEW price \in Prices, NEW amount \in EditAmounts,
         ScriptEdits(id, price, amount), sync' = sync
  PROVE  TickTypeOK' /\ HistoryInv' /\ SeesInv' /\ TradeInv'
<1>1. /\ orders' = [orders EXCEPT ![id].price = price, ![id].amount = amount]
      /\ orderUpdates' = Append(orderUpdates, <<id, "open">>)
      /\ orders[id].status = "open"
      /\ matching = {} /\ matching' = matching
      /\ UNCHANGED <<stage, round, batch, rows, told, born, filledAt>>
  BY DEF ScriptEdits, Edit
<1>2. /\ orders \in Seq(OrderType) /\ id \in 1 .. Len(orders) /\ Ids = 1 .. Len(orders)
      /\ orders[id] \in OrderType /\ id \in OpenIds
  BY <1>1, BookTyped DEF TickInv, OpenIds, Done
<1>3. price \in Positive /\ amount \in Positive
  BY PricesPositive, AmountsPositive DEF Positive
<1>4. /\ [orders[id] EXCEPT !.price = price, !.amount = amount] \in OrderType
      /\ [orders[id] EXCEPT !.price = price, !.amount = amount].status = orders[id].status
      /\ [orders[id] EXCEPT !.price = price, !.amount = amount].type = orders[id].type
  BY <1>2, <1>3 DEF OrderType
<1>5. /\ orders' \in Seq(OrderType) /\ Len(orders') = Len(orders)
      /\ \A k \in Ids : k # id => orders'[k] = orders[k]
      /\ orders'[id].type = orders[id].type /\ orders'[id].status = "open"
  <2> DEFINE x == [orders[id] EXCEPT !.price = price, !.amount = amount]
  <2>1. orders' = [orders EXCEPT ![id] = x]
    BY <1>1
  <2>2. x \in OrderType /\ x.type = orders[id].type /\ x.status = "open"
    BY <1>1, <1>4
  <2> HIDE DEF x
  <2>3. QED
    BY <1>2, <2>1, <2>2, ReplacedInSeq
<1>6. filledAt' = [filledAt EXCEPT ![id] = IF orders'[id].status \in Done
                                           THEN <<rows, stage>> ELSE <<0, 0>>]
  <2>1. filledAt[id] = <<0, 0>> /\ filledAt \in [Ids -> Nat \X Nat]
    BY <1>2 DEF TickInv, HistoryInv, TickTypeOK, OpenIds
  <2>2. orders'[id].status \notin Done
    BY <1>5 DEF Done
  <2>3. QED
    BY <1>1, <2>1, <2>2
<1>7. Changes(id)
  BY <1>1, <1>2, <1>5, <1>6 DEF Changes
<1>8. QED
  BY <1>5, <1>7, ChangeKeeps

LEMMA CancelKeepsTick ==
  ASSUME TickInv, NEW id \in Ids, ScriptCancels(id), sync' = sync
  PROVE  TickTypeOK' /\ HistoryInv' /\ SeesInv' /\ TradeInv'
<1>1. /\ orders' = [orders EXCEPT ![id].status = "canceled"]
      /\ orderUpdates' = Append(orderUpdates, <<id, "canceled">>)
      /\ id \in OpenIds
      /\ matching = {} /\ matching' = matching
      /\ Observe
      /\ UNCHANGED <<stage, round, batch, rows>>
  BY DEF ScriptCancels, Cancel
<1>2. /\ orders \in Seq(OrderType) /\ id \in 1 .. Len(orders) /\ Ids = 1 .. Len(orders)
      /\ orders[id] \in OrderType
  BY BookTyped DEF TickInv
<1>3. /\ orders' \in Seq(OrderType) /\ Len(orders') = Len(orders)
      /\ \A k \in Ids : k # id => orders'[k] = orders[k]
      /\ orders'[id].type = orders[id].type /\ orders'[id].status = "canceled"
  <2> DEFINE x == [orders[id] EXCEPT !.status = "canceled"]
  <2>1. orders' = [orders EXCEPT ![id] = x]
    BY <1>1
  <2>2. x \in OrderType /\ x.type = orders[id].type /\ x.status = "canceled"
    BY <1>2 DEF OrderType, Statuses
  <2> HIDE DEF x
  <2>3. QED
    BY <1>2, <2>1, <2>2, ReplacedInSeq
<1>4. /\ told' = told /\ born' = born
      /\ filledAt' = [filledAt EXCEPT ![id] = IF orders'[id].status \in Done
                                              THEN <<rows, stage>> ELSE <<0, 0>>]
  BY <1>1, <1>3, ObserveChange
<1>5. Changes(id)
  BY <1>1, <1>2, <1>3, <1>4 DEF Changes
<1>6. QED
  BY <1>3, <1>5, ChangeKeeps

\* What the histories record of a new order.
LEMMA ObserveNew ==
  ASSUME TickInv, Observe,
         orders' \in Seq(OrderType), Len(orders') = Len(orders) + 1,
         \A k \in Ids : orders'[k] = orders[k]
  PROVE  LET id == Len(orders) + 1
         IN /\ Ids' = Ids \cup {id} /\ id \notin Ids
            /\ told' \in [Ids' -> Statuses \cup {"none"}]
            /\ born' \in [Ids' -> Nat]
            /\ filledAt' \in [Ids' -> Nat \X Nat]
            /\ told'[id] = "none" /\ born'[id] = rows
            /\ filledAt'[id] = IF orders'[id].status \in Done THEN <<rows, stage>>
                               ELSE <<0, 0>>
            /\ \A k \in Ids : /\ told'[k] = told[k] /\ born'[k] = born[k]
                              /\ filledAt'[k] = filledAt[k]
<1> DEFINE id == Len(orders) + 1
<1>1. /\ Len(orders) \in Nat /\ Ids = 1 .. Len(orders) /\ DOMAIN orders' = Ids'
      /\ Ids' = Ids \cup {id} /\ id \notin Ids
  BY BookTyped DEF TickInv, Ids
<1>2. /\ told \in [Ids -> Statuses \cup {"none"}] /\ born \in [Ids -> Nat]
      /\ filledAt \in [Ids -> Nat \X Nat] /\ rows \in Nat /\ stage \in Nat
      /\ \A k \in Ids : orders[k].status \notin Done => filledAt[k] = <<0, 0>>
  BY DEF TickInv, TickTypeOK, HistoryInv
<1> DEFINE done == <<rows, stage>>
           never == <<0, 0>>
<1>3. done \in Nat \X Nat /\ never \in Nat \X Nat
  BY <1>2
<1> HIDE DEF id
<1>4. /\ told' \in [Ids' -> Statuses \cup {"none"}] /\ told'[id] = "none"
      /\ \A k \in Ids : told'[k] = told[k]
  BY <1>1, <1>2 DEF Observe
<1>5. /\ born' \in [Ids' -> Nat] /\ born'[id] = rows
      /\ \A k \in Ids : born'[k] = born[k]
  BY <1>1, <1>2 DEF Observe
<1>6. filledAt' = [k \in Ids' |-> IF k \in Ids /\ orders[k].status \in Done THEN filledAt[k]
                                 ELSE IF orders'[k].status \in Done THEN done ELSE never]
  BY <1>1 DEF Observe
<1>7. \A k \in Ids : orders[k].status \notin Done => filledAt[k] = never
  BY <1>2
<1> HIDE DEF done, never
<1>8. /\ filledAt' \in [Ids' -> Nat \X Nat]
      /\ filledAt'[id] = IF orders'[id].status \in Done THEN done ELSE never
      /\ \A k \in Ids : filledAt'[k] = filledAt[k]
  <2>1. \A k \in Ids : filledAt[k] \in Nat \X Nat
    BY <1>2
  <2>2. \A k \in Ids' : filledAt'[k] \in Nat \X Nat
    BY <1>1, <1>3, <1>6, <2>1
  <2>3. filledAt' \in [Ids' -> Nat \X Nat]
    BY <1>6, <2>2
  <2>4. QED
    BY <1>1, <1>6, <1>7, <2>3
<1>9. QED
  BY <1>1, <1>4, <1>5, <1>8 DEF id, done, never

\* The updates of a new order: its status, or for a market order "open" before it.
LEMMA CreateSees ==
  ASSUME TickInv, batch' = batch,
         Len(orders') = Len(orders) + 1,
         \A k \in Ids : orders'[k] = orders[k] /\ told'[k] = told[k],
         told'[Len(orders) + 1] = "none",
         orders'[Len(orders) + 1].status \in Statuses,
         \/ orderUpdates' = Append(orderUpdates, <<Len(orders) + 1, orders'[Len(orders) + 1].status>>)
         \/ orderUpdates' = Append(Append(orderUpdates, <<Len(orders) + 1, "open">>),
                                   <<Len(orders) + 1, orders'[Len(orders) + 1].status>>)
  PROVE  SeesInv'
<1> DEFINE id == Len(orders) + 1
           first == <<id, "open">>
           last == <<id, orders'[id].status>>
           S == [k \in 1 .. id |-> IF k = id THEN "open" ELSE Status[k]]
           way == Append(Undelivered, first)
<1>1. /\ Len(orders) \in Nat /\ Ids = 1 .. Len(orders) /\ Ids' = 1 .. id
      /\ id \in Nat /\ id \in 1 .. id /\ id \notin Ids
      /\ batch \in Seq(UpdateType) /\ orderUpdates \in Seq(UpdateType)
      /\ (\A k \in 1 .. id : k # id => k \in Ids) /\ Ids \subseteq 1 .. id
  BY BookTyped DEF TickInv, TickTypeOK, Ids
<1>2. "open" \in Statuses /\ "open" \notin Done /\ "none" \notin Done
  BY DEF Statuses, Done
<1>3. first \in UpdateType /\ last \in UpdateType
  BY <1>1, <1>2 DEF UpdateType
<1>4. Undelivered \in Seq(UpdateType) /\ way \in Seq(UpdateType)
  BY <1>3, Appended, UndeliveredTyped DEF TickInv
<1>5. Leads(Undelivered, told, Status, Len(orders))
  BY DEF TickInv, SeesInv
<1>6. /\ \A k \in 1 .. Len(orders) : told'[k] = told[k] /\ Status'[k] = Status[k]
      /\ Status'[id] = orders'[id].status
  BY <1>1 DEF Status
<1>7. \A k \in 1 .. Len(orders) : S[k] = Status[k]
  BY <1>1
<1>8. S[id] = "open" /\ \A k \in 1 .. id : k # id => Status'[k] = S[k]
  BY <1>1, <1>6, <1>7
<1>9. CASE orderUpdates' = Append(orderUpdates, last)
  <2>1. Undelivered' = Append(Undelivered, last)
    BY <1>3, <1>9, UndeliveredGrows DEF TickInv
  <2>2. Leads(Append(Undelivered, <<id, Status'[id]>>), told', Status', id)
    BY <1>1, <1>2, <1>4, <1>5, <1>6, LeadsToNew
  <2>3. QED
    BY <1>6, <2>1, <2>2 DEF SeesInv
<1>10. CASE orderUpdates' = Append(Append(orderUpdates, first), last)
  <2>1. Undelivered' = Append(way, last)
    <3> DEFINE rest == IF batch = <<>> THEN <<>> ELSE Tail(batch)
               queue == Append(orderUpdates, first)
    <3>1. rest \o Append(orderUpdates, first) = Append(rest \o orderUpdates, first)
      BY ZenonT(30), <1>1, <1>3, OnTheirWay
    <3>2. queue \in Seq(UpdateType)
      BY <1>1, <1>3, Appended
    <3> HIDE DEF queue, first, last, way, S, id
    <3>3. rest \o Append(queue, last) = Append(rest \o queue, last)
      <4>1. /\ batch \in Seq(UpdateType) /\ queue \in Seq(UpdateType)
            /\ last \in UpdateType
        BY <1>1, <1>3, <3>2
      <4>2. QED
        BY ZenonT(30), <4>1, OnTheirWay
    <3>4. rest \o queue = way
      BY <3>1 DEF queue, way, Undelivered
    <3>5. Undelivered' = rest \o Append(queue, last)
      BY <1>10 DEF queue, Undelivered
    <3> HIDE DEF rest
    <3>6. QED
      BY <3>3, <3>4, <3>5
  <2> HIDE DEF S
  <2>2. Leads(Append(Undelivered, <<id, S[id]>>), told', S, id)
    BY <1>1, <1>2, <1>4, <1>5, <1>6, <1>7, <1>8, LeadsToNew
  <2>3. Leads(way, told', S, id)
    BY <1>8, <2>2
  <2> HIDE DEF way
  <2>4. Leads(Append(way, <<id, Status'[id]>>), told', Status', id)
    BY <1>1, <1>2, <1>4, <1>6, <1>8, <2>3, LeadsToChange
  <2>5. QED
    BY <1>6, <2>1, <2>4 DEF SeesInv
<1>11. QED
  BY <1>9, <1>10

LEMMA TwoAppended ==
  ASSUME NEW seq \in Seq(UpdateType), NEW x \in UpdateType, NEW y \in UpdateType
  PROVE  seq \o <<x, y>> = Append(Append(seq, x), y)
<1>1. Append(seq, x) \in Seq(UpdateType) /\ <<x>> \in Seq(UpdateType)
      /\ <<y>> \in Seq(UpdateType) /\ <<x>> \o <<y>> = <<x, y>>
  <2>1. Append(seq, x) \in Seq(UpdateType)
    BY Appended
  <2>2. <<x>> \in Seq(UpdateType) /\ <<y>> \in Seq(UpdateType)
    OBVIOUS
  <2>3. <<x>> \o <<y>> = <<x, y>>
    <3> DEFINE both == <<x>> \o <<y>>
               pair == <<x, y>>
    <3>1. /\ both \in Seq(UpdateType) /\ Len(both) = 2
          /\ both[1] = x /\ both[2] = y
      <4>1. Len(<<x>>) = 1 /\ Len(<<y>>) = 1 /\ <<x>>[1] = x /\ <<y>>[1] = y
        OBVIOUS
      <4>2. /\ both \in Seq(UpdateType) /\ Len(both) = Len(<<x>>) + Len(<<y>>)
            /\ \A i \in 1 .. Len(<<x>>) + Len(<<y>>) :
                 both[i] = IF i <= Len(<<x>>) THEN <<x>>[i] ELSE <<y>>[i - Len(<<x>>)]
        BY <2>2, ConcatProperties
      <4> HIDE DEF both
      <4>3. 1 \in 1 .. 2 /\ 2 \in 1 .. 2 /\ 2 - 1 = 1
        OBVIOUS
      <4>4. QED
        BY <4>1, <4>2, <4>3
    <3>2. /\ pair \in Seq(UpdateType) /\ Len(pair) = 2
          /\ pair[1] = x /\ pair[2] = y
      OBVIOUS
    <3> HIDE DEF both, pair
    <3>3. \A i \in 1 .. Len(both) : both[i] = pair[i]
      <4>1. \A i \in 1 .. Len(both) : i = 1 \/ i = 2
        BY <3>1
      <4>2. QED
        BY <3>1, <3>2, <4>1
    <3>4. both = pair
      BY <3>1, <3>2, <3>3, SeqEqual
    <3>5. QED
      BY <3>4 DEF both, pair
  <2>4. QED
    BY <2>1, <2>2, <2>3
<1>2. Append(Append(seq, x), y) = (seq \o <<x>>) \o <<y>>
  BY <1>1, AppendIsConcat
<1>3. (seq \o <<x>>) \o <<y>> = seq \o (<<x>> \o <<y>>)
  BY <1>1, ConcatAssociative
<1>4. QED
  BY <1>1, <1>2, <1>3

\* What create() does to the book and its queue.
LEMMA Creation ==
  ASSUME TickInv, NEW r \in Requests[isHedgeMode], Create(r), isHedgeMode' = isHedgeMode
  PROVE  LET id == Len(orders) + 1
         IN /\ orders' \in Seq(OrderType)
            /\ Len(orders') = id
            /\ \A k \in Ids : orders'[k] = orders[k]
            /\ orders'[id].type = "market" \/ orders'[id].status \notin Done
            /\ orders'[id].status \in Statuses
            /\ \/ orderUpdates' = Append(orderUpdates, <<id, orders'[id].status>>)
               \/ orderUpdates' = Append(Append(orderUpdates, <<id, "open">>),
                                         <<id, orders'[id].status>>)
            /\ matching = {} /\ matching' = {}
<1> DEFINE id == Len(orders) + 1
           book == Append(orders, NewOrder(r))
<1>1. /\ PaperInv /\ Money /\ orders \in Seq(OrderType) /\ Len(orders) \in Nat
      /\ Ids = 1 .. Len(orders) /\ isHedgeMode \in BOOLEAN
      /\ orderUpdates \in Seq(UpdateType)
  BY BookTyped, MoneyOfInv DEF TickInv, PaperInv, PaperTypeOK
<1>2. r \in RequestType
  BY <1>1, RequestsTyped
<1>3. NewOrder(r) \in OrderType /\ AgainstPosition(NewOrder(r))
  BY <1>1, <1>2, NewOrderTyped DEF Create
<1>4. NewOrder(r).type = r.type /\ NewOrder(r).status \notin Done
  BY DEF NewOrder, Done
<1>5. /\ book \in Seq(OrderType) /\ Len(book) = id /\ book[id] = NewOrder(r)
      /\ id \in 1 .. Len(book) /\ id \notin Ids
      /\ \A n \in 1 .. Len(orders) : book[n] = orders[n] /\ n \in 1 .. Len(book)
  BY <1>1, <1>3
<1>6. matching = {} /\ matching' = {}
  BY DEF Create
<1>7. CASE r.type = "market"
  <2>1. /\ Execute(id, book)
        /\ orderUpdates' = orderUpdates \o <<<<id, "open">>, <<id, orders'[id].status>>>>
    BY <1>7 DEF Create
  <2> HIDE DEF book
  <2>2. /\ orders' \in Seq(OrderType) /\ Len(orders') = id
        /\ \A n \in 1 .. Len(book) : n # id => orders'[n] = book[n]
        /\ orders'[id].type = "market"
    BY <1>1, <1>3, <1>4, <1>5, <1>7, <2>1, Execution, TypeStays
  <2>3. orders'[id].status \in Statuses
    <3>1. orders'[id] \in OrderType
      BY <1>1, <2>2
    <3>2. QED
      BY <3>1 DEF OrderType
  <2>4. <<id, "open">> \in UpdateType /\ <<id, orders'[id].status>> \in UpdateType
    <3>1. id \in Nat /\ "open" \in Statuses
      BY <1>1 DEF Statuses
    <3>2. QED
      BY <2>3, <3>1 DEF UpdateType
  <2>5. orderUpdates' = Append(Append(orderUpdates, <<id, "open">>), <<id, orders'[id].status>>)
    BY <1>1, <2>1, <2>4, TwoAppended
  <2>6. \A k \in Ids : orders'[k] = orders[k]
    BY <1>1, <1>5, <2>2
  <2>7. QED
    BY <1>6, <2>2, <2>3, <2>5, <2>6
<1>8. CASE r.type # "market"
  <2>1. orders' = book /\ orderUpdates' = Append(orderUpdates, <<id, book[id].status>>)
    BY <1>8 DEF Create
  <2> HIDE DEF book
  <2>2. orders'[id].status \in Statuses
    BY <1>3, <1>5, <2>1 DEF OrderType
  <2>3. QED
    BY <1>1, <1>4, <1>5, <1>6, <2>1, <2>2
<1>9. QED
  BY <1>7, <1>8

LEMMA CreateKeepsTick ==
  ASSUME TickInv, NEW r \in Requests[isHedgeMode], ScriptCreates(r),
         isHedgeMode' = isHedgeMode, sync' = sync
  PROVE  TickTypeOK' /\ HistoryInv' /\ SeesInv' /\ TradeInv'
<1> DEFINE id == Len(orders) + 1
<1>1. /\ orders' \in Seq(OrderType)
      /\ Len(orders') = id
      /\ \A k \in Ids : orders'[k] = orders[k]
      /\ orders'[id].type = "market" \/ orders'[id].status \notin Done
      /\ orders'[id].status \in Statuses
      /\ \/ orderUpdates' = Append(orderUpdates, <<id, orders'[id].status>>)
         \/ orderUpdates' = Append(Append(orderUpdates, <<id, "open">>),
                                   <<id, orders'[id].status>>)
      /\ matching' = {}
  BY Creation DEF ScriptCreates
<1>2. Observe /\ UNCHANGED <<sync, stage, round, batch, rows>>
  BY DEF ScriptCreates
<1>3. /\ Ids' = Ids \cup {id} /\ id \notin Ids
      /\ told' \in [Ids' -> Statuses \cup {"none"}]
      /\ born' \in [Ids' -> Nat]
      /\ filledAt' \in [Ids' -> Nat \X Nat]
      /\ told'[id] = "none" /\ born'[id] = rows
      /\ filledAt'[id] = IF orders'[id].status \in Done THEN <<rows, stage>> ELSE <<0, 0>>
      /\ \A k \in Ids : /\ told'[k] = told[k] /\ born'[k] = born[k]
                        /\ filledAt'[k] = filledAt[k]
  BY <1>1, <1>2, ObserveNew
<1>4. /\ sync \in BOOLEAN /\ stage \in Nat /\ rows \in Nat /\ Len(orders) \in Nat
      /\ Ids = 1 .. Len(orders) /\ orderUpdates \in Seq(UpdateType)
      /\ rows' = rows /\ stage' = stage /\ sync' = sync
  BY <1>2, BookTyped DEF TickInv, TickTypeOK
<1>5. TickTypeOK'
  BY <1>2, <1>3 DEF TickInv, TickTypeOK
<1>6. SeesInv'
  BY <1>1, <1>2, <1>3, CreateSees
<1> HIDE DEF id
<1>7. HistoryInv'
  <2>1. matching' \subseteq OpenIds'
    BY <1>1
  <2>2. \A k \in Ids' : born'[k] <= rows'
    BY SMTT(30), <1>3, <1>4 DEF TickInv, HistoryInv
  <2>3. ~sync' => stage' \notin {2, 3}
    BY SMTT(30), <1>4, Timetable DEF ScriptCreates, Waits, Failed, Reporting, Ending, TickInv
  <2>4. \A k \in Ids' : orders'[k].status \notin Done => filledAt'[k] = <<0, 0>>
    BY <1>1, <1>3 DEF TickInv, HistoryInv
  <2>5. NoLookAhead'
    <3>1. SUFFICES ASSUME ~sync', NEW k \in Ids', orders'[k].type # "market",
                          orders'[k].status = "closed"
                   PROVE  filledAt'[k][1] > born'[k]
      BY DEF NoLookAhead
    <3>2. k # id
      BY <1>1, <3>1 DEF Done
    <3>3. /\ k \in Ids /\ orders'[k] = orders[k] /\ filledAt'[k] = filledAt[k]
          /\ born'[k] = born[k]
      BY <1>1, <1>3, <3>1, <3>2
    <3>4. NoLookAhead /\ ~sync
      BY <1>4, <3>1 DEF TickInv, HistoryInv
    <3>5. QED
      BY <3>1, <3>3, <3>4 DEF NoLookAhead
  <2>6. QED
    BY <2>1, <2>2, <2>3, <2>4, <2>5 DEF HistoryInv
<1>8. TradeInv'
  <2>1. ASSUME NEW k \in Ids', Early(k)' PROVE k \in Ids /\ k # id /\ Early(k)
    <3>1. filledAt'[k][2] \in Trading /\ filledAt'[k][2] < stage /\ filledAt'[k][1] = rows
      BY <1>4, <2>1 DEF Early, Trading
    <3>2. CASE k = id
      <4>1. filledAt'[k][2] = stage \/ filledAt'[k][2] = 0
        BY <1>3, <3>2
      <4>2. 0 \notin Trading
        BY DEF Trading
      <4>3. QED
        BY <1>4, <3>1, <4>1, <4>2
    <3>3. CASE k # id
      BY <1>3, <3>1, <3>3 DEF Early
    <3>4. QED
      BY <3>2, <3>3
  <2>2. \A n \in 1 .. Len(orderUpdates') :
          \/ n \in 1 .. Len(orderUpdates) /\ orderUpdates'[n] = orderUpdates[n]
          \/ orderUpdates'[n][1] = id
    <3> DEFINE x == <<id, "open">>
               y == <<id, orders'[id].status>>
               queue == Append(orderUpdates, x)
    <3>1. x \in UpdateType /\ y \in UpdateType
      <4>1. id \in Nat
        BY <1>4 DEF id
      <4>2. "open" \in Statuses
        BY DEF Statuses
      <4>3. QED
        BY <1>1, <4>1, <4>2 DEF UpdateType
    <3>2. x[1] = id /\ y[1] = id
      OBVIOUS
    <3>3. orderUpdates' = Append(orderUpdates, y) \/ orderUpdates' = Append(queue, y)
      BY <1>1
    <3> HIDE DEF x, y
    <3>4. /\ queue \in Seq(UpdateType) /\ Len(queue) = Len(orderUpdates) + 1
          /\ queue[Len(orderUpdates) + 1] = x
          /\ \A i \in 1 .. Len(orderUpdates) : queue[i] = orderUpdates[i]
          /\ Len(orderUpdates) \in Nat
      BY <1>4, <3>1, Appended
    <3> HIDE DEF queue
    <3>5. CASE orderUpdates' = Append(orderUpdates, y)
      BY <1>4, <3>1, <3>2, <3>5, Appended
    <3>6. CASE orderUpdates' = Append(queue, y)
      <4>1. /\ Len(orderUpdates') = Len(queue) + 1
            /\ orderUpdates'[Len(queue) + 1] = y
            /\ \A i \in 1 .. Len(queue) : orderUpdates'[i] = queue[i]
        BY <3>1, <3>4, <3>6, Appended
      <4>2. QED
        BY <3>2, <3>4, <4>1
    <3>7. QED
      BY <3>3, <3>5, <3>6
  <2>3. /\ Reporting' <=> Reporting
        /\ Ending' <=> Ending
        /\ batch' = batch /\ round' = round
    BY <1>2 DEF Reporting, Ending
  <2>4. batch' # <<>> \/ round' # 0 => Reporting'
    BY <2>3 DEF TickInv, TradeInv
  <2>5. Ending' \/ (Reporting' /\ (batch' # <<>> \/ round' # 0)) =>
          \A k \in Ids' : Early(k)' =>
            \A n \in 1 .. Len(orderUpdates') : orderUpdates'[n][1] # k
    BY <2>1, <2>2, <2>3 DEF TickInv, TradeInv
  <2>6. round' # 0 => \A k \in Ids' : Early(k)' =>
                        \A n \in 1 .. Len(batch') : batch'[n][1] # k
    BY <2>1, <2>3 DEF TickInv, TradeInv
  <2>7. QED
    BY <2>4, <2>5, <2>6 DEF TradeInv
<1>9. QED
  BY <1>5, <1>6, <1>7, <1>8

-----------------------------------------------------------------------------
(* The steps that move the tick on, and those that hand out the updates.   *)

\* What a step has to show that hands nothing out and changes no order.
LEMMA MovesOn ==
  ASSUME TickInv, Quiet,
         matching' \subseteq OpenIds,
         rows' \in Nat, rows <= rows',
         stage' \in 0 .. IF sync THEN 6 ELSE 7,
         stage' \in {2, 3} /\ rows' = rows => stage \in {2, 3},
         batch' = <<>>, round' = 0, ~Ending'
  PROVE  TickTypeOK' /\ HistoryInv' /\ SeesInv' /\ TradeInv'
<1>1. /\ told' \in [Ids' -> Statuses \cup {"none"}]
      /\ born' \in [Ids' -> Nat]
      /\ filledAt' \in [Ids' -> Nat \X Nat]
      /\ HistoryInv'
      /\ SeesInv'
  BY QuietKeeps
<1>2. /\ sync' = sync /\ sync' \in BOOLEAN /\ batch' \in Seq(UpdateType)
      /\ round' \in 0 .. IF sync' THEN 2 ELSE 0
  BY DEF Quiet, TickInv, TickTypeOK
<1>3. TickTypeOK'
  BY <1>1, <1>2 DEF TickTypeOK
<1>4. TradeInv'
  BY DEF TradeInv
<1>5. QED
  BY <1>1, <1>3, <1>4

\* Outside of the update stages nothing is being handed out.
LEMMA NothingOut ==
  ASSUME TickInv, ~Reporting PROVE batch = <<>> /\ round = 0
BY DEF TickInv, TradeInv

LEMMA RowKeepsTick ==
  ASSUME TickInv, NEW k \in Candles, NewRow(k), sync' = sync
  PROVE  TickTypeOK' /\ HistoryInv' /\ SeesInv' /\ TradeInv'
<1>1. sync \in BOOLEAN /\ rows \in Nat /\ stage = 1
  BY Timetable DEF TickInv, TickTypeOK, NewRow
<1>2. stage' = 2
  BY <1>1, Timetable DEF NewRow, Advance, TickInv
<1>3. batch = <<>> /\ round = 0
  BY <1>1, NothingOut DEF Reporting
<1>4. Quiet
  BY DEF NewRow, SetNewCandle, Quiet, Undelivered
<1>5. matching' \subseteq OpenIds
  BY DEF NewRow, SetNewCandle
<1>6. rows' \in Nat /\ rows <= rows' /\ rows' # rows /\ batch' = <<>> /\ round' = 0
  BY <1>1, <1>3 DEF NewRow
<1>7. ~Ending'
  BY <1>2 DEF Ending
<1>8. QED
  BY <1>1, <1>2, <1>4, <1>5, <1>6, <1>7, MovesOn

\* A step that only moves on from one stage to the next.
LEMMA StageKeepsTick ==
  ASSUME TickInv, DataEnd \/ StartTrigger \/ EndTrigger \/ TickEmitted, sync' = sync
  PROVE  TickTypeOK' /\ HistoryInv' /\ SeesInv' /\ TradeInv'
<1>1. sync \in BOOLEAN /\ rows \in Nat /\ stage \in 0 .. IF sync THEN 6 ELSE 7
  BY DEF TickInv, TickTypeOK
<1>2. /\ At("candle") <=> stage = 1
      /\ At("tick") <=> stage = IF sync THEN 2 ELSE 5
      /\ At("trigger") <=> stage = IF sync THEN 3 ELSE 2
      /\ At("match") <=> stage = IF sync THEN 4 ELSE 3
      /\ At("end") <=> Ending
      /\ Len(Stages) = IF sync THEN 6 ELSE 7
  BY Timetable DEF TickInv
<1>3. /\ \/ At("candle") /\ stage' = 0
         \/ (At("tick") \/ At("end") \/ At("trigger") \/ At("match")) /\ Advance
      /\ UNCHANGED <<rows, batch, round>>
  BY DEF DataEnd, StartTrigger, EndTrigger, TickEmitted, Failed
<1>4. /\ ~Reporting
      /\ stage' \in 0 .. IF sync THEN 6 ELSE 7
      /\ stage' \in {2, 3} => stage \in {2, 3}
      /\ stage' # IF sync THEN 6 ELSE 7
  <2>1. CASE sync
    BY <1>1, <1>2, <1>3, <2>1 DEF Advance, Reporting, Ending
  <2>2. CASE ~sync
    BY <1>1, <1>2, <1>3, <2>2 DEF Advance, Reporting, Ending
  <2>3. QED
    BY <2>1, <2>2
<1>5. ~Ending'
  BY <1>4 DEF Ending
<1>6. batch' = <<>> /\ round' = 0 /\ rows' = rows /\ rows <= rows'
  BY <1>1, <1>3, <1>4, NothingOut
<1>7. /\ Quiet
      /\ matching' = matching \/ matching' \subseteq OpenIds
  BY DEF DataEnd, StartTrigger, EndTrigger, TickEmitted, Trigger, Quiet, Undelivered,
         paperVars
<1>8. matching' \subseteq OpenIds
  BY <1>7 DEF TickInv, HistoryInv
<1>9. QED
  BY <1>1, <1>4, <1>5, <1>6, <1>7, <1>8, MovesOn

\* A step that tells the script the first update on its way.
LEMMA TellKeeps ==
  ASSUME TickInv, Undelivered # <<>>,
         Undelivered' = Tail(Undelivered),
         told' = [told EXCEPT ![Undelivered[1][1]] = Undelivered[1][2]],
         UNCHANGED <<orders, sync, stage, round, rows, born, filledAt, matching>>,
         batch' \in Seq(UpdateType)
  PROVE  TickTypeOK' /\ HistoryInv' /\ SeesInv'
<1> DEFINE u == Undelivered[1]
<1>1. /\ Undelivered \in Seq(UpdateType) /\ Len(orders) \in Nat
      /\ Ids = 1 .. Len(orders) /\ Ids' = Ids /\ OpenIds' = OpenIds
  BY UndeliveredTyped, BookTyped DEF TickInv, Ids, OpenIds
<1>2. Leads(Undelivered, told, Status, Len(orders))
  BY DEF TickInv, SeesInv
<1>3. 1 \in 1 .. Len(Undelivered) /\ u \in UpdateType
  BY <1>1
<1>4. u[1] \in Ids /\ u[2] \in Statuses
  BY <1>1, <1>2, <1>3 DEF Leads, UpdateType
<1> HIDE DEF u
<1>5. /\ told \in [Ids -> Statuses \cup {"none"}]
      /\ told' = [told EXCEPT ![u[1]] = u[2]]
  BY DEF TickInv, TickTypeOK, u
<1>6. /\ told' \in [Ids' -> Statuses \cup {"none"}]
      /\ told'[u[1]] = u[2] /\ \A k \in Ids : k # u[1] => told'[k] = told[k]
  BY <1>1, <1>4, <1>5
<1>7. TickTypeOK'
  BY <1>1, <1>6 DEF TickInv, TickTypeOK
<1>8. HistoryInv'
  BY <1>1 DEF TickInv, HistoryInv, NoLookAhead
<1>9. SeesInv'
  <2>1. Leads(Tail(Undelivered), told', Status, Len(orders))
    BY <1>1, <1>2, <1>6, LeadsTold DEF u
  <2>2. Status' = Status
    BY <1>1 DEF Status
  <2>3. QED
    BY <2>1, <2>2 DEF SeesInv
<1>10. QED
  BY <1>7, <1>8, <1>9

LEMMA TakeKeepsTick ==
  ASSUME TickInv, TakeUpdates, sync' = sync
  PROVE  TickTypeOK' /\ HistoryInv' /\ SeesInv' /\ TradeInv'
<1>1. /\ sync \in BOOLEAN /\ rows \in Nat /\ stage \in 0 .. IF sync THEN 6 ELSE 7
      /\ orderUpdates \in Seq(UpdateType)
  BY BookTyped DEF TickInv, TickTypeOK
<1>2. Reporting /\ Len(Stages) = IF sync THEN 6 ELSE 7
  BY Timetable DEF TakeUpdates, TickInv
<1>3. /\ batch = <<>> /\ batch' = orderUpdates /\ orderUpdates' = <<>>
      /\ UNCHANGED <<orders, rows, born, filledAt, matching>>
  BY DEF TakeUpdates, CheckOrdersUpdates
<1>4. Undelivered = orderUpdates
  BY <1>1, <1>3, ConcatEmptySeq DEF Undelivered
<1>5. CASE orderUpdates = <<>>
  <2>1. Advance /\ round' = 0 /\ told' = told
    BY <1>5 DEF TakeUpdates
  <2>2. stage' = stage + 1 /\ stage' \in 0 .. (IF sync THEN 6 ELSE 7) /\ stage' \notin {2, 3}
    <3>1. CASE sync
      BY <1>1, <1>2, <2>1, <3>1 DEF Advance, Reporting
    <3>2. CASE ~sync
      BY <1>1, <1>2, <2>1, <3>2 DEF Advance, Reporting
    <3>3. QED
      BY <3>1, <3>2
  <2>3. Quiet
    BY <1>3, <1>5, <2>1 DEF Quiet, Undelivered
  <2>4. matching' \subseteq OpenIds
    BY <1>3 DEF TickInv, HistoryInv
  <2>5. /\ told' \in [Ids' -> Statuses \cup {"none"}]
        /\ born' \in [Ids' -> Nat]
        /\ filledAt' \in [Ids' -> Nat \X Nat]
        /\ HistoryInv'
        /\ SeesInv'
    BY <1>1, <1>3, <2>2, <2>3, <2>4, QuietKeeps
  <2>6. /\ sync' \in BOOLEAN /\ batch' \in Seq(UpdateType) /\ rows' \in Nat
        /\ round' \in 0 .. IF sync' THEN 2 ELSE 0
    BY <1>1, <1>3, <2>1
  <2>7. TickTypeOK'
    BY <2>2, <2>5, <2>6 DEF TickTypeOK
  <2>8. TradeInv'
    BY <1>3, <1>5, <2>1 DEF TradeInv
  <2>9. QED
    BY <2>5, <2>7, <2>8
<1>6. CASE orderUpdates # <<>>
  <2>1. /\ UNCHANGED <<stage, round>>
        /\ told' = [told EXCEPT ![Head(orderUpdates)[1]] = Head(orderUpdates)[2]]
    BY <1>6 DEF TakeUpdates
  <2>2. Undelivered' = Tail(Undelivered)
    <3>1. Tail(orderUpdates) \in Seq(UpdateType)
      BY <1>1, <1>6, HeadTailProperties
    <3>2. Undelivered' = Tail(orderUpdates) \o <<>>
      BY <1>3, <1>6 DEF Undelivered
    <3>3. QED
      BY <1>4, <3>1, <3>2, ConcatEmptySeq
  <2>3. Head(orderUpdates) = Undelivered[1]
    BY <1>1, <1>4, <1>6
  <2>4. TickTypeOK' /\ HistoryInv' /\ SeesInv'
    BY <1>1, <1>3, <1>4, <1>6, <2>1, <2>2, <2>3, TellKeeps
  <2>5. /\ Reporting' <=> Reporting
        /\ Ids' = Ids
        /\ \A k \in Ids : Early(k)' <=> Early(k)
        /\ Len(orderUpdates') = 0
    BY <1>3, <2>1 DEF Reporting, Early, Trading, Ids
  <2>6. round # 0 => \A k \in Ids : Early(k) =>
                       \A n \in 1 .. Len(orderUpdates) : orderUpdates[n][1] # k
    BY <1>2 DEF TickInv, TradeInv
  <2>7. TradeInv'
    BY <1>2, <1>3, <2>1, <2>5, <2>6 DEF TradeInv
  <2>8. QED
    BY <2>4, <2>7
<1>7. QED
  BY <1>5, <1>6

LEMMA ReturnKeepsTick ==
  ASSUME TickInv, UpdateEmitted, sync' = sync
  PROVE  TickTypeOK' /\ HistoryInv' /\ SeesInv' /\ TradeInv'
<1>1. /\ sync \in BOOLEAN /\ rows \in Nat /\ stage \in 0 .. IF sync THEN 6 ELSE 7
      /\ round \in 0 .. IF sync THEN 2 ELSE 0
      /\ orderUpdates \in Seq(UpdateType) /\ batch \in Seq(UpdateType)
  BY BookTyped DEF TickInv, TickTypeOK
<1>2. /\ Reporting /\ Len(Stages) = IF sync THEN 6 ELSE 7
      /\ MaxRounds = IF sync THEN 3 ELSE 1
  BY Timetable DEF UpdateEmitted, TickInv
<1>3. /\ batch # <<>> /\ batch' = Tail(batch)
      /\ UNCHANGED <<orders, orderUpdates, rows, born, filledAt, matching>>
  BY DEF UpdateEmitted, paperVars
<1>4. /\ Tail(batch) \in Seq(UpdateType)
      /\ Len(Tail(batch)) = Len(batch) - 1 /\ Len(batch) \in Nat
      /\ \A i \in 1 .. Len(Tail(batch)) : Tail(batch)[i] = batch[i + 1]
  BY <1>1, <1>3, HeadTailProperties
<1>5. /\ Tail(batch) # <<>> => /\ Tail(Tail(batch)) \o orderUpdates = Tail(Undelivered)
                               /\ Undelivered # <<>> /\ Undelivered[1] = Head(Tail(batch))
      /\ Tail(batch) = <<>> => Undelivered = orderUpdates
  BY <1>1, <1>3, OnTheirWay DEF Undelivered
<1>6. \A k \in Ids : Early(k) =>
        \A n \in 1 .. Len(orderUpdates) : orderUpdates[n][1] # k
  BY <1>2, <1>3 DEF TickInv, TradeInv
<1>7. CASE Tail(batch) # <<>>
  <2>1. /\ UNCHANGED <<stage, round>>
        /\ told' = [told EXCEPT ![Head(Tail(batch))[1]] = Head(Tail(batch))[2]]
    BY <1>3, <1>7 DEF UpdateEmitted
  <2>2. Undelivered' = Tail(Undelivered)
    BY <1>3, <1>5, <1>7 DEF Undelivered
  <2>3. TickTypeOK' /\ HistoryInv' /\ SeesInv'
    BY <1>3, <1>4, <1>5, <1>7, <2>1, <2>2, TellKeeps
  <2>4. /\ Reporting' <=> Reporting
        /\ Ids' = Ids
        /\ \A k \in Ids : Early(k)' <=> Early(k)
    BY <1>3, <2>1 DEF Reporting, Early, Trading, Ids
  <2>5. round # 0 => \A k \in Ids : Early(k) =>
                       \A n \in 1 .. Len(Tail(batch)) : Tail(batch)[n][1] # k
    <3>1. \A n \in 1 .. Len(Tail(batch)) : n + 1 \in 1 .. Len(batch)
      BY <1>4
    <3>2. QED
      BY <1>4, <3>1 DEF TickInv, TradeInv
  <2>6. TradeInv'
    BY <1>2, <1>3, <1>6, <2>1, <2>4, <2>5 DEF TradeInv
  <2>7. QED
    BY <2>3, <2>6
<1>8. CASE Tail(batch) = <<>>
  <2>1. told' = told /\ batch' = <<>>
    BY <1>3, <1>8 DEF UpdateEmitted
  <2>2. \/ round + 1 = MaxRounds /\ Advance /\ round' = 0
        \/ round + 1 # MaxRounds /\ round' = round + 1 /\ stage' = stage
    <3>1. ~(sync /\ round > 2)
      BY <1>1
    <3>2. QED
      BY <1>3, <1>8, <3>1 DEF UpdateEmitted
  <2>3. /\ stage' \in 0 .. IF sync THEN 6 ELSE 7
        /\ stage' \notin {2, 3}
        /\ round' \in 0 .. IF sync THEN 2 ELSE 0
        /\ round' # 0 => stage' = stage
        /\ stage <= stage'
        /\ stage' = (IF sync THEN 6 ELSE 7) => stage' = stage + 1
    <3>1. CASE sync
      <4>1. /\ stage = 5 /\ round \in 0 .. 2 /\ Len(Stages) = 6 /\ MaxRounds = 3
        BY <1>1, <1>2, <3>1 DEF Reporting
      <4>2. \/ stage' = 6 /\ round' = 0
            \/ stage' = 5 /\ round' \in 0 .. 2
        BY <2>2, <4>1 DEF Advance
      <4>3. QED
        BY <3>1, <4>1, <4>2
    <3>2. CASE ~sync
      <4>1. /\ stage \in {4, 6} /\ round = 0 /\ Len(Stages) = 7 /\ MaxRounds = 1
        BY <1>1, <1>2, <3>2 DEF Reporting
      <4>2. stage' = stage + 1 /\ round' = 0
        BY <2>2, <4>1 DEF Advance
      <4>3. QED
        BY <3>2, <4>1, <4>2
    <3>3. QED
      BY <3>1, <3>2
  <2>4. Quiet
    <3>1. Undelivered' = <<>> \o orderUpdates
      BY <1>3, <2>1 DEF Undelivered
    <3>2. Undelivered' = Undelivered
      BY <1>1, <1>5, <1>8, <3>1, ConcatEmptySeq
    <3>3. QED
      BY <1>3, <2>1, <3>2 DEF Quiet
  <2>5. matching' \subseteq OpenIds
    BY <1>3 DEF TickInv, HistoryInv
  <2>6. /\ told' \in [Ids' -> Statuses \cup {"none"}]
        /\ born' \in [Ids' -> Nat]
        /\ filledAt' \in [Ids' -> Nat \X Nat]
        /\ HistoryInv'
        /\ SeesInv'
    <3>1. /\ rows' \in Nat /\ rows <= rows'
          /\ stage' \in {2, 3} /\ rows' = rows => stage \in {2, 3}
      BY <1>1, <1>3, <2>3
    <3>2. QED
      BY <2>4, <2>5, <3>1, QuietKeeps
  <2>7. sync' \in BOOLEAN /\ batch' \in Seq(UpdateType) /\ rows' \in Nat
    BY <1>1, <1>3, <1>4
  <2>8. TickTypeOK'
    BY <2>3, <2>6, <2>7 DEF TickTypeOK
  <2>9. TradeInv'
    <3>1. batch' # <<>> \/ round' # 0 => Reporting'
      BY <1>2, <2>1, <2>3 DEF Reporting
    <3>2. ASSUME NEW k \in Ids, Early(k)' PROVE Early(k)
      <4>1. filledAt[k][1] = rows /\ filledAt[k][2] \in Trading /\ filledAt[k][2] < stage'
        BY <1>3, <3>2 DEF Early, Trading
      <4>2. filledAt[k][2] < stage
        <5>1. CASE sync
          <6>1. stage = 5 /\ filledAt[k][2] \in {2, 4}
            BY <1>2, <4>1, <5>1 DEF Trading, Reporting
          <6>2. QED
            BY <6>1
        <5>2. CASE ~sync /\ stage = 6
          <6>1. filledAt[k][2] \in {3, 5}
            BY <4>1, <5>2 DEF Trading
          <6>2. QED
            BY <5>2, <6>1
        <5>3. CASE ~sync /\ stage = 4
          <6>1. stage' = 4 \/ stage' = 5
            BY <1>1, <1>2, <2>2, <5>3 DEF Advance
          <6>2. QED
            BY <4>1, <5>3, <6>1 DEF Trading
        <5>4. QED
          BY <1>2, <5>1, <5>2, <5>3 DEF Reporting
      <4>3. QED
        BY <4>1, <4>2 DEF Early
    <3>3. Ids' = Ids /\ Len(batch') = 0 /\ orderUpdates' = orderUpdates
      BY <1>3, <2>1 DEF Ids
    <3>4. QED
      BY <1>6, <3>1, <3>2, <3>3 DEF TradeInv
  <2>10. QED
    BY <2>6, <2>8, <2>9
<1>9. QED
  BY <1>7, <1>8

-----------------------------------------------------------------------------
(* The theorems.                                                           *)

LEMMA TickStart == TickInit => TickInv
<1> SUFFICES ASSUME TickInit PROVE TickInv
  OBVIOUS
<1>1. PaperInv
  BY PaperInit DEF TickInit
<1>2. /\ orders = <<>> /\ Len(orders) = 0 /\ orderUpdates = <<>> /\ matching = {}
      /\ batch = <<>> /\ told = <<>> /\ born = <<>> /\ filledAt = <<>>
      /\ stage = 1 /\ round = 0 /\ rows = 0 /\ sync \in BOOLEAN
  BY DEF TickInit, Init
<1>3. Ids = {}
  BY <1>2 DEF Ids
<1>4. TickTypeOK
  <2>1. /\ told \in [Ids -> Statuses \cup {"none"}] /\ born \in [Ids -> Nat]
        /\ filledAt \in [Ids -> Nat \X Nat]
    BY <1>2, <1>3
  <2>2. batch \in Seq(UpdateType)
    BY <1>2
  <2>3. stage \in 0 .. IF sync THEN 6 ELSE 7
    BY <1>2
  <2>4. round \in 0 .. IF sync THEN 2 ELSE 0
    BY <1>2
  <2>5. rows \in Nat
    BY <1>2
  <2>6. QED
    BY <1>2, <2>1, <2>2, <2>3, <2>4, <2>5 DEF TickTypeOK
<1>5. HistoryInv
  BY <1>2, <1>3 DEF HistoryInv, NoLookAhead
<1>6. SeesInv
  <2>1. Undelivered = <<>>
    BY <1>2, <1>1, BookTyped, ConcatEmptySeq DEF Undelivered
  <2>2. QED
    BY <1>2, <2>1 DEF SeesInv, Leads
<1>7. TradeInv
  BY <1>2, <1>3 DEF TradeInv
<1>8. QED
  BY <1>1, <1>4, <1>5, <1>6, <1>7 DEF TickInv

LEMMA TickStep == TickInv /\ [TickNext]_vars => TickInv'
<1> SUFFICES ASSUME TickInv, [TickNext]_vars PROVE TickInv'
  OBVIOUS
<1> DEFINE Kept == TickTypeOK' /\ HistoryInv' /\ SeesInv' /\ TradeInv'
<1>1. PaperInv'
  <2>1. [Next]_paperVars
    BY ExchangeStep DEF vars
  <2>2. QED
    BY <2>1, PaperStep DEF TickInv
<1>2. ASSUME NEW k \in Candles, NewRow(k), sync' = sync PROVE Kept
  BY <1>2, RowKeepsTick
<1>3. CASE (DataEnd \/ StartTrigger \/ EndTrigger \/ TickEmitted) /\ sync' = sync
  <2>1. Kept
    BY <1>3, StageKeepsTick
  <2>2. QED
    BY <1>1, <2>1 DEF TickInv
<1>4. CASE Match /\ isHedgeMode' = isHedgeMode /\ sync' = sync
  <2>1. Kept
    BY <1>4, MatchKeepsTick
  <2>2. QED
    BY <1>1, <2>1 DEF TickInv
<1>5. ASSUME NEW r \in Requests[isHedgeMode], ScriptCreates(r),
             isHedgeMode' = isHedgeMode, sync' = sync
      PROVE  Kept
  BY <1>5, CreateKeepsTick
<1>6. ASSUME NEW id \in Ids, NEW price \in Prices, NEW amount \in EditAmounts,
             ScriptEdits(id, price, amount), sync' = sync
      PROVE  Kept
  BY <1>6, EditKeepsTick
<1>7. ASSUME NEW id \in Ids, ScriptCancels(id), sync' = sync PROVE Kept
  BY <1>7, CancelKeepsTick
<1>8. CASE TakeUpdates /\ sync' = sync
  <2>1. Kept
    BY <1>8, TakeKeepsTick
  <2>2. QED
    BY <1>1, <2>1 DEF TickInv
<1>9. CASE UpdateEmitted /\ sync' = sync
  <2>1. Kept
    BY <1>9, ReturnKeepsTick
  <2>2. QED
    BY <1>1, <2>1 DEF TickInv
<1>10. CASE UNCHANGED vars
  <2>1. UNCHANGED <<orders, orderUpdates, matching, sync, stage, round, batch, rows, told,
                    born, filledAt>>
    BY <1>10 DEF vars, paperVars, tickVars
  <2>2. Ids' = Ids /\ OpenIds' = OpenIds /\ Undelivered' = Undelivered /\ Status' = Status
    BY <2>1 DEF Ids, OpenIds, Undelivered, Status
  <2>3. TickTypeOK' /\ SeesInv'
    BY <2>1, <2>2 DEF TickInv, TickTypeOK, SeesInv
  <2>4. HistoryInv'
    BY <2>1, <2>2 DEF TickInv, HistoryInv, NoLookAhead
  <2>5. TradeInv'
    BY <2>1, <2>2 DEF TickInv, TradeInv, Reporting, Ending, Early, Trading
  <2>6. QED
    BY <1>1, <2>3, <2>4, <2>5 DEF TickInv
<1>11. ASSUME Kept PROVE TickInv'
  BY <1>1, <1>11 DEF TickInv
<1> HIDE DEF Kept
<1>12. QED
  BY <1>2, <1>3, <1>4, <1>5, <1>6, <1>7, <1>8, <1>9, <1>10, <1>11 DEF TickNext

\* The invariant holds of every behaviour of the tick.
THEOREM TickInvCorrect == TickSpec => []TickInv
BY TickStart, TickStep, PTL DEF TickSpec

\* The exchange inside the tester is the exchange of PaperExchange: what is proved of
\* that one holds of the tick, both engines and every script included.
THEOREM TickRunsExchange == TickSpec => Spec
<1>1. TickInit => Init
  BY DEF TickInit
<1>2. [TickNext]_vars => [Next]_paperVars
  BY ExchangeStep DEF vars
<1>3. QED
  BY <1>1, <1>2, PTL DEF TickSpec, Spec

\* In the asynchronous tester an order that waits in the book is executed by a candle
\* later than the last one taken when it was made, wherever in the tick that was.
THEOREM NoLookAheadCorrect == TickSpec => []NoLookAhead
<1>1. TickInv => NoLookAhead
  BY DEF TickInv, HistoryInv
<1>2. QED
  BY <1>1, TickInvCorrect, PTL

\* What the script was told of an order and the updates on their way lead to its real
\* status, and nothing follows a final one; and an order that the matching executes,
\* or runOnTick at the market before its first await, is reported before
\* runTickEnded of that candle.
THEOREM ScriptKnowsCorrect == TickSpec => []ScriptKnowsItsOrders
<1>1. TickInv => ScriptSeesBook
  <2> SUFFICES ASSUME TickInv, NEW id \in Ids
               PROVE  LET about == {n \in DOMAIN Undelivered : Undelivered[n][1] = id}
                      IN /\ IF about = {} THEN told[id] = orders[id].status
                            ELSE told[id] \notin Done
                         /\ \A n \in about :
                              IF \A m \in about : m <= n
                              THEN Undelivered[n][2] = orders[id].status
                              ELSE Undelivered[n][2] \notin Done
    BY DEF ScriptSeesBook
  <2> DEFINE about == {n \in DOMAIN Undelivered : Undelivered[n][1] = id}
  <2>1. /\ Undelivered \in Seq(UpdateType) /\ Len(Undelivered) \in Nat
        /\ DOMAIN Undelivered = 1 .. Len(Undelivered)
        /\ Ids = 1 .. Len(orders)
    BY UndeliveredTyped DEF TickInv, Ids
  <2>2. Leads(Undelivered, told, Status, Len(orders)) /\ Status[id] = orders[id].status
    BY DEF TickInv, SeesInv, Status
  <2>3. CASE about = {}
    <3>1. \A n \in 1 .. Len(Undelivered) : Undelivered[n][1] # id
      BY <2>1, <2>3
    <3>2. told[id] = orders[id].status
      BY <2>1, <2>2, <3>1 DEF Leads
    <3>3. QED
      BY <2>3, <3>2
  <2>4. ASSUME NEW n \in about, \A m \in about : m <= n
        PROVE  Undelivered[n][2] = orders[id].status
    <3>1. n \in 1 .. Len(Undelivered) /\ Undelivered[n][1] = id
      BY <2>1
    <3>2. \A j \in 1 .. Len(Undelivered) : n < j => Undelivered[j][1] # Undelivered[n][1]
      BY <2>1, <2>4, <3>1
    <3>3. QED
      BY <2>2, <3>1, <3>2 DEF Leads
  <2>5. ASSUME NEW n \in about, NEW m \in about, ~(m <= n)
        PROVE  Undelivered[n][2] \notin Done
    <3>1. /\ n \in 1 .. Len(Undelivered) /\ m \in 1 .. Len(Undelivered) /\ n < m
          /\ Undelivered[n][1] = id /\ Undelivered[m][1] = id
      BY <2>1, <2>5
    <3>2. QED
      BY <2>2, <3>1 DEF Leads
  <2>6. about # {} => told[id] \notin Done
    BY <2>1, <2>2 DEF Leads
  <2> HIDE DEF about
  <2>7. \A n \in about : IF \A m \in about : m <= n
                         THEN Undelivered[n][2] = orders[id].status
                         ELSE Undelivered[n][2] \notin Done
    BY <2>4, <2>5
  <2>8. IF about = {} THEN told[id] = orders[id].status ELSE told[id] \notin Done
    BY <2>3, <2>6 DEF about
  <2>9. QED
    BY <2>7, <2>8 DEF about
<1>2. TickInv => TradeReportedInTick
  <2> SUFFICES ASSUME TickInv, At("end"), NEW id \in Ids,
                      filledAt[id][1] = rows, filledAt[id][2] # 0, filledAt[id][2] < stage,
                      Stages[filledAt[id][2]] \in {"tick", "match"}
               PROVE  told[id] = orders[id].status
    BY DEF TradeReportedInTick
  <2>1. /\ Ending /\ ~Reporting
    BY Timetable DEF TickInv, TickTypeOK, Ending, Reporting
  <2>2. batch = <<>> /\ orderUpdates \in Seq(UpdateType)
    BY <2>1, NothingOut, BookTyped DEF TickInv
  <2>3. Undelivered = orderUpdates
    BY <2>2, ConcatEmptySeq DEF Undelivered
  <2>4. filledAt[id][2] \in Trading
    <3> DEFINE s == filledAt[id][2]
    <3>1. s \in Nat /\ s # 0 /\ s < stage
      BY DEF TickInv, TickTypeOK
    <3>2. Stages[s] \in {"tick", "match"}
      OBVIOUS
    <3> HIDE DEF s
    <3>3. sync \in BOOLEAN
      BY DEF TickInv, TickTypeOK
    <3>4. CASE sync
      <4>1. stage = 6
        BY <2>1, <3>4 DEF Ending
      <4>2. s \in {1, 2, 3, 4, 5}
        BY <3>1, <4>1
      <4>3. Stages = <<"candle", "tick", "trigger", "match", "updates", "end">>
        BY <3>4 DEF Stages
      <4>4. QED
        BY <3>2, <3>4, <4>2, <4>3 DEF Trading, s
    <3>5. CASE ~sync
      <4>1. stage = 7
        BY <2>1, <3>5 DEF Ending
      <4>2. s \in {1, 2, 3, 4, 5, 6}
        BY <3>1, <4>1
      <4>3. Stages = <<"candle", "trigger", "match", "updates", "tick", "updates", "end">>
        BY <3>5 DEF Stages
      <4>4. QED
        BY <3>2, <3>5, <4>2, <4>3 DEF Trading, s
    <3>6. QED
      BY <3>3, <3>4, <3>5
  <2>5. Early(id)
    BY <2>4 DEF Early
  <2>6. \A n \in 1 .. Len(Undelivered) : Undelivered[n][1] # id
    BY <2>1, <2>3, <2>5 DEF TickInv, TradeInv
  <2>7. Leads(Undelivered, told, Status, Len(orders)) /\ Status[id] = orders[id].status
        /\ id \in 1 .. Len(orders)
    BY DEF TickInv, SeesInv, Status, Ids
  <2>8. QED
    BY <2>6, <2>7 DEF Leads
<1>3. TickInv => ScriptKnowsItsOrders
  BY <1>1, <1>2 DEF ScriptKnowsItsOrders
<1>4. QED
  BY <1>3, TickInvCorrect, PTL
=============================================================================
