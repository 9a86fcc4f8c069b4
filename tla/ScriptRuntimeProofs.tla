------------------------ MODULE ScriptRuntimeProofs ------------------------
(***************************************************************************)
(* Proofs about the runtimes: their service and registry (ScriptRuntime),  *)
(* and the paper trading on live prices of those that trade on a mock      *)
(* exchange (MockExchange), for every set of runtimes, whatever they       *)
(* trade, every limit and every choice of the environment's events.        *)
(***************************************************************************)
EXTENDS ScriptRuntime, MockExchange, InductionProofs, FiniteSetTheorems, TLAPS

-----------------------------------------------------------------------------
(* Paper trading on live prices.                                           *)

Phases == {"off", "configured", "loading", "running"}
Symbols == {Trades[t].symbol : t \in Traders}
OrderStatuses == {"open", "closed", "canceled", "away"}
CartType == [isReady : BOOLEAN, orderUpdates : Seq(Nat \X OrderStatuses)]
PlacedType == [who : Traders, sdk : SdkKeys, symbol : Symbols,
               place : {"paper", "refused", "account"}, status : OrderStatuses]
WatcherType == [sdk : SdkKeys, polls : BOOLEAN]

\* What heard holds is said by HeardTrue, below.
MockTypeOK ==
  /\ phase \in [Traders -> Phases]
  /\ DOMAIN sdks \subseteq SdkKeys /\ sdks \in [DOMAIN sdks -> BOOLEAN]
  /\ carts = [k \in SdkKeys |-> carts[k]]
  /\ \A k \in SdkKeys :
       DOMAIN carts[k] \subseteq Symbols /\ carts[k] \in [DOMAIN carts[k] -> CartType]
  /\ placed \in Seq(PlacedType)
  /\ watchers \in [DOMAIN watchers -> WatcherType]
  /\ tickers \in [DOMAIN tickers -> SdkKeys]
  /\ \A f \in DOMAIN tickers : f[2] \in Symbols

\* Only an exchange without an API key is made as a mock.
MocksKeyless == \A k \in DOMAIN sdks : sdks[k] => k[2] = NoKey

\* A runtime that may call its exchange has one, and it stays what it was made.
SdksMade == \A t \in Traders : phase[t] \in {"loading", "running"} => OwnSdk(t) \in DOMAIN sdks

\* From register on, not only when it runs, a mock of swaps has its cart.
CartsConfigured ==
  \A t \in Traders : IsMock(Trades[t].name) /\ Trades[t].market = "swap" /\ phase[t] # "off" =>
    /\ Trades[t].symbol \in DOMAIN carts[OwnSdk(t)]
    /\ carts[OwnSdk(t)][Trades[t].symbol].isReady

MockInv == MockTypeOK /\ MocksKeyless /\ SdksMade /\ CartsConfigured /\ MoneyStaysApart

-----------------------------------------------------------------------------
(* Operators.                                                              *)

USE TradesTyped

\* SetToSeq of a finite set is a sequence of its elements.
LEMMA SetToSeqIsSeq ==
  ASSUME NEW S, IsFiniteSet(S) PROVE SetToSeq(S) \in Seq(S)
<1>1. Cardinality(S) \in Nat /\ ExistsBijection(1..Cardinality(S), S)
  BY FS_CardinalityType
<1>2. \E f \in [1..Cardinality(S) -> S] : IsInjective(f)
  BY <1>1 DEF ExistsBijection, Bijection, Injection, IsInjective
<1>3. SetToSeq(S) \in [1..Cardinality(S) -> S]
  BY <1>2 DEF SetToSeq
<1>4. QED
  BY <1>1, <1>3

\* The exchanges a runtime looks for have keys of the map, and a mock's no API key.
LEMMA KeysOfRuntime ==
  ASSUME NEW t \in Traders
  PROVE  /\ OwnSdk(t) \in SdkKeys /\ OwnSdk(t)[2] = Trades[t].key
         /\ TickerSdk(t) \in SdkKeys /\ TickerSdk(t)[2] = NoKey
         /\ RegisteredSdk(t) \in SdkKeys /\ RegisteredSdk(t)[2] = Trades[t].key
         /\ Trades[t].market = "swap" => RegisteredSdk(t) = OwnSdk(t)
         /\ Trades[t].symbol \in Symbols
         /\ IsMock(Trades[t].name) => Trades[t].key = NoKey
BY DEF OwnSdk, TickerSdk, RegisteredSdk, SdkKey, SdkKeys, MarketTypes, Symbols, NoKey

\* getSDK makes an exchange under the name it is given and leaves the others.
LEMMA SdkGot ==
  ASSUME MockTypeOK, MocksKeyless, NEW key \in SdkKeys, NEW name,
         IsMock(name) => key[2] = NoKey, sdks' = With(sdks, key, name)
  PROVE  /\ DOMAIN sdks' \subseteq SdkKeys /\ sdks' \in [DOMAIN sdks' -> BOOLEAN]
         /\ DOMAIN sdks \subseteq DOMAIN sdks' /\ key \in DOMAIN sdks'
         /\ MocksKeyless'
BY DEF MockTypeOK, MocksKeyless, With, IsMock

\* selectCart's cart, old or new, and what a cart is told.
LEMMA CartTyped ==
  ASSUME MockTypeOK, NEW k \in SdkKeys, NEW s \in Symbols
  PROVE  Cart(k, s) \in CartType
<1>1. NewCart \in CartType
  BY DEF NewCart, CartType
<1>2. QED
  BY <1>1 DEF MockTypeOK, Cart

LEMMA ToldTyped ==
  ASSUME NEW cart \in CartType, NEW updates \in Seq(Nat \X OrderStatuses)
  PROVE  Told(cart, updates) \in CartType /\ Told(cart, updates).isReady = cart.isReady
<1> DEFINE queue == cart.orderUpdates \o updates
<1>1. queue \in Seq(Nat \X OrderStatuses)
  BY DEF CartType
<1>2. Told(cart, updates) = [cart EXCEPT !.orderUpdates = queue]
  BY DEF Told
<1> HIDE DEF queue
<1>3. QED
  BY <1>1, <1>2 DEF CartType

\* No cart is lost, and none loses its configuration.
CartsKept ==
  \A k \in SdkKeys : \A s \in DOMAIN carts[k] :
    s \in DOMAIN carts'[k] /\ (carts[k][s].isReady => carts'[k][s].isReady)

CartsTyped ==
  /\ carts = [k \in SdkKeys |-> carts[k]]
  /\ \A k \in SdkKeys :
       DOMAIN carts[k] \subseteq Symbols /\ carts[k] \in [DOMAIN carts[k] -> CartType]

LEMMA CartChanged ==
  ASSUME CartsTyped, NEW k \in SdkKeys, NEW s \in Symbols, NEW cart \in CartType,
         Cart(k, s).isReady => cart.isReady,
         carts' = WithCart(k, s, cart)
  PROVE  CartsTyped' /\ CartsKept /\ s \in DOMAIN carts'[k] /\ carts'[k][s] = cart
<1>1. /\ carts'[k] = [q \in DOMAIN carts[k] \cup {s} |-> IF q = s THEN cart ELSE carts[k][q]]
      /\ \A j \in SdkKeys : j # k => carts'[j] = carts[j]
      /\ carts' = [j \in SdkKeys |-> carts'[j]]
  BY DEF WithCart, CartsTyped
<1>2. CartsTyped'
  BY <1>1 DEF CartsTyped
<1>3. CartsKept
  BY <1>1 DEF CartsKept, CartsTyped, Cart
<1>4. QED
  BY <1>1, <1>2, <1>3

LEMMA CartsEmptied ==
  ASSUME CartsTyped, NEW k \in SdkKeys, carts' = Emptied(k)
  PROVE  CartsTyped' /\ CartsKept
<1>1. /\ carts'[k] = [q \in DOMAIN carts[k] |-> [carts[k][q] EXCEPT !.orderUpdates = <<>>]]
      /\ \A j \in SdkKeys : j # k => carts'[j] = carts[j]
      /\ carts' = [j \in SdkKeys |-> carts'[j]]
  BY DEF Emptied, CartsTyped
<1>2. \A q \in DOMAIN carts[k] : /\ carts'[k][q] \in CartType
                               /\ carts'[k][q].isReady = carts[k][q].isReady
  <2> SUFFICES ASSUME NEW q \in DOMAIN carts[k]
               PROVE  /\ carts'[k][q] \in CartType
                      /\ carts'[k][q].isReady = carts[k][q].isReady
    OBVIOUS
  <2>1. carts[k][q] \in CartType
    BY DEF CartsTyped
  <2> DEFINE none == <<>>
  <2>2. carts'[k][q] = [carts[k][q] EXCEPT !.orderUpdates = none]
    BY <1>1
  <2>3. none \in Seq(Nat \X OrderStatuses)
    OBVIOUS
  <2> HIDE DEF none
  <2>4. QED
    BY <2>1, <2>2, <2>3 DEF CartType
<1>3. CartsTyped'
  BY <1>1, <1>2 DEF CartsTyped
<1>4. QED
  BY <1>1, <1>2, <1>3 DEF CartsKept, CartsTyped

\* A new order goes to the end of the list.
LEMMA OrdersTyped ==
  ASSUME MockTypeOK, NEW t \in Traders, NEW place \in {"paper", "refused", "account"},
         NEW status \in OrderStatuses, PlaceOrder(t, place, status)
  PROVE  /\ placed' \in Seq(PlacedType)
         /\ Len(placed) + 1 \in Nat /\ DOMAIN placed' = 1 .. Len(placed) + 1
         /\ \A id \in DOMAIN placed : placed'[id] = placed[id]
         /\ placed'[Len(placed) + 1].who = t /\ placed'[Len(placed) + 1].place = place
<1> DEFINE o == [who |-> t, sdk |-> OwnSdk(t), symbol |-> Trades[t].symbol,
                 place |-> place, status |-> status]
<1>1. o \in PlacedType /\ o.who = t /\ o.place = place
  BY KeysOfRuntime DEF PlacedType
<1>2. placed' = Append(placed, o) /\ placed \in Seq(PlacedType)
  BY DEF PlaceOrder, MockTypeOK
<1> HIDE DEF o
<1>3. QED
  BY <1>1, <1>2

-----------------------------------------------------------------------------
(* Steps.                                                                  *)

\* Carts that are kept, and phases that are, leave the configured ones so.
LEMMA ConfiguredStay ==
  ASSUME MockTypeOK, CartsConfigured, CartsKept, UNCHANGED phase
  PROVE  CartsConfigured'
BY KeysOfRuntime DEF CartsConfigured, CartsKept

\* Orders that stay where they are keep money apart.
LEMMA MoneyStays ==
  ASSUME MoneyStaysApart, DOMAIN placed' = DOMAIN placed,
         \A id \in DOMAIN placed : /\ placed'[id].who = placed[id].who
                                  /\ placed'[id].place = placed[id].place
  PROVE  MoneyStaysApart'
BY DEF MoneyStaysApart

LEMMA RegisterKeeps ==
  ASSUME MockInv, NEW t \in Traders, RegisterTrader(t) PROVE MockInv'
<1> DEFINE k == RegisteredSdk(t)
           s == Trades[t].symbol
           ready == [Cart(k, s) EXCEPT !.isReady = TRUE]
<1>1. /\ k \in SdkKeys /\ s \in Symbols
      /\ IsMock(Trades[t].name) => k[2] = NoKey
      /\ Trades[t].market = "swap" => k = OwnSdk(t)
  BY KeysOfRuntime
<1>2. /\ phase' = [phase EXCEPT ![t] = "configured"] /\ phase' \in [Traders -> Phases]
      /\ UNCHANGED <<placed, watchers, tickers>>
  BY DEF RegisterTrader, MockInv, MockTypeOK, Phases
<1>3. MoneyStaysApart'
  BY <1>2 DEF MockInv, MoneyStaysApart
<1>4. CartsTyped
  BY DEF MockInv, MockTypeOK, CartsTyped
<1>5. CASE IsMock(Trades[t].name)
  <2>1. Cart(k, s) \in CartType
    BY <1>1, CartTyped DEF MockInv
  <2>2. ready \in CartType /\ ready.isReady
    BY <2>1 DEF CartType
  <2>3. sdks' = With(sdks, k, Trades[t].name) /\ carts' = WithCart(k, s, ready)
    BY <1>5 DEF RegisterTrader
  <2> HIDE DEF k, s, ready
  <2>4. CartsTyped' /\ CartsKept /\ s \in DOMAIN carts'[k] /\ carts'[k][s] = ready
    BY <1>1, <1>4, <2>2, <2>3, CartChanged
  <2>5. /\ DOMAIN sdks' \subseteq SdkKeys /\ sdks' \in [DOMAIN sdks' -> BOOLEAN]
        /\ DOMAIN sdks \subseteq DOMAIN sdks' /\ MocksKeyless'
    BY <1>1, <2>3, SdkGot DEF MockInv
  <2>6. MockTypeOK'
    BY <1>2, <2>4, <2>5 DEF MockInv, MockTypeOK, CartsTyped
  <2>7. SdksMade'
    BY <1>2, <2>5 DEF MockInv, SdksMade, MockTypeOK
  <2>8. CartsConfigured'
    <3> SUFFICES ASSUME NEW u \in Traders, IsMock(Trades[u].name), Trades[u].market = "swap",
                        phase'[u] # "off"
                 PROVE  /\ Trades[u].symbol \in DOMAIN carts'[OwnSdk(u)]
                        /\ carts'[OwnSdk(u)][Trades[u].symbol].isReady
      BY DEF CartsConfigured
    <3>1. CASE u = t
      BY <1>1, <2>2, <2>4, <3>1 DEF k, s
    <3>2. CASE u # t
      <4>1. phase[u] # "off"
        BY <1>2, <3>2 DEF MockInv, MockTypeOK
      <4>2. OwnSdk(u) \in SdkKeys
        BY KeysOfRuntime
      <4>3. QED
        BY <2>4, <4>1, <4>2 DEF MockInv, CartsConfigured, CartsKept
    <3>3. QED
      BY <3>1, <3>2
  <2>9. QED
    BY <1>3, <2>5, <2>6, <2>7, <2>8 DEF MockInv
<1>6. CASE ~IsMock(Trades[t].name)
  <2>1. UNCHANGED <<sdks, carts>>
    BY <1>6 DEF RegisterTrader
  <2>2. MockTypeOK' /\ MocksKeyless'
    BY <1>2, <2>1 DEF MockInv, MockTypeOK, MocksKeyless
  <2>3. SdksMade' /\ CartsConfigured'
    BY <1>2, <1>6, <2>1 DEF MockInv, MockTypeOK, SdksMade, CartsConfigured
  <2>4. QED
    BY <1>3, <2>2, <2>3 DEF MockInv
<1>7. QED
  BY <1>5, <1>6

LEMMA UpdateArgsKeeps ==
  ASSUME MockInv, NEW t \in Traders, UpdateArgs(t) PROVE MockInv'
<1>1. /\ phase[t] = "configured" /\ phase' = [phase EXCEPT ![t] = "loading"]
      /\ sdks' = With(sdks, OwnSdk(t), Trades[t].name)
      /\ UNCHANGED <<carts, placed, watchers, tickers>>
  BY DEF UpdateArgs
<1>2. /\ DOMAIN sdks' \subseteq SdkKeys /\ sdks' \in [DOMAIN sdks' -> BOOLEAN]
      /\ DOMAIN sdks \subseteq DOMAIN sdks' /\ OwnSdk(t) \in DOMAIN sdks'
      /\ MocksKeyless'
  BY <1>1, SdkGot, KeysOfRuntime DEF MockInv
<1>3. MockTypeOK'
  BY <1>1, <1>2 DEF MockInv, MockTypeOK, Phases
<1>4. SdksMade'
  BY <1>1, <1>2 DEF MockInv, MockTypeOK, SdksMade
<1>5. CartsConfigured' /\ MoneyStaysApart'
  BY <1>1 DEF MockInv, MockTypeOK, CartsConfigured, MoneyStaysApart
<1>6. QED
  BY <1>2, <1>3, <1>4, <1>5 DEF MockInv

LEMMA SubscribeTraderKeeps ==
  ASSUME MockInv, NEW t \in Traders, SubscribeTrader(t) PROVE MockInv'
<1> DEFINE w == WatcherOf(t)
           f == TickerOf(t)
<1>1. /\ phase[t] = "loading" /\ phase' = [phase EXCEPT ![t] = "running"]
      /\ watchers' = [v \in DOMAIN watchers \cup {w} |->
                       IF v \in DOMAIN watchers THEN watchers[v]
                       ELSE [sdk |-> OwnSdk(t), polls |-> TRUE]]
      /\ UNCHANGED <<carts, placed>>
  BY DEF SubscribeTrader
<1>2. watchers' \in [DOMAIN watchers' -> WatcherType]
  BY <1>1, KeysOfRuntime DEF MockInv, MockTypeOK, WatcherType
<1>3. /\ DOMAIN sdks' \subseteq SdkKeys /\ sdks' \in [DOMAIN sdks' -> BOOLEAN]
      /\ DOMAIN sdks \subseteq DOMAIN sdks' /\ MocksKeyless'
      /\ tickers' \in [DOMAIN tickers' -> SdkKeys]
      /\ \A g \in DOMAIN tickers' : g[2] \in Symbols
  <2>1. CASE f \in DOMAIN tickers
    <3>1. UNCHANGED <<tickers, sdks>>
      BY <2>1 DEF SubscribeTrader
    <3>2. QED
      BY <3>1 DEF MockInv, MockTypeOK, MocksKeyless
  <2>2. CASE f \notin DOMAIN tickers
    <3>1. /\ tickers' = [g \in DOMAIN tickers \cup {f} |->
                          IF g \in DOMAIN tickers THEN tickers[g] ELSE TickerSdk(t)]
          /\ sdks' = With(sdks, TickerSdk(t), Trades[t].name)
      BY <2>2 DEF SubscribeTrader
    <3>2. /\ tickers' \in [DOMAIN tickers' -> SdkKeys]
          /\ \A g \in DOMAIN tickers' : g[2] \in Symbols
      BY <3>1, KeysOfRuntime DEF MockInv, MockTypeOK, TickerOf
    <3>3. QED
      BY <3>1, <3>2, SdkGot, KeysOfRuntime DEF MockInv
  <2>3. QED
    BY <2>1, <2>2
<1>4. MockTypeOK'
  BY <1>1, <1>2, <1>3 DEF MockInv, MockTypeOK, Phases
<1>5. SdksMade'
  BY <1>1, <1>3 DEF MockInv, MockTypeOK, SdksMade
<1>6. CartsConfigured' /\ MoneyStaysApart'
  BY <1>1 DEF MockInv, MockTypeOK, CartsConfigured, MoneyStaysApart
<1>7. QED
  BY <1>3, <1>4, <1>5, <1>6 DEF MockInv

LEMMA StopTraderKeeps ==
  ASSUME MockInv, NEW t \in Traders, StopTrader(t) PROVE MockInv'
BY DEF StopTrader, MockInv, MockTypeOK, Phases, MocksKeyless, SdksMade, CartsConfigured,
       MoneyStaysApart

\* The exchange of a running runtime is a mock only if the runtime has no key, and
\* one that is none refuses whoever has no key.
LEMMA CreateKeeps ==
  ASSUME MockInv, NEW t \in Traders, NEW isMarket \in BOOLEAN, CreatePaperOrder(t, isMarket)
  PROVE  MockInv'
<1> DEFINE k == OwnSdk(t)
           s == Trades[t].symbol
           cart == Cart(k, s)
           id == Len(placed) + 1
           filled == isMarket /\ cart.isReady
           updates == IF filled THEN <<<<id, "open">>, <<id, "closed">>>> ELSE <<<<id, "open">>>>
<1>1. /\ phase[t] = "running" /\ UNCHANGED <<phase, sdks, watchers, tickers>>
      /\ \/ /\ sdks[k]
            /\ PlaceOrder(t, "paper", IF filled THEN "closed" ELSE "open")
            /\ carts' = WithCart(k, s, Told(cart, updates))
         \/ /\ ~sdks[k]
            /\ PlaceOrder(t, IF k[2] = NoKey THEN "refused" ELSE "account", "away")
            /\ UNCHANGED carts
  BY DEF CreatePaperOrder
<1>2. k \in DOMAIN sdks /\ k \in SdkKeys /\ s \in Symbols /\ k[2] = Trades[t].key
  BY <1>1, KeysOfRuntime DEF MockInv, SdksMade
<1>3. id \in Nat /\ updates \in Seq(Nat \X OrderStatuses)
  <2>1. id \in Nat
    BY DEF MockInv, MockTypeOK
  <2> HIDE DEF id
  <2>2. <<id, "open">> \in Nat \X OrderStatuses /\ <<id, "closed">> \in Nat \X OrderStatuses
    BY <2>1 DEF OrderStatuses
  <2> DEFINE made == <<id, "open">>
             done == <<id, "closed">>
  <2>3. updates = IF filled THEN <<made, done>> ELSE <<made>>
    OBVIOUS
  <2> HIDE DEF made, done, updates, filled
  <2>4. <<made>> \in Seq(Nat \X OrderStatuses) /\ <<made, done>> \in Seq(Nat \X OrderStatuses)
    BY <2>2 DEF made, done
  <2>5. QED
    BY <2>1, <2>3, <2>4
<1>4. CartsTyped
  BY DEF MockInv, MockTypeOK, CartsTyped
<1>5. /\ CartsTyped' /\ CartsKept
      /\ \E place \in {"paper", "refused", "account"}, status \in OrderStatuses :
           /\ PlaceOrder(t, place, status)
           /\ IsMock(Trades[t].name) => place \in {"paper", "refused"}
           /\ Trades[t].key # NoKey => place = "account"
  <2>1. CASE sdks[k]
    <3>1. Trades[t].key = NoKey
      BY <1>2, <2>1 DEF MockInv, MocksKeyless
    <3>2. cart \in CartType
      BY <1>2, CartTyped DEF MockInv
    <3> HIDE DEF cart, updates
    <3>3. Told(cart, updates) \in CartType /\ Told(cart, updates).isReady = cart.isReady
      BY <1>3, <3>2, ToldTyped
    <3>4. CartsTyped' /\ CartsKept
      BY <1>1, <1>2, <1>4, <2>1, <3>3, CartChanged DEF cart
    <3>5. QED
      BY <1>1, <2>1, <3>1, <3>4 DEF OrderStatuses
  <2>2. CASE ~sdks[k]
    <3>1. CartsTyped' /\ CartsKept
      BY <1>1, <1>4, <2>2 DEF CartsTyped, CartsKept
    <3>2. IsMock(Trades[t].name) => k[2] = NoKey
      BY KeysOfRuntime
    <3>3. QED
      BY <1>1, <1>2, <2>2, <3>1, <3>2 DEF OrderStatuses
  <2>3. QED
    BY <2>1, <2>2
<1> HIDE DEF k, s, cart, updates
<1>6. PICK place \in {"paper", "refused", "account"}, status \in OrderStatuses :
        /\ PlaceOrder(t, place, status)
        /\ IsMock(Trades[t].name) => place \in {"paper", "refused"}
        /\ Trades[t].key # NoKey => place = "account"
  BY <1>5
<1>7. /\ placed' \in Seq(PlacedType) /\ DOMAIN placed' = 1 .. id
      /\ \A n \in DOMAIN placed : placed'[n] = placed[n]
      /\ placed'[id].who = t /\ placed'[id].place = place
  BY <1>6, OrdersTyped DEF MockInv
<1>8. MoneyStaysApart'
  <2>1. \A n \in DOMAIN placed' : n = id \/ n \in DOMAIN placed
    BY <1>3, <1>7 DEF MockInv, MockTypeOK
  <2>2. QED
    BY <1>6, <1>7, <2>1 DEF MockInv, MoneyStaysApart
<1>9. MockTypeOK'
  BY <1>1, <1>5, <1>7 DEF MockInv, MockTypeOK, CartsTyped
<1>10. CartsConfigured'
  BY <1>1, <1>5, ConfiguredStay DEF MockInv
<1>11. MocksKeyless' /\ SdksMade'
  BY <1>1 DEF MockInv, MocksKeyless, SdksMade
<1>12. QED
  BY <1>8, <1>9, <1>10, <1>11 DEF MockInv

LEMMA CancelKeeps ==
  ASSUME MockInv, NEW id \in DOMAIN placed, CancelPaperOrder(id) PROVE MockInv'
<1> DEFINE k == placed[id].sdk
           s == placed[id].symbol
           cart == Cart(k, s)
           updates == <<<<id, "canceled">>>>
<1>1. /\ placed' = [placed EXCEPT ![id].status = "canceled"]
      /\ carts' = WithCart(k, s, Told(cart, updates))
      /\ UNCHANGED <<phase, sdks, watchers, tickers>>
  BY DEF CancelPaperOrder
<1>2. placed[id] \in PlacedType /\ id \in Nat
  BY DEF MockInv, MockTypeOK
<1>3. k \in SdkKeys /\ s \in Symbols
  BY <1>2 DEF PlacedType
<1>4. updates \in Seq(Nat \X OrderStatuses)
  BY <1>2 DEF OrderStatuses
<1>5. cart \in CartType
  BY <1>3, CartTyped DEF MockInv
<1>6. [placed[id] EXCEPT !.status = "canceled"] \in PlacedType
  BY <1>2 DEF PlacedType, OrderStatuses
<1>7. /\ placed' \in Seq(PlacedType) /\ DOMAIN placed' = DOMAIN placed
      /\ \A n \in DOMAIN placed : /\ placed'[n].who = placed[n].who
                                 /\ placed'[n].place = placed[n].place
  BY <1>1, <1>2, <1>6 DEF MockInv, MockTypeOK, PlacedType
<1> HIDE DEF k, s, cart, updates
<1>8. Told(cart, updates) \in CartType /\ Told(cart, updates).isReady = cart.isReady
  BY <1>4, <1>5, ToldTyped
<1>9. CartsTyped' /\ CartsKept
  BY <1>1, <1>3, <1>8, CartChanged DEF MockInv, MockTypeOK, CartsTyped, cart
<1>10. MockTypeOK'
  BY <1>1, <1>7, <1>9 DEF MockInv, MockTypeOK, CartsTyped
<1>11. CartsConfigured' /\ MoneyStaysApart'
  BY <1>1, <1>7, <1>9, ConfiguredStay, MoneyStays DEF MockInv
<1>12. MocksKeyless' /\ SdksMade'
  BY <1>1 DEF MockInv, MocksKeyless, SdksMade
<1>13. QED
  BY <1>10, <1>11, <1>12 DEF MockInv

LEMMA TickerKeeps ==
  ASSUME MockInv, NEW f \in DOMAIN tickers, Ticker(f) PROVE MockInv'
<1> DEFINE k == tickers[f]
           s == f[2]
           cart == Cart(k, s)
           open == {id \in DOMAIN placed : Open(id) /\ placed[id].sdk = k /\ placed[id].symbol = s}
<1>1. k \in SdkKeys /\ s \in Symbols
  BY DEF MockInv, MockTypeOK
<1>2. PICK reached \in SUBSET open :
        LET filled == IF cart.isReady THEN reached ELSE {}
        IN /\ placed' = [id \in DOMAIN placed |->
                           IF id \in filled THEN [placed[id] EXCEPT !.status = "closed"]
                           ELSE placed[id]]
           /\ carts' = WithCart(k, s, Told(cart, [i \in 1 .. Len(SetToSeq(filled)) |->
                                                    <<SetToSeq(filled)[i], "closed">>]))
  BY DEF Ticker
<1> DEFINE filled == IF cart.isReady THEN reached ELSE {}
           ids == SetToSeq(filled)
           updates == [i \in 1 .. Len(ids) |-> <<ids[i], "closed">>]
<1>3. /\ placed' = [id \in DOMAIN placed |->
                     IF id \in filled THEN [placed[id] EXCEPT !.status = "closed"]
                     ELSE placed[id]]
      /\ carts' = WithCart(k, s, Told(cart, updates))
      /\ UNCHANGED <<phase, sdks, watchers, tickers>>
  BY <1>2 DEF Ticker
<1>4. filled \subseteq DOMAIN placed /\ filled \subseteq Nat
  BY DEF MockInv, MockTypeOK
<1>5. cart \in CartType
  BY <1>1, CartTyped DEF MockInv
<1> HIDE DEF cart, filled
<1>6. IsFiniteSet(filled)
  <2>1. Len(placed) \in Nat /\ filled \subseteq 1 .. Len(placed)
    BY <1>4 DEF MockInv, MockTypeOK
  <2>2. IsFiniteSet(1 .. Len(placed))
    BY <2>1, FS_Interval
  <2>3. QED
    BY <2>1, <2>2, FS_Subset
<1>7. ids \in Seq(Nat)
  BY <1>4, <1>6, SetToSeqIsSeq
<1> HIDE DEF ids
<1>8. updates \in Seq(Nat \X OrderStatuses)
  BY <1>7 DEF OrderStatuses
<1>9. /\ placed' \in Seq(PlacedType) /\ DOMAIN placed' = DOMAIN placed
      /\ \A n \in DOMAIN placed : /\ placed'[n].who = placed[n].who
                                 /\ placed'[n].place = placed[n].place
  <2>1. \A n \in DOMAIN placed : placed[n] \in PlacedType
    BY DEF MockInv, MockTypeOK
  <2>2. ASSUME NEW n \in DOMAIN placed
        PROVE  /\ placed'[n] \in PlacedType
               /\ placed'[n].who = placed[n].who /\ placed'[n].place = placed[n].place
    <3>1. placed'[n] = placed[n] \/ placed'[n] = [placed[n] EXCEPT !.status = "closed"]
      BY <1>3
    <3>2. QED
      BY <2>1, <3>1 DEF PlacedType, OrderStatuses
  <2>3. placed' = [n \in 1 .. Len(placed) |-> placed'[n]] /\ Len(placed) \in Nat
    BY <1>3 DEF MockInv, MockTypeOK
  <2>4. QED
    BY <2>2, <2>3 DEF MockInv, MockTypeOK
<1> HIDE DEF updates, k, s
<1>10. Told(cart, updates) \in CartType /\ Told(cart, updates).isReady = cart.isReady
  BY <1>5, <1>8, ToldTyped
<1>11. CartsTyped' /\ CartsKept
  BY <1>1, <1>3, <1>10, CartChanged DEF MockInv, MockTypeOK, CartsTyped, cart
<1>12. MockTypeOK'
  BY <1>3, <1>9, <1>11 DEF MockInv, MockTypeOK, CartsTyped
<1>13. CartsConfigured' /\ MoneyStaysApart'
  BY <1>3, <1>9, <1>11, ConfiguredStay, MoneyStays DEF MockInv
<1>14. MocksKeyless' /\ SdksMade'
  BY <1>3 DEF MockInv, MocksKeyless, SdksMade
<1>15. QED
  BY <1>12, <1>13, <1>14 DEF MockInv

\* A feed's poll, or a dropped feed's last one, empties the queues only.
LEMMA PollKeeps ==
  ASSUME MockInv, NEW k \in SdkKeys, carts' = Emptied(k),
         watchers' \in [DOMAIN watchers' -> WatcherType],
         UNCHANGED <<phase, sdks, placed, tickers>>
  PROVE  MockInv'
<1>1. CartsTyped' /\ CartsKept
  BY CartsEmptied DEF MockInv, MockTypeOK, CartsTyped
<1>2. MockTypeOK'
  BY <1>1 DEF MockInv, MockTypeOK, CartsTyped
<1>3. CartsConfigured' /\ MoneyStaysApart'
  BY <1>1, ConfiguredStay, MoneyStays DEF MockInv
<1>4. MocksKeyless' /\ SdksMade'
  BY DEF MockInv, MocksKeyless, SdksMade
<1>5. QED
  BY <1>2, <1>3, <1>4 DEF MockInv

\* Monitoring drops feeds of orders and of tickers, or runs them again.
LEMMA MonitorKeeps ==
  ASSUME MockInv, watchers' \in [DOMAIN watchers' -> WatcherType],
         DOMAIN tickers' \subseteq DOMAIN tickers,
         tickers' \in [DOMAIN tickers' -> SdkKeys],
         UNCHANGED <<phase, sdks, carts, placed>>
  PROVE  MockInv'
BY DEF MockInv, MockTypeOK, MocksKeyless, SdksMade, CartsConfigured, MoneyStaysApart

-----------------------------------------------------------------------------
(* Theorems.                                                               *)

\* The invariant holds through every order of starts, calls, tickers and polls.
THEOREM MockInvCorrect == MockSpec => []MockInv
<1>1. MockInit => MockInv
  BY DEF MockInit, MockInv, MockTypeOK, Phases, MocksKeyless, SdksMade, CartsConfigured,
         MoneyStaysApart
<1>2. MockInv /\ [MockNext]_mockVars => MockInv'
  <2> SUFFICES ASSUME MockInv, [MockNext]_mockVars PROVE MockInv'
    OBVIOUS
  <2>1. ASSUME NEW t \in Traders,
               RegisterTrader(t) \/ UpdateArgs(t) \/ SubscribeTrader(t) \/ StopTrader(t)
        PROVE  MockInv'
    BY <2>1, RegisterKeeps, UpdateArgsKeeps, SubscribeTraderKeeps, StopTraderKeeps
  <2>2. ASSUME NEW t \in Traders, NEW isMarket \in BOOLEAN, CreatePaperOrder(t, isMarket)
        PROVE  MockInv'
    BY <2>2, CreateKeeps
  <2>3. ASSUME NEW id \in DOMAIN placed, CancelPaperOrder(id) PROVE MockInv'
    BY <2>3, CancelKeeps
  <2>4. ASSUME NEW w \in DOMAIN watchers, Poll(w) PROVE MockInv'
    <3>1. watchers[w] \in WatcherType
      BY DEF MockInv, MockTypeOK
    <3>2. /\ carts' = Emptied(watchers[w].sdk) /\ watchers[w].sdk \in SdkKeys
          /\ UNCHANGED <<phase, sdks, placed, tickers>>
      BY <2>4, <3>1 DEF Poll, WatcherType
    <3>3. watchers' \in [DOMAIN watchers' -> WatcherType]
      BY ZenonT(30), <2>4 DEF Poll, MockInv, MockTypeOK, WatcherType
    <3>4. QED
      BY <3>2, <3>3, PollKeeps
  <2>5. ASSUME NEW w \in DOMAIN watchers, MonitorWatcher(w) PROVE MockInv'
    <3>1. watchers' \in [DOMAIN watchers' -> WatcherType]
      BY ZenonT(30), <2>5 DEF MonitorWatcher, MockInv, MockTypeOK, WatcherType
    <3>2. UNCHANGED <<phase, sdks, carts, placed, tickers>>
      BY <2>5 DEF MonitorWatcher
    <3>3. QED
      BY <3>1, <3>2, MonitorKeeps DEF MockInv, MockTypeOK
  <2>6. ASSUME NEW f \in DOMAIN tickers, Ticker(f) PROVE MockInv'
    BY <2>6, TickerKeeps
  <2>7. ASSUME NEW f \in DOMAIN tickers, DropTicker(f) PROVE MockInv'
    <3>1. /\ DOMAIN tickers' \subseteq DOMAIN tickers /\ tickers' \in [DOMAIN tickers' -> SdkKeys]
          /\ UNCHANGED <<phase, sdks, carts, placed, watchers>>
      BY <2>7 DEF DropTicker, MockInv, MockTypeOK
    <3>2. QED
      BY <3>1, MonitorKeeps DEF MockInv, MockTypeOK
  <2>8. ASSUME NEW k \in SdkKeys, OrphanPolls(k) PROVE MockInv'
    BY <2>8, PollKeeps DEF OrphanPolls, MockInv, MockTypeOK
  <2>9. CASE UNCHANGED mockVars
    BY <2>9 DEF mockVars, MockInv, MockTypeOK, MocksKeyless, SdksMade, CartsConfigured,
                MoneyStaysApart
  <2>10. QED
    BY <2>1, <2>2, <2>3, <2>4, <2>5, <2>6, <2>7, <2>8, <2>9 DEF MockNext
<1>3. QED
  BY <1>1, <1>2, PTL DEF MockSpec

\* Whatever runtimes share exchanges, carts and feeds: no order of a mock reaches an
\* account, none of a runtime with an API key stays on paper, and a mock of swaps
\* trades on a cart that register has configured.
THEOREM OrdersGoHomeCorrect == MockSpec => []OrdersGoHome
<1>1. MockInv => OrdersGoHome
  BY KeysOfRuntime DEF MockInv, CartsConfigured, OrdersGoHome, SwapCartsReady, Cart
<1>2. QED
  BY <1>1, MockInvCorrect, PTL

-----------------------------------------------------------------------------
(* What the scripts have heard.                                            *)

UpdateType == Nat \X OrderStatuses

\* An update says of an order that it is open, or what it came to.
Truthful(u) == u[1] \in DOMAIN placed /\ u[2] \in {"open", placed[u[1]].status}

\* The queue of a cart has true updates of its orders, each once.
QueueTrue(k, s) ==
  /\ IsInjective(carts[k][s].orderUpdates)
  /\ \A u \in ToSet(carts[k][s].orderUpdates) :
       Truthful(u) /\ placed[u[1]].sdk = k /\ placed[u[1]].symbol = s
QueuesTrue ==
  \A k \in SdkKeys : IsFiniteSet(DOMAIN carts[k]) /\ \A s \in DOMAIN carts[k] : QueueTrue(k, s)

\* So has a script, and none that is still in a queue.
HeardTrue ==
  /\ heard \in [Traders -> Seq(UpdateType)]
  /\ \A t \in Traders :
       /\ IsInjective(heard[t])
       /\ \A u \in ToSet(heard[t]) : Truthful(u) /\ \A k \in SdkKeys : u \notin Pending(k)

\* The second half of UpdatesHeardOnce.
OrdersHeard ==
  \A id \in DOMAIN placed, t \in Traders :
    placed[id].who = t /\ placed[id].place = "paper" /\ OwnSdk(t) \notin shared =>
      \A status \in {"open", placed[id].status} :
        <<id, status>> \in ToSet(heard[t]) \cup Pending(OwnSdk(t))

\* An order is where its owner trades, who runs as long as it has its exchange to itself.
OrdersOwned ==
  \A id \in DOMAIN placed, t \in Traders : placed[id].who = t =>
    /\ placed[id].sdk = OwnSdk(t) /\ placed[id].symbol = Trades[t].symbol
    /\ placed[id].place = "paper" => phase[t] = "running" \/ OwnSdk(t) \in shared

\* An exchange is polled by a running owner's feed, or it is shared; and where it is
\* not, by no other feed.
FeedsOwned ==
  /\ orphans \in [SdkKeys -> Nat]
  /\ \A k \in SdkKeys : orphans[k] > 0 => k \in shared
  /\ \A w \in DOMAIN watchers :
       \/ watchers[w].sdk \in shared
       \/ \E t \in Traders : /\ phase[t] = "running" /\ WatcherOf(t) = w
                             /\ OwnSdk(t) = watchers[w].sdk
  /\ \A t \in Traders : phase[t] = "running" /\ OwnSdk(t) \notin shared =>
       /\ WatcherOf(t) \in DOMAIN watchers
       /\ \A v \in DOMAIN watchers : v = WatcherOf(t) <=> watchers[v].sdk = OwnSdk(t)

HeardInv == QueuesTrue /\ HeardTrue /\ OrdersHeard /\ OrdersOwned /\ FeedsOwned

\* Each element of a finite set once.
LEMMA SetToSeqOnce ==
  ASSUME NEW S, IsFiniteSet(S)
  PROVE  IsInjective(SetToSeq(S)) /\ ToSet(SetToSeq(S)) = S
<1> DEFINE n == Cardinality(S)
           f == SetToSeq(S)
<1>1. n \in Nat /\ ExistsBijection(1 .. n, S)
  BY FS_CardinalityType
<1>2. \E g \in [1 .. n -> S] : IsInjective(g)
  BY <1>1 DEF ExistsBijection, Bijection, Injection, IsInjective
<1>3. f \in [1 .. n -> S] /\ IsInjective(f)
  BY <1>2 DEF SetToSeq
<1> HIDE DEF f
<1>4. f \in Injection(1 .. n, S)
  BY <1>3 DEF Injection
<1>5. Cardinality(1 .. n) = n
  BY <1>1, FS_Interval
<1>6. f \in Surjection(1 .. n, S)
  BY <1>4, <1>5, FS_Injection
<1>7. ToSet(f) = S
  <2>1. \A x \in S : \E i \in 1 .. n : f[i] = x
    BY <1>6 DEF Surjection
  <2>2. QED
    BY <1>3, <2>1 DEF ToSet
<1>8. QED
  BY <1>3, <1>7 DEF f

\* Orders are added, keep whose they are, and only open ones change.
PlacedGrows ==
  /\ DOMAIN placed \subseteq DOMAIN placed'
  /\ \A id \in DOMAIN placed :
       /\ placed'[id].who = placed[id].who /\ placed'[id].place = placed[id].place
       /\ placed'[id].sdk = placed[id].sdk /\ placed'[id].symbol = placed[id].symbol
       /\ placed'[id].status = placed[id].status \/ placed[id].status = "open"

\* What was true of an order stays so.
LEMMA TruthStays ==
  ASSUME PlacedGrows, NEW u, Truthful(u)
  PROVE  /\ u[1] \in DOMAIN placed' /\ u[2] \in {"open", placed'[u[1]].status}
         /\ placed'[u[1]].sdk = placed[u[1]].sdk /\ placed'[u[1]].symbol = placed[u[1]].symbol
BY DEF PlacedGrows, Truthful

\* A step that tells the queue of a cart, of each order it makes or changes there.
Tells(k, s, cart, ups) ==
  /\ k \in SdkKeys /\ s \in Symbols /\ cart \in CartType
  /\ ups \in Seq(UpdateType) /\ IsInjective(ups)
  /\ cart.orderUpdates = Cart(k, s).orderUpdates \o ups
  /\ carts' = WithCart(k, s, cart)
  /\ \A u \in ToSet(ups) : /\ Truthful(u)' /\ placed'[u[1]].sdk = k /\ placed'[u[1]].symbol = s
                           /\ ~Truthful(u)
  /\ \A id \in DOMAIN placed' :
       \/ id \in DOMAIN placed /\ placed'[id].status = placed[id].status
       \/ id \in DOMAIN placed /\ placed'[id].sdk = k /\ <<id, placed'[id].status>> \in ToSet(ups)
       \/ /\ id \notin DOMAIN placed /\ placed'[id].sdk = k
          /\ {<<id, "open">>, <<id, placed'[id].status>>} \subseteq ToSet(ups)

\* It gets true updates that were never given out.
LEMMA TellKeeps ==
  ASSUME MockTypeOK, HeardInv, NEW k, NEW s, NEW cart, NEW ups, Tells(k, s, cart, ups),
         PlacedGrows, OrdersOwned', UNCHANGED <<heard, shared>>
  PROVE  QueuesTrue' /\ HeardTrue' /\ OrdersHeard'
<1> DEFINE old == Cart(k, s).orderUpdates
           new == cart.orderUpdates
<1>0. /\ k \in SdkKeys /\ s \in Symbols /\ cart \in CartType
      /\ ups \in Seq(UpdateType) /\ IsInjective(ups)
      /\ cart.orderUpdates = Cart(k, s).orderUpdates \o ups
      /\ carts' = WithCart(k, s, cart)
      /\ \A u \in ToSet(ups) : /\ Truthful(u)' /\ placed'[u[1]].sdk = k /\ placed'[u[1]].symbol = s
                               /\ ~Truthful(u)
  BY DEF Tells
<1>1. /\ carts'[k] = [q \in DOMAIN carts[k] \cup {s} |-> IF q = s THEN cart ELSE carts[k][q]]
      /\ \A j \in SdkKeys : j # k => carts'[j] = carts[j]
  BY <1>0 DEF WithCart, MockTypeOK
<1>2. /\ old \in Seq(UpdateType) /\ IsInjective(old)
      /\ \A u \in ToSet(old) : Truthful(u) /\ placed[u[1]].sdk = k /\ placed[u[1]].symbol = s
  <2>1. CASE s \in DOMAIN carts[k]
    <3>1. old = carts[k][s].orderUpdates /\ carts[k][s] \in CartType
      BY <1>0, <2>1 DEF Cart, MockTypeOK
    <3>2. QueueTrue(k, s)
      BY <1>0, <2>1 DEF HeardInv, QueuesTrue
    <3> HIDE DEF old
    <3>3. QED
      BY <3>1, <3>2 DEF QueueTrue, CartType, UpdateType
  <2>2. CASE s \notin DOMAIN carts[k]
    <3>1. old = <<>>
      BY <2>2 DEF Cart, NewCart
    <3> HIDE DEF old
    <3>2. QED
      BY <3>1 DEF IsInjective, ToSet
  <2>3. QED
    BY <2>1, <2>2
<1>3. ToSet(old) \cap ToSet(ups) = {}
  BY <1>0, <1>2
<1> HIDE DEF old, new
<1>4. ToSet(new) = ToSet(old) \cup ToSet(ups) /\ IsInjective(new)
  <2>1. new = old \o ups
    BY <1>0 DEF new, old
  <2>2. QED
    BY <1>0, <1>2, <1>3, <2>1, ConcatOnce
<1>5. Pending(k)' = Pending(k) \cup ToSet(ups) /\ \A j \in SdkKeys : j # k => Pending(j)' = Pending(j)
  <2>1. ASSUME NEW u \in Pending(k)' PROVE u \in Pending(k) \cup ToSet(ups)
    <3>1. PICK q \in DOMAIN carts'[k] : u \in ToSet(carts'[k][q].orderUpdates)
      BY <2>1 DEF Pending
    <3>2. CASE q = s
      <4>1. u \in ToSet(new)
        BY <1>0, <1>1, <3>1, <3>2 DEF new
      <4>2. CASE u \in ToSet(old)
        <5>1. s \in DOMAIN carts[k] /\ old = carts[k][s].orderUpdates
          <6>1. s \notin DOMAIN carts[k] => old = <<>>
            BY DEF old, Cart, NewCart
          <6>2. QED
            BY <4>2, <6>1 DEF old, Cart, ToSet
        <5>2. QED
          BY <4>2, <5>1 DEF Pending
      <4>3. QED
        BY <1>4, <4>1, <4>2
    <3>3. CASE q # s
      BY <1>0, <1>1, <3>1, <3>3 DEF Pending
    <3>4. QED
      BY <3>2, <3>3
  <2>2. ASSUME NEW u \in ToSet(ups) PROVE u \in Pending(k)'
    <3>1. s \in DOMAIN carts'[k] /\ carts'[k][s].orderUpdates = new
      BY <1>0, <1>1 DEF new
    <3>2. QED
      BY <1>4, <3>1 DEF Pending
  <2>3. ASSUME NEW u \in Pending(k) PROVE u \in Pending(k)'
    <3>1. PICK q \in DOMAIN carts[k] : u \in ToSet(carts[k][q].orderUpdates)
      BY <2>3 DEF Pending
    <3>2. CASE q = s
      <4>1. u \in ToSet(old)
        BY <3>1, <3>2 DEF old, Cart
      <4>2. s \in DOMAIN carts'[k] /\ carts'[k][s].orderUpdates = new
        BY <1>0, <1>1 DEF new
      <4>3. QED
        BY <1>4, <4>1, <4>2 DEF Pending
    <3>3. CASE q # s
      <4>1. q \in DOMAIN carts'[k] /\ carts'[k][q] = carts[k][q]
        BY <1>0, <1>1, <3>3
      <4>2. QED
        BY <3>1, <4>1 DEF Pending
    <3>4. QED
      BY <3>2, <3>3
  <2>4. ASSUME NEW j \in SdkKeys, j # k PROVE Pending(j)' = Pending(j)
    BY <1>1, <2>4 DEF Pending
  <2>5. QED
    BY <2>1, <2>2, <2>3, <2>4
<1>6. QueuesTrue'
  <2> SUFFICES ASSUME NEW j \in SdkKeys
               PROVE  IsFiniteSet(DOMAIN carts'[j]) /\ \A q \in DOMAIN carts'[j] : QueueTrue(j, q)'
    BY DEF QueuesTrue
  <2>1. IsFiniteSet(DOMAIN carts[j]) /\ \A q \in DOMAIN carts[j] : QueueTrue(j, q)
    BY DEF HeardInv, QueuesTrue
  <2>2. IsFiniteSet(DOMAIN carts'[j])
    <3>1. IsFiniteSet(DOMAIN carts[j] \cup {s})
      BY <2>1, FS_AddElement
    <3>2. DOMAIN carts'[j] = DOMAIN carts[j] \/ DOMAIN carts'[j] = DOMAIN carts[j] \cup {s}
      BY <1>1
    <3>3. QED
      BY <2>1, <3>1, <3>2
  <2>3. ASSUME NEW q \in DOMAIN carts'[j], j # k \/ q # s PROVE QueueTrue(j, q)'
    <3>1. q \in DOMAIN carts[j] /\ carts'[j][q] = carts[j][q]
      BY <1>1, <2>3
    <3>2. QueueTrue(j, q)
      BY <2>1, <3>1
    <3>3. QED
      BY <3>1, <3>2, TruthStays DEF QueueTrue, Truthful
  <2>4. QueueTrue(k, s)'
    <3>1. carts'[k][s].orderUpdates = new
      BY <1>0, <1>1 DEF new
    <3>2. ASSUME NEW u \in ToSet(new)
          PROVE  Truthful(u)' /\ placed'[u[1]].sdk = k /\ placed'[u[1]].symbol = s
      <4>1. CASE u \in ToSet(old)
        <5>1. Truthful(u) /\ placed[u[1]].sdk = k /\ placed[u[1]].symbol = s
          BY <1>2, <4>1
        <5>2. QED
          BY <5>1, TruthStays DEF Truthful
      <4>2. CASE u \in ToSet(ups)
        BY <1>0, <4>2
      <4>3. QED
        BY <1>4, <4>1, <4>2
    <3>3. QED
      BY <1>4, <3>1, <3>2 DEF QueueTrue
  <2>5. QED
    BY <2>2, <2>3, <2>4
<1>7. HeardTrue'
  <2> SUFFICES ASSUME NEW t \in Traders
               PROVE  /\ IsInjective(heard[t])
                      /\ \A u \in ToSet(heard[t]) :
                           Truthful(u)' /\ \A j \in SdkKeys : u \notin Pending(j)'
    BY DEF HeardInv, HeardTrue
  <2>1. /\ IsInjective(heard[t])
        /\ \A u \in ToSet(heard[t]) : Truthful(u) /\ \A j \in SdkKeys : u \notin Pending(j)
    BY DEF HeardInv, HeardTrue
  <2>2. \A u \in ToSet(heard[t]) : Truthful(u)'
    BY <2>1, TruthStays DEF Truthful
  <2>3. \A u \in ToSet(heard[t]) : \A j \in SdkKeys : u \notin Pending(j)'
    BY <1>0, <1>5, <2>1
  <2>4. QED
    BY <2>1, <2>2, <2>3
<1>8. OrdersHeard'
  <2> SUFFICES ASSUME NEW id \in DOMAIN placed', NEW t \in Traders,
                      placed'[id].who = t, placed'[id].place = "paper", OwnSdk(t) \notin shared,
                      NEW status \in {"open", placed'[id].status}
               PROVE  <<id, status>> \in ToSet(heard[t]) \cup Pending(OwnSdk(t))'
    BY DEF OrdersHeard
  <2> DEFINE o == OwnSdk(t)
  <2>1. placed'[id].sdk = o
    BY DEF OrdersOwned
  <2>2. ASSUME id \in DOMAIN placed, status \in {"open", placed[id].status}
        PROVE  <<id, status>> \in ToSet(heard[t]) \cup Pending(o)
    <3>1. placed[id].who = t /\ placed[id].place = "paper"
      BY <2>2 DEF PlacedGrows
    <3>2. QED
      BY <2>2, <3>1 DEF HeardInv, OrdersHeard
  <2>3. ASSUME o = k, <<id, status>> \in ToSet(ups) PROVE <<id, status>> \in Pending(o)'
    BY <1>0, <1>5, <2>3
  <2>4. Pending(o) \subseteq Pending(o)'
    <3>1. o \in SdkKeys
      <4>1. CASE o = k
        BY <1>0, <4>1
      <4>2. CASE o # k
        <5>1. id \in DOMAIN placed
          BY <2>1, <4>2 DEF Tells
        <5>2. placed[id] \in PlacedType
          BY <5>1 DEF MockTypeOK
        <5>3. QED
          BY <2>1, <5>1, <5>2 DEF PlacedType, PlacedGrows
      <4>3. QED
        BY <4>1, <4>2
    <3>2. QED
      BY <1>5, <3>1
  <2> HIDE DEF o
  <2>5. CASE id \in DOMAIN placed /\ placed'[id].status = placed[id].status
    BY <2>2, <2>4, <2>5 DEF o
  <2>6. CASE /\ id \in DOMAIN placed /\ placed'[id].sdk = k
             /\ <<id, placed'[id].status>> \in ToSet(ups)
    <3>1. CASE status = "open"
      BY <2>2, <2>4, <2>6, <3>1 DEF o
    <3>2. CASE status # "open"
      BY <2>1, <2>3, <2>6, <3>2 DEF o
    <3>3. QED
      BY <3>1, <3>2
  <2>7. CASE /\ id \notin DOMAIN placed /\ placed'[id].sdk = k
             /\ {<<id, "open">>, <<id, placed'[id].status>>} \subseteq ToSet(ups)
    BY <2>1, <2>3, <2>7 DEF o
  <2>8. QED
    BY <2>5, <2>6, <2>7 DEF Tells
<1>9. QED
  BY <1>6, <1>7, <1>8

\* The updates of all the carts of an exchange, each once.
LEMMA AllUpdatesOnce ==
  ASSUME MockTypeOK, QueuesTrue, NEW k \in SdkKeys
  PROVE  /\ AllUpdates(k) \in Seq(UpdateType) /\ ToSet(AllUpdates(k)) = Pending(k)
         /\ IsInjective(AllUpdates(k))
<1> DEFINE d == SetToSeq(DOMAIN carts[k])
           ss == [i \in 1 .. Len(d) |-> carts[k][d[i]].orderUpdates]
<1>1. d \in Seq(DOMAIN carts[k]) /\ IsInjective(d) /\ ToSet(d) = DOMAIN carts[k]
  BY SetToSeqIsSeq, SetToSeqOnce DEF QueuesTrue
<1> HIDE DEF d
<1>2. Len(d) \in Nat /\ DOMAIN d = 1 .. Len(d) /\ \A i \in 1 .. Len(d) : d[i] \in DOMAIN carts[k]
  BY <1>1
<1>3. \A s \in DOMAIN carts[k] : carts[k][s].orderUpdates \in Seq(UpdateType) /\ QueueTrue(k, s)
  BY DEF MockTypeOK, QueuesTrue, CartType, UpdateType
<1>4. ss \in Seq(Seq(UpdateType)) /\ Len(ss) = Len(d)
      /\ \A i \in 1 .. Len(d) : ss[i] = carts[k][d[i]].orderUpdates
  BY <1>2, <1>3
<1>5. AllUpdates(k) = FlattenSeq(ss)
  BY DEF AllUpdates, d
<1> HIDE DEF ss
<1>6. ListsApart(ss)
  <2>1. \A i \in 1 .. Len(ss) : IsInjective(ss[i])
    BY <1>2, <1>3, <1>4 DEF QueueTrue
  <2>2. ASSUME NEW i \in 1 .. Len(ss), NEW j \in 1 .. Len(ss), i # j
        PROVE  ToSet(ss[i]) \cap ToSet(ss[j]) = {}
    <3>1. d[i] # d[j]
      BY <1>1, <1>2, <1>4, <2>2 DEF IsInjective
    <3>2. \A u \in ToSet(ss[i]) : placed[u[1]].symbol = d[i]
      BY <1>2, <1>3, <1>4 DEF QueueTrue
    <3>3. \A u \in ToSet(ss[j]) : placed[u[1]].symbol = d[j]
      BY <1>2, <1>3, <1>4 DEF QueueTrue
    <3>4. QED
      BY <3>1, <3>2, <3>3
  <2>3. QED
    BY <2>1, <2>2 DEF ListsApart
<1>7. HeldBy(ss, Len(ss)) = Pending(k)
  <2>1. ASSUME NEW u \in HeldBy(ss, Len(ss)) PROVE u \in Pending(k)
    BY <1>2, <1>4, <2>1 DEF HeldBy, Pending
  <2>2. ASSUME NEW u \in Pending(k) PROVE u \in HeldBy(ss, Len(ss))
    <3>1. PICK s \in DOMAIN carts[k] : u \in ToSet(carts[k][s].orderUpdates)
      BY <2>2 DEF Pending
    <3>2. PICK i \in 1 .. Len(d) : d[i] = s
      BY <1>1, <1>2 DEF ToSet
    <3>3. QED
      BY <1>4, <3>1, <3>2 DEF HeldBy
  <2>3. QED
    BY <2>1, <2>2
<1>8. QED
  BY <1>4, <1>5, <1>6, <1>7, FlattenOnce DEF IsFlat

\* A poll hands the updates of an exchange to those who are subscribed.
LEMMA EmptyKeeps ==
  ASSUME MockTypeOK, HeardInv, NEW k \in SdkKeys, NEW T, T \subseteq Traders,
         carts' = Emptied(k),
         heard' = [t \in Traders |-> IF t \in T THEN heard[t] \o AllUpdates(k) ELSE heard[t]],
         \A t \in Traders : phase[t] = "running" /\ OwnSdk(t) = k /\ k \notin shared => t \in T,
         UNCHANGED <<placed, shared>>
  PROVE  QueuesTrue' /\ HeardTrue' /\ OrdersHeard'
<1> DEFINE all == AllUpdates(k)
<1>0. /\ all \in Seq(UpdateType) /\ ToSet(all) = Pending(k) /\ IsInjective(all)
  BY AllUpdatesOnce DEF HeardInv
<1> HIDE DEF all
<1>1. /\ carts'[k] = [q \in DOMAIN carts[k] |-> [carts[k][q] EXCEPT !.orderUpdates = <<>>]]
      /\ \A j \in SdkKeys : j # k => carts'[j] = carts[j]
  BY DEF Emptied, MockTypeOK
<1>2. \A q \in DOMAIN carts'[k] : carts'[k][q].orderUpdates = <<>>
  <2> SUFFICES ASSUME NEW q \in DOMAIN carts[k] PROVE carts'[k][q].orderUpdates = <<>>
    BY <1>1
  <2>1. carts[k][q] \in CartType
    BY DEF MockTypeOK
  <2>2. carts'[k][q] = [carts[k][q] EXCEPT !.orderUpdates = <<>>]
    BY <1>1
  <2>3. QED
    BY <2>1, <2>2 DEF CartType
<1>3. Pending(k)' = {} /\ \A j \in SdkKeys : j # k => Pending(j)' = Pending(j)
  <2>1. ToSet(<<>>) = {}
    BY DEF ToSet
  <2>2. Pending(k)' = {}
    BY <1>2, <2>1 DEF Pending
  <2>3. ASSUME NEW j \in SdkKeys, j # k PROVE Pending(j)' = Pending(j)
    BY <1>1, <2>3 DEF Pending
  <2>4. QED
    BY <2>2, <2>3
<1>4. QueuesTrue'
  <2> SUFFICES ASSUME NEW j \in SdkKeys
               PROVE  IsFiniteSet(DOMAIN carts'[j]) /\ \A q \in DOMAIN carts'[j] : QueueTrue(j, q)'
    BY DEF QueuesTrue
  <2>1. IsFiniteSet(DOMAIN carts[j]) /\ \A q \in DOMAIN carts[j] : QueueTrue(j, q)
    BY DEF HeardInv, QueuesTrue
  <2>2. DOMAIN carts'[j] = DOMAIN carts[j]
    BY <1>1
  <2>3. ASSUME NEW q \in DOMAIN carts'[j] PROVE QueueTrue(j, q)'
    <3>1. CASE j = k
      <4>1. carts'[j][q].orderUpdates = <<>>
        BY <1>2, <3>1
      <4>2. QED
        BY <4>1 DEF QueueTrue, IsInjective, ToSet
    <3>2. CASE j # k
      <4>1. carts'[j] = carts[j] /\ QueueTrue(j, q)
        BY <1>1, <2>1, <2>2, <3>2
      <4>2. QED
        BY <4>1 DEF QueueTrue, Truthful
    <3>3. QED
      BY <3>1, <3>2
  <2>4. QED
    BY <2>1, <2>2, <2>3
<1>5. ASSUME NEW j \in SdkKeys, NEW u \in Pending(j) PROVE Truthful(u) /\ placed[u[1]].sdk = j
  <2>1. PICK q \in DOMAIN carts[j] : u \in ToSet(carts[j][q].orderUpdates)
    BY <1>5 DEF Pending
  <2>2. QueueTrue(j, q)
    BY DEF HeardInv, QueuesTrue
  <2>3. QED
    BY <2>1, <2>2 DEF QueueTrue
<1>6. ASSUME NEW t \in Traders
      PROVE  /\ heard'[t] \in Seq(UpdateType) /\ IsInjective(heard'[t])
             /\ \A u \in ToSet(heard'[t]) : Truthful(u) /\ \A j \in SdkKeys : u \notin Pending(j)'
             /\ ToSet(heard'[t]) = IF t \in T THEN ToSet(heard[t]) \cup Pending(k)
                                   ELSE ToSet(heard[t])
  <2>1. /\ heard[t] \in Seq(UpdateType) /\ IsInjective(heard[t])
        /\ \A u \in ToSet(heard[t]) : Truthful(u) /\ \A j \in SdkKeys : u \notin Pending(j)
    BY DEF HeardInv, HeardTrue
  <2>2. \A u \in ToSet(heard[t]) : \A j \in SdkKeys : u \notin Pending(j)'
    BY <1>3, <2>1
  <2>3. CASE t \in T
    <3>1. heard'[t] = heard[t] \o all
      BY <2>3 DEF all
    <3>2. ToSet(heard[t]) \cap ToSet(all) = {}
      BY <1>0, <2>1
    <3> DEFINE before == heard[t]
    <3>3. before \in Seq(UpdateType) /\ IsInjective(before) /\ ToSet(before) \cap ToSet(all) = {}
      BY <2>1, <3>2
    <3> HIDE DEF before
    <3>4. /\ before \o all \in Seq(UpdateType) /\ ToSet(before \o all) = ToSet(before) \cup ToSet(all)
          /\ IsInjective(before \o all)
      BY <1>0, <3>3, ConcatOnce
    <3>5. /\ heard'[t] \in Seq(UpdateType) /\ ToSet(heard'[t]) = ToSet(heard[t]) \cup Pending(k)
          /\ IsInjective(heard'[t])
      BY <1>0, <3>1, <3>4 DEF before
    <3>6. \A u \in Pending(k) : Truthful(u) /\ \A j \in SdkKeys : u \notin Pending(j)'
      BY <1>3, <1>5
    <3>7. QED
      BY <2>1, <2>2, <2>3, <3>5, <3>6
  <2>4. CASE t \notin T
    <3>1. heard'[t] = heard[t]
      BY <2>4
    <3>2. QED
      BY <2>1, <2>2, <2>4, <3>1
  <2>5. QED
    BY <2>3, <2>4
<1>7. HeardTrue'
  <2>1. \A u : Truthful(u) => Truthful(u)'
    BY DEF Truthful
  <2>2. heard' \in [Traders -> Seq(UpdateType)]
    <3>1. heard' = [t \in Traders |-> heard'[t]]
      OBVIOUS
    <3>2. QED
      BY <1>6, <3>1
  <2>3. QED
    BY <1>6, <2>1, <2>2 DEF HeardTrue
<1>8. OrdersHeard'
  <2> SUFFICES ASSUME NEW id \in DOMAIN placed', NEW t \in Traders,
                      placed'[id].who = t, placed'[id].place = "paper", OwnSdk(t) \notin shared,
                      NEW status \in {"open", placed'[id].status}
               PROVE  <<id, status>> \in ToSet(heard'[t]) \cup Pending(OwnSdk(t))'
    BY DEF OrdersHeard
  <2> DEFINE o == OwnSdk(t)
  <2>1. <<id, status>> \in ToSet(heard[t]) \cup Pending(o)
    BY DEF HeardInv, OrdersHeard
  <2>2. o \in SdkKeys
    BY KeysOfRuntime
  <2>3. phase[t] = "running"
    BY DEF HeardInv, OrdersOwned
  <2> HIDE DEF o
  <2>4. o = k => t \in T
    BY <2>2, <2>3 DEF o
  <2>5. QED
    BY <1>3, <1>6, <2>1, <2>2, <2>4 DEF o
<1>9. QED
  BY <1>4, <1>7, <1>8

\* Steps that leave the queues alone, and make no order on paper.
LEMMA QuietKeeps ==
  ASSUME MockTypeOK, HeardInv, PlacedGrows,
         \A id \in DOMAIN placed' :
           \/ id \in DOMAIN placed /\ placed'[id].status = placed[id].status
           \/ id \notin DOMAIN placed /\ placed'[id].place # "paper",
         shared \subseteq shared', UNCHANGED <<carts, heard>>
  PROVE  QueuesTrue' /\ HeardTrue' /\ OrdersHeard'
<1>1. \A k : Pending(k)' = Pending(k)
  BY DEF Pending
<1>2. QueuesTrue'
  <2> SUFFICES ASSUME NEW k \in SdkKeys, NEW s \in DOMAIN carts[k] PROVE QueueTrue(k, s)'
    BY DEF QueuesTrue, HeardInv
  <2>1. QueueTrue(k, s)
    BY DEF HeardInv, QueuesTrue
  <2>2. QED
    BY <2>1, TruthStays DEF QueueTrue, Truthful
<1>3. HeardTrue'
  <2>1. \A u : Truthful(u) => Truthful(u)'
    BY TruthStays DEF Truthful
  <2>2. QED
    BY <1>1, <2>1 DEF HeardInv, HeardTrue
<1>4. OrdersHeard'
  <2> SUFFICES ASSUME NEW id \in DOMAIN placed', NEW t \in Traders,
                      placed'[id].who = t, placed'[id].place = "paper", OwnSdk(t) \notin shared',
                      NEW status \in {"open", placed'[id].status}
               PROVE  <<id, status>> \in ToSet(heard[t]) \cup Pending(OwnSdk(t))
    BY <1>1 DEF OrdersHeard
  <2>1. /\ id \in DOMAIN placed /\ placed[id].status = placed'[id].status
        /\ placed[id].who = t /\ placed[id].place = "paper" /\ OwnSdk(t) \notin shared
    BY DEF PlacedGrows
  <2>2. QED
    BY <2>1 DEF HeardInv, OrdersHeard
<1>5. QED
  BY <1>2, <1>3, <1>4

\* Whoever stops running shares its exchange.
LEMMA OrdersStay ==
  ASSUME HeardInv, PlacedGrows, DOMAIN placed' = DOMAIN placed, placed \in Seq(PlacedType),
         \A t \in Traders : phase[t] = "running" => phase'[t] = "running" \/ OwnSdk(t) \in shared',
         shared \subseteq shared'
  PROVE  OrdersOwned'
<1> SUFFICES ASSUME NEW id \in DOMAIN placed, NEW t \in Traders, placed'[id].who = t
             PROVE  /\ placed'[id].sdk = OwnSdk(t) /\ placed'[id].symbol = Trades[t].symbol
                    /\ placed'[id].place = "paper" => phase'[t] = "running" \/ OwnSdk(t) \in shared'
  BY DEF OrdersOwned
<1>1. placed[id].who = t
  BY DEF PlacedGrows
<1>2. /\ placed[id].sdk = OwnSdk(t) /\ placed[id].symbol = Trades[t].symbol
      /\ placed[id].place = "paper" => phase[t] = "running" \/ OwnSdk(t) \in shared
  BY <1>1 DEF HeardInv, OrdersOwned
<1>3. QED
  BY <1>1, <1>2 DEF PlacedGrows

\* Steps that keep who runs, the feeds and what is shared.
LEMMA FeedsStay ==
  ASSUME FeedsOwned,
         \A t \in Traders : phase'[t] = "running" <=> phase[t] = "running",
         DOMAIN watchers' = DOMAIN watchers,
         \A w \in DOMAIN watchers : watchers'[w].sdk = watchers[w].sdk,
         orphans' \in [SdkKeys -> Nat], \A k \in SdkKeys : orphans'[k] > 0 => orphans[k] > 0,
         UNCHANGED shared
  PROVE  FeedsOwned'
BY DEF FeedsOwned

-----------------------------------------------------------------------------
(* Steps of the scripts.                                                   *)

\* Where no order changes.
LEMMA SamePlaced == ASSUME UNCHANGED placed PROVE PlacedGrows
BY DEF PlacedGrows

\* A cart that is made or configured is told nothing.
LEMMA RegisterHeard ==
  ASSUME MockInv, HeardInv, NEW t \in Traders, RegisterTrader(t) PROVE HeardInv'
<1> DEFINE k == RegisteredSdk(t)
           s == Trades[t].symbol
           ready == [Cart(k, s) EXCEPT !.isReady = TRUE]
<1>1. /\ phase[t] = "off" /\ phase' = [phase EXCEPT ![t] = "configured"]
      /\ UNCHANGED <<placed, watchers, orphans, heard, shared>>
  BY DEF RegisterTrader
<1>2. \A u \in Traders : phase'[u] = "running" <=> phase[u] = "running"
  BY <1>1 DEF MockInv, MockTypeOK
<1>3. OrdersOwned' /\ FeedsOwned'
  BY <1>1, <1>2, SamePlaced, OrdersStay, FeedsStay DEF HeardInv, FeedsOwned, MockInv, MockTypeOK
<1>4. QueuesTrue' /\ HeardTrue' /\ OrdersHeard'
  <2>1. CASE IsMock(Trades[t].name)
    <3>1. k \in SdkKeys /\ s \in Symbols /\ Cart(k, s) \in CartType
      BY KeysOfRuntime, CartTyped DEF MockInv
    <3>2. carts' = WithCart(k, s, ready)
      BY <2>1 DEF RegisterTrader
    <3> DEFINE none == <<>>
    <3>3. ready \in CartType /\ ready.orderUpdates = Cart(k, s).orderUpdates \o none
      <4>1. /\ ready \in CartType /\ ready.orderUpdates = Cart(k, s).orderUpdates
            /\ Cart(k, s).orderUpdates \in Seq(UpdateType)
        BY <3>1 DEF CartType, UpdateType
      <4>2. QED
        BY <4>1, ConcatEmptySeq
    <3>4. none \in Seq(UpdateType) /\ IsInjective(none) /\ ToSet(none) = {}
      BY DEF IsInjective, ToSet
    <3> HIDE DEF k, s, ready, none
    <3>5. QED
      <4>1. Tells(k, s, ready, none)
        BY <1>1, <3>1, <3>2, <3>3, <3>4 DEF Tells
      <4>2. QED
        BY <1>1, <1>3, <4>1, SamePlaced, TellKeeps DEF MockInv
  <2>2. CASE ~IsMock(Trades[t].name)
    <3>1. UNCHANGED carts
      BY <2>2 DEF RegisterTrader
    <3>2. QED
      BY <1>1, <3>1, SamePlaced, QuietKeeps DEF MockInv
  <2>3. QED
    BY <2>1, <2>2
<1>5. QED
  BY <1>3, <1>4 DEF HeardInv

\* Who loads does not run yet.
LEMMA UpdateArgsHeard ==
  ASSUME MockInv, HeardInv, NEW t \in Traders, UpdateArgs(t) PROVE HeardInv'
<1>1. /\ phase[t] = "configured" /\ phase' = [phase EXCEPT ![t] = "loading"]
      /\ UNCHANGED <<placed, carts, watchers, orphans, heard, shared>>
  BY DEF UpdateArgs
<1>2. \A u \in Traders : phase'[u] = "running" <=> phase[u] = "running"
  BY <1>1 DEF MockInv, MockTypeOK
<1>3. OrdersOwned' /\ FeedsOwned'
  BY <1>1, <1>2, SamePlaced, OrdersStay, FeedsStay DEF HeardInv, FeedsOwned, MockInv, MockTypeOK
<1>4. QueuesTrue' /\ HeardTrue' /\ OrdersHeard'
  BY <1>1, SamePlaced, QuietKeeps DEF MockInv
<1>5. QED
  BY <1>3, <1>4 DEF HeardInv

\* A runtime that finds a feed of another exchange, or another feed of its own, shares.
LEMMA SubscribeHeard ==
  ASSUME MockInv, HeardInv, NEW t \in Traders, SubscribeTrader(t) PROVE HeardInv'
<1> DEFINE w == WatcherOf(t)
           others == {v \in DOMAIN watchers : (v = w) # (watchers[v].sdk = OwnSdk(t))}
<1>1. /\ phase[t] = "loading" /\ phase' = [phase EXCEPT ![t] = "running"]
      /\ watchers' = [v \in DOMAIN watchers \cup {w} |->
                       IF v \in DOMAIN watchers THEN watchers[v]
                       ELSE [sdk |-> OwnSdk(t), polls |-> TRUE]]
      /\ shared' = IF others = {} THEN shared ELSE shared \cup {OwnSdk(t)}
      /\ UNCHANGED <<placed, carts, orphans, heard>>
  BY DEF SubscribeTrader
<1>2. /\ phase'[t] = "running" /\ shared \subseteq shared'
      /\ \A u \in Traders : u # t => phase'[u] = phase[u]
  BY <1>1 DEF MockInv, MockTypeOK
<1>3. OrdersOwned'
  BY <1>1, <1>2, SamePlaced, OrdersStay DEF MockInv, MockTypeOK
<1>4. QueuesTrue' /\ HeardTrue' /\ OrdersHeard'
  BY <1>1, <1>2, SamePlaced, QuietKeeps DEF MockInv
<1>5. /\ DOMAIN watchers' = DOMAIN watchers \cup {w}
      /\ \A v \in DOMAIN watchers : watchers'[v] = watchers[v]
      /\ w \notin DOMAIN watchers => watchers'[w].sdk = OwnSdk(t)
  BY <1>1
<1>6. FeedsOwned
  BY DEF HeardInv
<1>7. FeedsOwned'
  <2>1. /\ orphans' \in [SdkKeys -> Nat]
        /\ \A k \in SdkKeys : orphans'[k] > 0 => k \in shared'
    BY <1>1, <1>2, <1>6 DEF FeedsOwned
  <2>2. ASSUME NEW v \in DOMAIN watchers'
        PROVE  \/ watchers'[v].sdk \in shared'
               \/ \E u \in Traders : /\ phase'[u] = "running" /\ WatcherOf(u) = v
                                     /\ OwnSdk(u) = watchers'[v].sdk
    <3>1. CASE v \in DOMAIN watchers
      <4>1. \A u \in Traders : phase[u] = "running" => phase'[u] = "running"
        BY <1>2
      <4>2. QED
        BY <1>2, <1>5, <1>6, <3>1, <4>1 DEF FeedsOwned
    <3>2. CASE v \notin DOMAIN watchers
      BY <1>2, <1>5, <2>2, <3>2
    <3>3. QED
      BY <3>1, <3>2
  <2>3. ASSUME NEW u \in Traders, phase'[u] = "running", OwnSdk(u) \notin shared'
        PROVE  /\ WatcherOf(u) \in DOMAIN watchers'
               /\ \A v \in DOMAIN watchers' : v = WatcherOf(u) <=> watchers'[v].sdk = OwnSdk(u)
    <3>1. CASE u = t
      <4>1. others = {}
        BY <1>1, <2>3, <3>1
      <4>2. \A v \in DOMAIN watchers : v = w <=> watchers[v].sdk = OwnSdk(t)
        BY <4>1
      <4>3. QED
        BY <1>5, <3>1, <4>2
    <3>2. CASE u # t
      <4>1. /\ WatcherOf(u) \in DOMAIN watchers
            /\ \A v \in DOMAIN watchers : v = WatcherOf(u) <=> watchers[v].sdk = OwnSdk(u)
        BY <1>2, <1>6, <2>3, <3>2 DEF FeedsOwned
      <4>2. CASE w \in DOMAIN watchers
        BY <1>5, <4>1, <4>2
      <4>3. CASE w \notin DOMAIN watchers
        <5>1. OwnSdk(u) # OwnSdk(t)
          <6>1. SUFFICES ASSUME OwnSdk(u) = OwnSdk(t) PROVE FALSE
            OBVIOUS
          <6>2. WatcherOf(u) \in others
            BY <4>1, <4>3, <6>1
          <6>3. QED
            BY <1>1, <2>3, <6>1, <6>2
        <5>2. QED
          BY <1>5, <4>1, <4>3, <5>1
      <4>4. QED
        BY <4>2, <4>3
    <3>3. QED
      BY <3>1, <3>2
  <2>4. QED
    BY <2>1, <2>2, <2>3 DEF FeedsOwned
<1>8. QED
  BY <1>3, <1>4, <1>7 DEF HeardInv

\* The feed of who stops is nobody's, and its exchange counts as shared.
LEMMA StopHeard ==
  ASSUME MockInv, HeardInv, NEW t \in Traders, StopTrader(t) PROVE HeardInv'
<1>1. /\ phase' = [phase EXCEPT ![t] = "off"] /\ shared' = shared \cup {OwnSdk(t)}
      /\ UNCHANGED <<placed, carts, watchers, orphans, heard>>
  BY DEF StopTrader
<1>2. phase'[t] = "off" /\ \A u \in Traders : u # t => phase'[u] = phase[u]
  BY <1>1 DEF MockInv, MockTypeOK
<1>3. OrdersOwned'
  BY <1>1, <1>2, SamePlaced, OrdersStay DEF MockInv, MockTypeOK
<1>4. QueuesTrue' /\ HeardTrue' /\ OrdersHeard'
  BY <1>1, SamePlaced, QuietKeeps DEF MockInv
<1>5. FeedsOwned'
  BY <1>1, <1>2 DEF HeardInv, FeedsOwned
<1>6. QED
  BY <1>3, <1>4, <1>5 DEF HeardInv

\* An order goes to the owner's cart, or away.
LEMMA CreateHeard ==
  ASSUME MockInv, HeardInv, NEW t \in Traders, NEW isMarket \in BOOLEAN,
         CreatePaperOrder(t, isMarket)
  PROVE  HeardInv'
<1> DEFINE k == OwnSdk(t)
           s == Trades[t].symbol
           cart == Cart(k, s)
           id == Len(placed) + 1
           filled == isMarket /\ cart.isReady
           updates == IF filled THEN <<<<id, "open">>, <<id, "closed">>>> ELSE <<<<id, "open">>>>
<1>1. /\ phase[t] = "running" /\ UNCHANGED <<phase, watchers, orphans, heard, shared>>
      /\ \/ /\ sdks[k]
            /\ PlaceOrder(t, "paper", IF filled THEN "closed" ELSE "open")
            /\ carts' = WithCart(k, s, Told(cart, updates))
         \/ /\ ~sdks[k]
            /\ PlaceOrder(t, IF k[2] = NoKey THEN "refused" ELSE "account", "away")
            /\ UNCHANGED carts
  BY DEF CreatePaperOrder
<1>2. k \in SdkKeys /\ s \in Symbols
  BY KeysOfRuntime
<1>3. id \in Nat /\ id \notin DOMAIN placed
  BY DEF MockInv, MockTypeOK
<1>4. FeedsOwned'
  BY <1>1, FeedsStay DEF HeardInv, FeedsOwned
<1>5. ASSUME NEW place \in {"paper", "refused", "account"}, NEW status \in OrderStatuses,
             PlaceOrder(t, place, status)
      PROVE  /\ PlacedGrows /\ OrdersOwned' /\ DOMAIN placed' = DOMAIN placed \cup {id}
             /\ placed'[id].place = place /\ placed'[id].sdk = k /\ placed'[id].symbol = s
             /\ placed'[id].status = status
             /\ \A n \in DOMAIN placed : placed'[n] = placed[n]
  <2> DEFINE o == [who |-> t, sdk |-> OwnSdk(t), symbol |-> Trades[t].symbol,
                   place |-> place, status |-> status]
  <2>1. /\ DOMAIN placed' = DOMAIN placed \cup {id} /\ \A n \in DOMAIN placed : placed'[n] = placed[n]
        /\ placed'[id] = o
    <3>1. o \in PlacedType
      BY <1>2 DEF PlacedType
    <3>2. placed' = Append(placed, o) /\ placed \in Seq(PlacedType)
      BY <1>5 DEF PlaceOrder, MockInv, MockTypeOK
    <3> HIDE DEF o
    <3>3. QED
      BY <3>1, <3>2
  <2>2. /\ placed'[id].who = t /\ placed'[id].place = place /\ placed'[id].sdk = k
        /\ placed'[id].symbol = s /\ placed'[id].status = status
    BY <2>1
  <2>3. PlacedGrows
    BY <2>1 DEF PlacedGrows
  <2> HIDE DEF id, k, s, o
  <2>4. OrdersOwned'
    <3>1. ASSUME NEW n \in DOMAIN placed', NEW u \in Traders, placed'[n].who = u
          PROVE  /\ placed'[n].sdk = OwnSdk(u) /\ placed'[n].symbol = Trades[u].symbol
                 /\ placed'[n].place = "paper" => phase'[u] = "running" \/ OwnSdk(u) \in shared'
      <4>1. CASE n = id
        BY <1>1, <2>2, <3>1, <4>1 DEF k, s
      <4>2. CASE n \in DOMAIN placed
        <5>1. placed'[n] = placed[n]
          BY <2>1, <4>2
        <5>2. QED
          BY <1>1, <3>1, <4>2, <5>1 DEF HeardInv, OrdersOwned
      <4>3. QED
        BY <2>1, <4>1, <4>2
    <3>2. QED
      BY <3>1 DEF OrdersOwned
  <2>5. QED
    BY <2>1, <2>2, <2>3, <2>4
<1> HIDE DEF id, filled, updates
<1>6. CASE /\ sdks[k]
           /\ PlaceOrder(t, "paper", IF filled THEN "closed" ELSE "open")
           /\ carts' = WithCart(k, s, Told(cart, updates))
  <2> DEFINE status == IF filled THEN "closed" ELSE "open"
  <2>1. status \in OrderStatuses /\ status \in {"open", "closed"}
    BY DEF OrderStatuses
  <2>2. /\ updates \in Seq(UpdateType) /\ IsInjective(updates)
        /\ ToSet(updates) = {<<id, "open">>, <<id, status>>}
    <3> DEFINE made == <<id, "open">>
               done == <<id, "closed">>
    <3>1. made \in UpdateType /\ done \in UpdateType /\ made # done
      BY <1>3 DEF UpdateType, OrderStatuses
    <3>2. updates = IF filled THEN <<made, done>> ELSE <<made>>
      BY DEF updates
    <3>3. {<<id, "open">>, <<id, status>>} = IF filled THEN {made, done} ELSE {made}
      OBVIOUS
    <3> HIDE DEF made, done
    <3>4. /\ <<made>> \in Seq(UpdateType) /\ IsInjective(<<made>>) /\ ToSet(<<made>>) = {made}
      BY <3>1 DEF IsInjective, ToSet
    <3>5. /\ <<made, done>> \in Seq(UpdateType) /\ IsInjective(<<made, done>>)
          /\ ToSet(<<made, done>>) = {made, done}
      BY <3>1 DEF IsInjective, ToSet
    <3>6. QED
      BY <3>2, <3>3, <3>4, <3>5
  <2> HIDE DEF status
  <2>3. PlaceOrder(t, "paper", status)
    BY <1>6 DEF status
  <2>4. /\ PlacedGrows /\ OrdersOwned' /\ DOMAIN placed' = DOMAIN placed \cup {id}
        /\ placed'[id].sdk = k /\ placed'[id].symbol = s /\ placed'[id].status = status
        /\ \A n \in DOMAIN placed : placed'[n] = placed[n]
    BY <1>5, <2>1, <2>3
  <2>5. cart \in CartType
    BY <1>2, CartTyped DEF MockInv
  <2> HIDE DEF cart
  <2>6. /\ Told(cart, updates) \in CartType
        /\ Told(cart, updates).orderUpdates = cart.orderUpdates \o updates
    <3>1. Told(cart, updates) \in CartType
      BY <2>2, <2>5, ToldTyped DEF UpdateType
    <3>2. QED
      BY <2>5, <3>1 DEF Told, CartType
  <2> DEFINE new == Told(cart, updates)
  <2> HIDE DEF new, k, s
  <2>7. \A u \in ToSet(updates) : /\ Truthful(u)' /\ placed'[u[1]].sdk = k
                                  /\ placed'[u[1]].symbol = s /\ ~Truthful(u)
    <3> SUFFICES ASSUME NEW u \in {<<id, "open">>, <<id, status>>}
                 PROVE  /\ Truthful(u)' /\ placed'[u[1]].sdk = k
                        /\ placed'[u[1]].symbol = s /\ ~Truthful(u)
      BY <2>2
    <3>1. u[1] = id /\ u[2] \in {"open", status}
      OBVIOUS
    <3>2. QED
      BY <1>3, <2>4, <3>1 DEF Truthful
  <2>8. \A n \in DOMAIN placed' :
          \/ n \in DOMAIN placed /\ placed'[n].status = placed[n].status
          \/ /\ n \notin DOMAIN placed /\ placed'[n].sdk = k
             /\ {<<n, "open">>, <<n, placed'[n].status>>} \subseteq ToSet(updates)
    BY <1>3, <2>2, <2>4
  <2>9. carts' = WithCart(k, s, new) /\ new.orderUpdates = Cart(k, s).orderUpdates \o updates
    BY <1>6, <2>6 DEF new, cart
  <2>10. QueuesTrue' /\ HeardTrue' /\ OrdersHeard'
    <3>1. Tells(k, s, new, updates)
      <4>1. k \in SdkKeys /\ s \in Symbols /\ new \in CartType
        BY <1>2, <2>6 DEF new, k, s
      <4>2. QED
        BY <2>2, <2>7, <2>8, <2>9, <4>1 DEF Tells
    <3>2. QED
      BY <1>1, <2>4, <3>1, TellKeeps DEF MockInv
  <2>11. QED
    BY <1>4, <2>4, <2>10 DEF HeardInv
<1>7. CASE /\ ~sdks[k]
           /\ PlaceOrder(t, IF k[2] = NoKey THEN "refused" ELSE "account", "away")
           /\ UNCHANGED carts
  <2>1. PICK place \in {"refused", "account"} : PlaceOrder(t, place, "away")
    BY <1>7
  <2>2. "away" \in OrderStatuses /\ place \in {"paper", "refused", "account"} /\ place # "paper"
    BY DEF OrderStatuses
  <2>3. /\ PlacedGrows /\ OrdersOwned' /\ DOMAIN placed' = DOMAIN placed \cup {id}
        /\ placed'[id].place = place /\ \A n \in DOMAIN placed : placed'[n] = placed[n]
    BY <1>5, <2>1, <2>2
  <2>4. \A n \in DOMAIN placed' :
           \/ n \in DOMAIN placed /\ placed'[n].status = placed[n].status
           \/ n \notin DOMAIN placed /\ placed'[n].place # "paper"
    BY <2>2, <2>3
  <2>5. QueuesTrue' /\ HeardTrue' /\ OrdersHeard'
    BY <1>1, <1>7, <2>3, <2>4, QuietKeeps DEF MockInv
  <2>6. QED
    BY <1>4, <2>3, <2>5 DEF HeardInv
<1>8. QED
  BY <1>1, <1>6, <1>7

\* An open order ends in its cart's queue.
LEMMA CancelHeard ==
  ASSUME MockInv, HeardInv, NEW id \in DOMAIN placed, CancelPaperOrder(id) PROVE HeardInv'
<1> DEFINE k == placed[id].sdk
           s == placed[id].symbol
           cart == Cart(k, s)
           updates == <<<<id, "canceled">>>>
<1>1. /\ placed[id].status = "open"
      /\ placed' = [placed EXCEPT ![id].status = "canceled"]
      /\ carts' = WithCart(k, s, Told(cart, updates))
      /\ UNCHANGED <<phase, watchers, orphans, heard, shared>>
  BY DEF CancelPaperOrder, Open
<1>2. placed[id] \in PlacedType /\ id \in Nat /\ placed \in Seq(PlacedType)
  BY DEF MockInv, MockTypeOK
<1>3. k \in SdkKeys /\ s \in Symbols
  BY <1>2 DEF PlacedType
<1>4. /\ DOMAIN placed' = DOMAIN placed
      /\ \A n \in DOMAIN placed : n # id => placed'[n] = placed[n]
      /\ placed'[id] = [placed[id] EXCEPT !.status = "canceled"]
  BY <1>1, <1>2
<1>5. /\ placed'[id].who = placed[id].who /\ placed'[id].place = placed[id].place
      /\ placed'[id].sdk = k /\ placed'[id].symbol = s /\ placed'[id].status = "canceled"
  BY <1>2, <1>4 DEF PlacedType
<1>6. PlacedGrows
  BY <1>1, <1>4, <1>5 DEF PlacedGrows
<1>7. OrdersOwned' /\ FeedsOwned'
  BY <1>1, <1>2, <1>4, <1>6, OrdersStay, FeedsStay DEF HeardInv, FeedsOwned
<1>8. /\ updates \in Seq(UpdateType) /\ IsInjective(updates)
      /\ ToSet(updates) = {<<id, "canceled">>}
  <2> DEFINE u == <<id, "canceled">>
  <2>1. u \in UpdateType
    BY <1>2 DEF UpdateType, OrderStatuses
  <2> HIDE DEF u
  <2>2. /\ <<u>> \in Seq(UpdateType) /\ IsInjective(<<u>>) /\ ToSet(<<u>>) = {u}
    BY <2>1 DEF IsInjective, ToSet
  <2>3. QED
    BY <2>2 DEF u
<1> HIDE DEF updates
<1>9. cart \in CartType
  BY <1>3, CartTyped DEF MockInv
<1> DEFINE new == Told(cart, updates)
<1> HIDE DEF cart
<1>10. new \in CartType /\ new.orderUpdates = cart.orderUpdates \o updates
  <2>1. new \in CartType
    BY <1>8, <1>9, ToldTyped DEF UpdateType
  <2>2. QED
    BY <1>9, <2>1 DEF Told, CartType
<1> HIDE DEF new, k, s
<1>11. \A u \in ToSet(updates) : /\ Truthful(u)' /\ placed'[u[1]].sdk = k
                                 /\ placed'[u[1]].symbol = s /\ ~Truthful(u)
  <2> SUFFICES ASSUME NEW u, u = <<id, "canceled">>
               PROVE  /\ Truthful(u)' /\ placed'[u[1]].sdk = k
                      /\ placed'[u[1]].symbol = s /\ ~Truthful(u)
    BY <1>8
  <2>1. u[1] = id /\ u[2] = "canceled"
    OBVIOUS
  <2>2. QED
    BY <1>1, <1>4, <1>5, <2>1 DEF Truthful
<1>12. \A n \in DOMAIN placed' :
         \/ n \in DOMAIN placed /\ placed'[n].status = placed[n].status
         \/ /\ n \in DOMAIN placed /\ placed'[n].sdk = k
            /\ <<n, placed'[n].status>> \in ToSet(updates)
  BY <1>4, <1>5, <1>8
<1>13. carts' = WithCart(k, s, new) /\ new.orderUpdates = Cart(k, s).orderUpdates \o updates
  BY <1>1, <1>10 DEF new, cart, k, s
<1>14. QueuesTrue' /\ HeardTrue' /\ OrdersHeard'
  <2>1. Tells(k, s, new, updates)
    <3>1. k \in SdkKeys /\ s \in Symbols
      BY <1>3 DEF k, s
    <3>2. QED
      BY <1>8, <1>10, <1>11, <1>12, <1>13, <3>1 DEF Tells
  <2>2. QED
    BY <1>1, <1>6, <1>7, <2>1, TellKeeps DEF MockInv
<1>15. QED
  BY <1>7, <1>14 DEF HeardInv

\* So do the orders that a price has reached.
LEMMA TickerHeard ==
  ASSUME MockInv, HeardInv, NEW f \in DOMAIN tickers, Ticker(f) PROVE HeardInv'
<1> DEFINE k == tickers[f]
           s == f[2]
           cart == Cart(k, s)
           open == {id \in DOMAIN placed : Open(id) /\ placed[id].sdk = k /\ placed[id].symbol = s}
<1>1. k \in SdkKeys /\ s \in Symbols /\ placed \in Seq(PlacedType)
  BY DEF MockInv, MockTypeOK
<1>2. PICK reached \in SUBSET open :
        LET filled == IF cart.isReady THEN reached ELSE {}
        IN /\ placed' = [id \in DOMAIN placed |->
                           IF id \in filled THEN [placed[id] EXCEPT !.status = "closed"]
                           ELSE placed[id]]
           /\ carts' = WithCart(k, s, Told(cart, [i \in 1 .. Len(SetToSeq(filled)) |->
                                                    <<SetToSeq(filled)[i], "closed">>]))
  BY DEF Ticker
<1> DEFINE filled == IF cart.isReady THEN reached ELSE {}
           ids == SetToSeq(filled)
           updates == [i \in 1 .. Len(ids) |-> <<ids[i], "closed">>]
<1>3. /\ placed' = [id \in DOMAIN placed |->
                     IF id \in filled THEN [placed[id] EXCEPT !.status = "closed"]
                     ELSE placed[id]]
      /\ carts' = WithCart(k, s, Told(cart, updates))
      /\ UNCHANGED <<phase, watchers, orphans, heard, shared>>
  BY <1>2 DEF Ticker
<1>4. \A id \in filled : /\ id \in DOMAIN placed /\ placed[id].status = "open"
                         /\ placed[id].sdk = k /\ placed[id].symbol = s /\ id \in Nat
  BY <1>1 DEF Open
<1>5. cart \in CartType
  BY <1>1, CartTyped DEF MockInv
<1> HIDE DEF cart, filled
<1>6. IsFiniteSet(filled)
  <2>1. PICK n \in Nat : DOMAIN placed = 1 .. n
    BY <1>1
  <2>2. filled \subseteq 1 .. n
    BY <1>4, <2>1, Zenon
  <2>3. IsFiniteSet(1 .. n)
    BY FS_Interval
  <2>4. QED
    BY <2>2, <2>3, FS_Subset
<1>7. ids \in Seq(filled) /\ IsInjective(ids) /\ ToSet(ids) = filled
  BY <1>6, SetToSeqIsSeq, SetToSeqOnce
<1> HIDE DEF ids, k, s
<1>8. /\ DOMAIN placed' = DOMAIN placed
      /\ \A id \in DOMAIN placed : id \notin filled => placed'[id] = placed[id]
      /\ \A id \in filled : placed'[id] = [placed[id] EXCEPT !.status = "closed"]
  BY <1>3, <1>4
<1>9. ASSUME NEW id \in filled
      PROVE  /\ placed'[id].who = placed[id].who /\ placed'[id].place = placed[id].place
             /\ placed'[id].sdk = k /\ placed'[id].symbol = s /\ placed'[id].status = "closed"
  <2>1. placed[id] \in PlacedType /\ placed[id].sdk = k /\ placed[id].symbol = s
    BY <1>1, <1>4
  <2>2. placed'[id] = [placed[id] EXCEPT !.status = "closed"]
    BY <1>8
  <2>3. QED
    BY <2>1, <2>2 DEF PlacedType
<1>10. PlacedGrows
  BY <1>4, <1>8, <1>9 DEF PlacedGrows
<1>11. OrdersOwned' /\ FeedsOwned'
  BY <1>1, <1>3, <1>8, <1>10, OrdersStay, FeedsStay DEF HeardInv, FeedsOwned
<1>12. /\ updates \in Seq(UpdateType) /\ IsInjective(updates)
       /\ ToSet(updates) = {<<id, "closed">> : id \in filled}
  <2>1. Len(ids) \in Nat /\ DOMAIN ids = 1 .. Len(ids) /\ \A i \in 1 .. Len(ids) : ids[i] \in filled
    BY <1>7
  <2>2. \A i \in 1 .. Len(ids) : <<ids[i], "closed">> \in UpdateType
    BY <1>4, <2>1 DEF UpdateType, OrderStatuses
  <2>3. updates \in Seq(UpdateType)
    BY <2>1, <2>2
  <2>4. IsInjective(updates)
    BY <1>7, <2>1 DEF IsInjective
  <2>5. ToSet(updates) = {<<id, "closed">> : id \in filled}
    BY <1>7, <2>1 DEF ToSet
  <2>6. QED
    BY <2>3, <2>4, <2>5
<1> HIDE DEF updates
<1> DEFINE new == Told(cart, updates)
<1>13. new \in CartType /\ new.orderUpdates = cart.orderUpdates \o updates
  <2>1. new \in CartType
    BY <1>5, <1>12, ToldTyped DEF UpdateType
  <2>2. QED
    BY <1>5, <2>1 DEF Told, CartType
<1> HIDE DEF new
<1>14. \A u \in ToSet(updates) : /\ Truthful(u)' /\ placed'[u[1]].sdk = k
                                 /\ placed'[u[1]].symbol = s /\ ~Truthful(u)
  <2> SUFFICES ASSUME NEW id \in filled, NEW u, u = <<id, "closed">>
               PROVE  /\ Truthful(u)' /\ placed'[u[1]].sdk = k
                      /\ placed'[u[1]].symbol = s /\ ~Truthful(u)
    BY <1>12
  <2>1. u[1] = id /\ u[2] = "closed"
    OBVIOUS
  <2>2. QED
    BY <1>4, <1>8, <1>9, <2>1 DEF Truthful
<1>15. \A n \in DOMAIN placed' :
         \/ n \in DOMAIN placed /\ placed'[n].status = placed[n].status
         \/ /\ n \in DOMAIN placed /\ placed'[n].sdk = k
            /\ <<n, placed'[n].status>> \in ToSet(updates)
  BY <1>8, <1>9, <1>12
<1>16. carts' = WithCart(k, s, new) /\ new.orderUpdates = Cart(k, s).orderUpdates \o updates
  BY <1>3, <1>13 DEF new, cart
<1>17. QueuesTrue' /\ HeardTrue' /\ OrdersHeard'
  <2>1. Tells(k, s, new, updates)
    <3>1. k \in SdkKeys /\ s \in Symbols
      BY <1>1 DEF k, s
    <3>2. QED
      BY <1>12, <1>13, <1>14, <1>15, <1>16, <3>1 DEF Tells
  <2>2. QED
    BY <1>3, <1>10, <1>11, <2>1, TellKeeps DEF MockInv
<1>18. QED
  BY <1>11, <1>17 DEF HeardInv

-----------------------------------------------------------------------------
(* Steps of the feeds.                                                     *)

\* The exchange of a running owner is polled by the feed that it is subscribed to.
LEMMA PollHeard ==
  ASSUME MockInv, HeardInv, NEW w \in DOMAIN watchers, Poll(w) PROVE HeardInv'
<1> DEFINE k == watchers[w].sdk
           T == Subscribed(w)
<1>1. /\ carts' = Emptied(k)
      /\ heard' = [t \in Traders |-> IF t \in T THEN heard[t] \o AllUpdates(k) ELSE heard[t]]
      /\ watchers' = [watchers EXCEPT ![w].polls = T # {}]
      /\ UNCHANGED <<phase, placed, orphans, shared>>
  BY DEF Poll
<1>2. k \in SdkKeys /\ \A v \in DOMAIN watchers : watchers[v] \in WatcherType
  BY DEF MockInv, MockTypeOK, WatcherType
<1>3. T \subseteq Traders
  BY DEF Subscribed
<1>4. \A t \in Traders : phase[t] = "running" /\ OwnSdk(t) = k /\ k \notin shared => t \in T
  BY DEF HeardInv, FeedsOwned, Subscribed
<1>5. DOMAIN watchers' = DOMAIN watchers /\ \A v \in DOMAIN watchers : watchers'[v].sdk = watchers[v].sdk
  <2>1. DOMAIN watchers' = DOMAIN watchers /\ \A v \in DOMAIN watchers : v # w => watchers'[v] = watchers[v]
    BY <1>1
  <2>2. watchers'[w] = [watchers[w] EXCEPT !.polls = T # {}]
    BY <1>1
  <2>3. watchers'[w].sdk = watchers[w].sdk
    BY <1>2, <2>2 DEF WatcherType
  <2>4. QED
    BY <2>1, <2>3
<1>6. OrdersOwned' /\ FeedsOwned'
  BY <1>1, <1>5, SamePlaced, OrdersStay, FeedsStay DEF HeardInv, FeedsOwned, MockInv, MockTypeOK
<1> HIDE DEF k, T
<1>7. QueuesTrue' /\ HeardTrue' /\ OrdersHeard'
  BY <1>1, <1>2, <1>3, <1>4, EmptyKeeps DEF MockInv
<1>8. QED
  BY <1>6, <1>7 DEF HeardInv

\* A dropped feed polls for nobody, at an exchange that is shared.
LEMMA OrphanHeard ==
  ASSUME MockInv, HeardInv, NEW k \in SdkKeys, OrphanPolls(k) PROVE HeardInv'
<1>1. /\ orphans[k] > 0 /\ carts' = Emptied(k) /\ orphans' = [orphans EXCEPT ![k] = @ - 1]
      /\ UNCHANGED <<phase, placed, watchers, heard, shared>>
  BY DEF OrphanPolls
<1>2. k \in shared /\ orphans \in [SdkKeys -> Nat]
  BY <1>1 DEF HeardInv, FeedsOwned
<1>3. orphans' \in [SdkKeys -> Nat] /\ \A j \in SdkKeys : orphans'[j] > 0 => orphans[j] > 0
  <2>1. orphans[k] - 1 \in Nat
    BY <1>1, <1>2
  <2>2. QED
    BY <1>1, <1>2, <2>1
<1>4. OrdersOwned' /\ FeedsOwned'
  BY <1>1, <1>3, SamePlaced, OrdersStay, FeedsStay DEF HeardInv, MockInv, MockTypeOK
<1>5. heard' = [t \in Traders |-> IF t \in {} THEN heard[t] \o AllUpdates(k) ELSE heard[t]]
  <2>1. heard = [t \in Traders |-> heard[t]]
    BY DEF HeardInv, HeardTrue
  <2>2. QED
    BY <1>1, <2>1
<1>6. {} \subseteq Traders
      /\ \A t \in Traders : phase[t] = "running" /\ OwnSdk(t) = k /\ k \notin shared => t \in {}
  BY <1>2
<1>7. QueuesTrue' /\ HeardTrue' /\ OrdersHeard'
  <2> DEFINE none == {}
  <2>1. /\ none \subseteq Traders
        /\ heard' = [t \in Traders |-> IF t \in none THEN heard[t] \o AllUpdates(k) ELSE heard[t]]
        /\ \A t \in Traders : phase[t] = "running" /\ OwnSdk(t) = k /\ k \notin shared => t \in none
    BY <1>5, <1>6
  <2> HIDE DEF none
  <2>2. QED
    BY <1>1, <2>1, EmptyKeeps DEF MockInv
<1>8. QED
  BY <1>4, <1>7 DEF HeardInv

\* A feed that is dropped has no owner, so that its exchange is shared.
LEMMA MonitorHeard ==
  ASSUME MockInv, HeardInv, NEW w \in DOMAIN watchers, MonitorWatcher(w) PROVE HeardInv'
<1> DEFINE k == watchers[w].sdk
<1>1. UNCHANGED <<phase, placed, carts, heard, shared>>
  BY DEF MonitorWatcher
<1>2. QueuesTrue' /\ HeardTrue' /\ OrdersHeard' /\ OrdersOwned'
  BY <1>1, SamePlaced, QuietKeeps, OrdersStay DEF MockInv, MockTypeOK
<1>3. k \in SdkKeys /\ \A v \in DOMAIN watchers : watchers[v] \in WatcherType
  BY DEF MockInv, MockTypeOK, WatcherType
<1>4. FeedsOwned
  BY DEF HeardInv
<1>5. FeedsOwned'
  <2>1. CASE Subscribed(w) # {}
    <3>1. watchers' = [watchers EXCEPT ![w].polls = TRUE] /\ UNCHANGED orphans
      BY <2>1 DEF MonitorWatcher
    <3>2. DOMAIN watchers' = DOMAIN watchers /\ \A v \in DOMAIN watchers : v # w => watchers'[v] = watchers[v]
      BY <3>1
    <3>3. watchers'[w].sdk = watchers[w].sdk
      BY <1>3, <3>1 DEF WatcherType
    <3>4. QED
      BY <1>1, <1>4, <3>1, <3>2, <3>3, FeedsStay DEF FeedsOwned
  <2>2. CASE Subscribed(w) = {}
    <3>1. /\ watchers' = [v \in DOMAIN watchers \ {w} |-> watchers[v]]
          /\ orphans' = IF watchers[w].polls /\ sdks[k] THEN [orphans EXCEPT ![k] = @ + 1]
                        ELSE orphans
      BY <2>2 DEF MonitorWatcher
    <3>2. \A t \in Traders : phase[t] = "running" => WatcherOf(t) # w
      BY <2>2 DEF Subscribed
    <3>3. k \in shared
      BY <1>4, <3>2 DEF FeedsOwned
    <3>4. orphans' \in [SdkKeys -> Nat] /\ \A j \in SdkKeys : orphans'[j] > 0 => j \in shared
      BY <1>3, <1>4, <3>1, <3>3 DEF FeedsOwned
    <3>5. QED
      BY <1>1, <1>4, <3>1, <3>2, <3>4 DEF FeedsOwned
  <2>3. QED
    BY <2>1, <2>2
<1>6. QED
  BY <1>2, <1>5 DEF HeardInv

-----------------------------------------------------------------------------
(* Theorems.                                                               *)

\* The invariant of the updates holds too, however many feeds poll an exchange.
THEOREM HeardInvCorrect == MockSpec => []HeardInv
<1>1. MockInit => HeardInv
  <2> SUFFICES ASSUME MockInit PROVE HeardInv
    OBVIOUS
  <2>1. \A k \in SdkKeys : DOMAIN carts[k] = {}
    BY DEF MockInit
  <2>2. QueuesTrue
    BY <2>1, FS_EmptySet DEF QueuesTrue
  <2>3. HeardTrue
    <3>1. IsInjective(<<>>) /\ ToSet(<<>>) = {} /\ <<>> \in Seq(UpdateType)
      BY DEF IsInjective, ToSet
    <3>2. QED
      BY <3>1 DEF MockInit, HeardTrue
  <2>4. OrdersHeard /\ OrdersOwned
    BY DEF MockInit, OrdersHeard, OrdersOwned
  <2>5. FeedsOwned
    BY DEF MockInit, FeedsOwned
  <2>6. QED
    BY <2>2, <2>3, <2>4, <2>5 DEF HeardInv
<1>2. MockInv /\ HeardInv /\ [MockNext]_mockVars => HeardInv'
  <2> SUFFICES ASSUME MockInv, HeardInv, [MockNext]_mockVars PROVE HeardInv'
    OBVIOUS
  <2>1. ASSUME NEW t \in Traders,
               RegisterTrader(t) \/ UpdateArgs(t) \/ SubscribeTrader(t) \/ StopTrader(t)
        PROVE  HeardInv'
    BY <2>1, RegisterHeard, UpdateArgsHeard, SubscribeHeard, StopHeard
  <2>2. ASSUME NEW t \in Traders, NEW isMarket \in BOOLEAN, CreatePaperOrder(t, isMarket)
        PROVE  HeardInv'
    BY <2>2, CreateHeard
  <2>3. ASSUME NEW id \in DOMAIN placed, CancelPaperOrder(id) PROVE HeardInv'
    BY <2>3, CancelHeard
  <2>4. ASSUME NEW w \in DOMAIN watchers, Poll(w) \/ MonitorWatcher(w) PROVE HeardInv'
    BY <2>4, PollHeard, MonitorHeard
  <2>5. ASSUME NEW f \in DOMAIN tickers, Ticker(f) PROVE HeardInv'
    BY <2>5, TickerHeard
  <2>6. ASSUME NEW k \in SdkKeys, OrphanPolls(k) PROVE HeardInv'
    BY <2>6, OrphanHeard
  <2>7. ASSUME UNCHANGED <<phase, placed, carts, watchers, orphans, heard, shared>>
        PROVE  HeardInv'
    <3>1. QueuesTrue' /\ HeardTrue' /\ OrdersHeard' /\ OrdersOwned'
      BY <2>7, SamePlaced, QuietKeeps, OrdersStay DEF MockInv, MockTypeOK
    <3>2. FeedsOwned'
      BY <2>7 DEF HeardInv, FeedsOwned
    <3>3. QED
      BY <3>1, <3>2 DEF HeardInv
  <2>8. ASSUME NEW f \in DOMAIN tickers, DropTicker(f) PROVE HeardInv'
    BY <2>7, <2>8 DEF DropTicker
  <2>9. CASE UNCHANGED mockVars
    BY <2>7, <2>9 DEF mockVars
  <2>10. QED
    BY <2>1, <2>2, <2>3, <2>4, <2>5, <2>6, <2>8, <2>9 DEF MockNext
<1>3. QED
  BY <1>1, <1>2, MockInvCorrect, PTL DEF MockSpec

\* However feeds share and poll a paper exchange, are dropped and made anew: no script
\* hears an update twice, and one whose feed has its exchange to itself misses none.
THEOREM UpdatesHeardOnceCorrect == MockSpec => []UpdatesHeardOnce
<1>1. HeardInv => UpdatesHeardOnce
  <2> SUFFICES ASSUME HeardInv, NEW t \in Traders
               PROVE  /\ IsInjective(heard[t])
                      /\ ToSet(heard[t]) \cap Pending(OwnSdk(t)) = {}
                      /\ OwnSdk(t) \notin shared => \A id \in DOMAIN placed :
                           placed[id].who = t /\ placed[id].place = "paper" =>
                             \A status \in {"open", placed[id].status} :
                               <<id, status>> \in ToSet(heard[t]) \cup Pending(OwnSdk(t))
    BY DEF UpdatesHeardOnce
  <2>1. IsInjective(heard[t])
    BY DEF HeardInv, HeardTrue
  <2>2. ToSet(heard[t]) \cap Pending(OwnSdk(t)) = {}
    BY KeysOfRuntime DEF HeardInv, HeardTrue
  <2>3. OwnSdk(t) \notin shared => \A id \in DOMAIN placed :
          placed[id].who = t /\ placed[id].place = "paper" =>
            \A status \in {"open", placed[id].status} :
              <<id, status>> \in ToSet(heard[t]) \cup Pending(OwnSdk(t))
    BY DEF HeardInv, OrdersHeard
  <2>4. QED
    BY <2>1, <2>2, <2>3
<1>2. QED
  BY <1>1, HeardInvCorrect, PTL

-----------------------------------------------------------------------------
(* The service of the runtimes.                                            *)

USE RuntimesFinite, LimitNat, NoProcFresh, NoRuntimeFresh

\* The types the slots of calls and the process flags range over.
LEMMA IdleTypes ==
  /\ IdleRun \in RunCallType
  /\ IdleStop \in StopCallType
  /\ NewProcess \in ProcessType
BY DEF IdleRun, IdleStop, NewProcess, RunCallType, StopCallType, ProcessType, RunPCs

\* Advancing a call of run() keeps its record's type.
LEMMA RunCallAdvances ==
  ASSUME NEW r \in RunCallType, NEW pc \in RunPCs, NEW p \in Procs
  PROVE  [r EXCEPT !.pc = pc, !.p = p] \in RunCallType
BY DEF RunCallType

\* The flags a ScriptProcess sets in init, start and stop.
LEMMA ProcessFlags ==
  ASSUME NEW pr \in ProcessType
  PROVE  /\ [pr EXCEPT !.isInited = TRUE] \in ProcessType
         /\ [pr EXCEPT !.feeds = TRUE] \in ProcessType
         /\ StopProcess(pr) \in ProcessType
BY DEF ProcessType, StopProcess

\* A call that throws or goes on keeps every type.
LEMMA RunThrowsType ==
  ASSUME TypeOK, NEW c \in RunCalls, RunThrows(c) PROVE TypeOK'
BY IdleTypes DEF TypeOK, RunThrows

LEMMA RunGoesType ==
  ASSUME TypeOK, NEW c \in RunCalls, NEW pc \in RunPCs, RunGoes(c, pc) PROVE TypeOK'
<1>1. [runs[c] EXCEPT !.pc = pc] \in RunCallType
  BY DEF TypeOK, RunCallType
<1>2. runs' = [runs EXCEPT ![c] = [runs[c] EXCEPT !.pc = pc]]
  BY DEF RunGoes
<1>3. QED
  BY <1>1, <1>2 DEF TypeOK, RunGoes

\* Deleting entries of the process map keeps its type.
LEMMA DropType ==
  ASSUME TypeOK, NEW ids, Drop(ids)
  PROVE  /\ entry' \in [Runtimes -> Procs \cup {NoProc}]
         /\ isEnabled' \in [Runtimes -> BOOLEAN]
BY DEF TypeOK, Drop

\* The synchronous part of stop() and stopAll() keeps every type but owed's.
LEMMA BeginStopType ==
  ASSUME TypeOK, NEW c \in StopCalls, NEW keys \in SUBSET Runtimes, NEW exit \in BOOLEAN,
         BeginStop(c, keys, exit), owed' \in SUBSET Runtimes
  PROVE  TypeOK'
<1> DEFINE present == {id \in keys : entry[id] # NoProc}
           waiting == {id \in present : AwaitsScript(procs[entry[id]])}
<1>1. /\ entry' \in [Runtimes -> Procs \cup {NoProc}]
      /\ isEnabled' \in [Runtimes -> BOOLEAN]
  <2>1. Drop(present \ waiting)
    BY DEF BeginStop
  <2>2. QED
    BY <2>1, DropType
<1>2. procs' \in [Procs -> ProcessType]
  <2>1. procs' = [p \in Procs |-> IF \E id \in present : entry[id] = p
                                  THEN StopProcess(procs[p]) ELSE procs[p]]
    BY DEF BeginStop
  <2>2. \A p \in Procs : procs[p] \in ProcessType
    BY DEF TypeOK
  <2>3. \A p \in Procs : StopProcess(procs[p]) \in ProcessType
    BY <2>2, ProcessFlags
  <2>4. QED
    BY <2>1, <2>2, <2>3
<1>3. stops' \in [StopCalls -> StopCallType]
  <2>1. stops' = [stops EXCEPT ![c] = [pc |-> "stopping", keys |-> keys,
                                       pending |-> waiting, exit |-> exit]]
    BY DEF BeginStop
  <2>2. [pc |-> "stopping", keys |-> keys, pending |-> waiting, exit |-> exit]
          \in StopCallType
    BY DEF StopCallType
  <2>3. QED
    BY <2>1, <2>2 DEF TypeOK
<1>4. QED
  BY <1>1, <1>2, <1>3 DEF TypeOK, BeginStop

\* Losing the memory leaves the initial values in it.
LEMMA LoseMemoryType ==
  ASSUME TypeOK, LoseMemory, marks' \in SUBSET Runtimes, owed' \in SUBSET Runtimes
  PROVE  TypeOK'
BY IdleTypes DEF TypeOK, LoseMemory

\* Every step of a call of run() keeps every type.
LEMMA RunStepType ==
  ASSUME TypeOK, CallsNamed, NEW c \in RunCalls, RunStep(c) PROVE TypeOK'
<1>1. CASE RunLookup(c)
  BY <1>1, RunThrowsType, RunGoesType DEF RunLookup, RunPCs
<1>2. CASE RunLimit(c)
  BY <1>2, RunThrowsType, RunGoesType DEF RunLimit, RunPCs
<1>3. CASE RunBuild(c)
  <2>1. PICK p \in Procs :
          /\ procs' = [procs EXCEPT ![p] = NewProcess]
          /\ entry' = [entry EXCEPT ![runs[c].id] = p]
          /\ isEnabled' = [isEnabled EXCEPT ![runs[c].id] = FALSE]
          /\ runs' = [runs EXCEPT ![c] = [@ EXCEPT !.pc = "init", !.p = p]]
    BY <1>3 DEF RunBuild
  <2>2. runs' \in [RunCalls -> RunCallType]
    BY <2>1, RunCallAdvances DEF TypeOK, RunPCs
  <2>3. procs' \in [Procs -> ProcessType]
    BY <2>1, IdleTypes DEF TypeOK
  <2>4. QED
    BY <1>3, <2>1, <2>2, <2>3 DEF TypeOK, RunBuild
<1>4. CASE RunInit(c)
  <2>1. runs' \in [RunCalls -> RunCallType]
    <3>1. [runs[c] EXCEPT !.pc = "start"] \in RunCallType
      BY DEF TypeOK, RunCallType, RunPCs
    <3>2. runs' = [runs EXCEPT ![c] = [runs[c] EXCEPT !.pc = "start"]]
      BY <1>4 DEF RunInit
    <3>3. QED
      BY <3>1, <3>2 DEF TypeOK
  <2>2. procs' \in [Procs -> ProcessType]
    BY <1>4, ProcessFlags DEF TypeOK, RunInit
  <2>3. QED
    BY <1>4, <2>1, <2>2 DEF TypeOK, RunInit
<1>5. CASE RunStart(c)
  <2>1. runs' \in [RunCalls -> RunCallType]
    <3>1. [runs[c] EXCEPT !.pc = "mark"] \in RunCallType
      BY DEF TypeOK, RunCallType, RunPCs
    <3>2. runs' = [runs EXCEPT ![c] = [runs[c] EXCEPT !.pc = "mark"]]
      BY <1>5 DEF RunStart
    <3>3. QED
      BY <3>1, <3>2 DEF TypeOK
  <2>2. procs' \in [Procs -> ProcessType]
    BY <1>5, ProcessFlags DEF TypeOK, RunStart
  <2>3. entry' \in [Runtimes -> Procs \cup {NoProc}]
    <3>1. runs[c].p \in Procs \cup {NoProc}
      BY DEF TypeOK, RunCallType
    <3>2. QED
      BY <1>5, <3>1 DEF TypeOK, RunStart
  <2>4. QED
    BY <1>5, <2>1, <2>2, <2>3 DEF TypeOK, RunStart
<1>6. CASE RunFails(c)
  BY <1>6, RunThrowsType DEF RunFails
<1>7. CASE RunMark(c)
  <2>1. marks' \in SUBSET Runtimes
    BY <1>7 DEF TypeOK, RunMark, CallsNamed, Starting
  <2>2. QED
    BY <1>7, <2>1, IdleTypes DEF TypeOK, RunMark
<1>8. QED
  BY <1>1, <1>2, <1>3, <1>4, <1>5, <1>6, <1>7 DEF RunStep

\* Every step of a call of stop() or stopAll() keeps every type.
LEMMA StopStepType ==
  ASSUME TypeOK, NEW c \in StopCalls, StopStep(c) PROVE TypeOK'
<1>1. ASSUME NEW id \in Runtimes, ScriptStopped(c, id) PROVE TypeOK'
  <2>1. [stops[c] EXCEPT !.pending = stops[c].pending \ {id}] \in StopCallType
    BY SMTT(30) DEF TypeOK, StopCallType
  <2>2. stops' = [stops EXCEPT ![c] = [stops[c] EXCEPT !.pending = stops[c].pending \ {id}]]
    BY <1>1 DEF ScriptStopped
  <2>3. stops' \in [StopCalls -> StopCallType]
    BY <2>1, <2>2 DEF TypeOK
  <2>4. QED
    BY <1>1, <2>3, DropType DEF TypeOK, ScriptStopped
<1>2. ASSUME NEW id \in Runtimes, ScriptStopThrows(c, id) PROVE TypeOK'
  <2>1. stops[c].pending \ {id} \in SUBSET Runtimes
    BY DEF TypeOK, StopCallType
  <2>2. [pc |-> "rejected", keys |-> stops[c].keys, exit |-> stops[c].exit,
         pending |-> stops[c].pending \ {id}] \in StopCallType
    BY <2>1 DEF TypeOK, StopCallType
  <2>3. stops' \in [StopCalls -> StopCallType]
    BY <1>2, <2>2 DEF TypeOK, ScriptStopThrows
  <2>4. QED
    BY <1>2, <2>3 DEF TypeOK, ScriptStopThrows
<1>3. CASE StopRejected(c)
  BY <1>3, IdleTypes DEF TypeOK, StopRejected
<1>4. CASE Unmark(c)
  <2>1. marks' \in SUBSET Runtimes
    BY <1>4 DEF TypeOK, Unmark
  <2>2. CASE stops[c].exit
    BY <1>4, <2>1, <2>2, LoseMemoryType DEF Unmark, TypeOK
  <2>3. CASE ~stops[c].exit
    BY <1>4, <2>1, <2>3, IdleTypes DEF Unmark, TypeOK
  <2>4. QED
    BY <2>2, <2>3
<1>5. QED
  BY <1>1, <1>2, <1>3, <1>4 DEF StopStep

\* A new call of run() keeps every type.
LEMMA TakeLockType ==
  ASSUME TypeOK, NEW c \in RunCalls, NEW id \in Runtimes, NEW restore \in BOOLEAN,
         TakeLock(c, id, restore), toRestore' \in SUBSET Runtimes
  PROVE  TypeOK'
BY DEF TypeOK, TakeLock, RunCallType, RunPCs

\* Every step of the engine keeps every type.
LEMMA NextType ==
  ASSUME TypeOK, CallsNamed, [Next]_vars PROVE TypeOK'
<1>1. ASSUME NEW c \in RunCalls, NEW id \in Runtimes, RunCall(c, id) PROVE TypeOK'
  BY <1>1, TakeLockType DEF RunCall, TypeOK
<1>2. ASSUME NEW c \in StopCalls, Sigint(c) PROVE TypeOK'
  <2>1. Keys \in SUBSET Runtimes /\ owed' \in SUBSET Runtimes
    BY <1>2 DEF Sigint, Keys, Enabled
  <2>2. QED
    BY <1>2, <2>1, BeginStopType DEF Sigint
<1>3. ASSUME NEW c \in StopCalls, FatalException(c) PROVE TypeOK'
  <2>1. Keys \in SUBSET Runtimes /\ owed' \in SUBSET Runtimes
    BY <1>3 DEF FatalException, Keys, TypeOK
  <2>2. QED
    BY <1>3, <2>1, BeginStopType DEF FatalException
<1>4. ASSUME NEW c \in StopCalls, NEW id \in Runtimes, StopCall(c, id) PROVE TypeOK'
  <2>1. {id} \in SUBSET Runtimes /\ owed' \in SUBSET Runtimes
    BY <1>4 DEF StopCall, TypeOK
  <2>2. QED
    BY <1>4, <2>1, BeginStopType DEF StopCall
<1>5. ASSUME NEW id \in Runtimes, RemoveRuntime(id) PROVE TypeOK'
  BY <1>5 DEF RemoveRuntime, TypeOK, memory
<1>6. ASSUME NEW id \in Runtimes, ExpireMark(id) PROVE TypeOK'
  BY <1>6 DEF ExpireMark, TypeOK, memory
<1>7. CASE RestoreStep
  <2>1. ASSUME NEW c \in RunCalls, NEW id \in Runtimes, RestoreNext(c, id) PROVE TypeOK'
    <3>1. toRestore' \in SUBSET Runtimes
      BY <2>1 DEF RestoreNext, TypeOK
    <3>2. QED
      BY <2>1, <3>1, TakeLockType DEF RestoreNext
  <2>2. CASE RestoreRefused
    BY <2>2 DEF RestoreRefused, TypeOK, memory
  <2>3. CASE RestoreDone
    BY <2>3 DEF RestoreDone, TypeOK, memory
  <2>4. QED
    BY <1>7, <2>1, <2>2, <2>3 DEF RestoreStep
<1>8. CASE Crash
  <2>1. marks' \in SUBSET Runtimes /\ owed' \in SUBSET Runtimes
    BY <1>8 DEF Crash, Enabled, TypeOK
  <2>2. QED
    BY <1>8, <2>1, LoseMemoryType DEF Crash
<1>9. CASE Boot
  BY <1>9 DEF Boot, TypeOK, memory
<1>10. CASE UNCHANGED vars
  BY <1>10 DEF TypeOK, vars, memory
<1>11. QED
  BY <1>1, <1>2, <1>3, <1>4, <1>5, <1>6, <1>7, <1>8, <1>9, <1>10, RunStepType,
     StopStepType DEF Next
-----------------------------------------------------------------------------
(* The inductive invariant, one lemma per kind of step.                    *)

Core ==
  /\ CallsNamed
  /\ LockHeldByOneRun
  /\ EnabledWithinLimit
  /\ ChecksStillHold
  /\ StartedIsFresh
  /\ EntriesDistinct
  /\ FeedsEnabled
  /\ EnabledHasFeeds

coreVars == <<runIsLocked, runs, entry, isEnabled, procs>>

\* The enabled runtimes are finitely many.
LEMMA EnabledFinite == IsFiniteSet(Enabled) /\ Cardinality(Enabled) \in Nat
BY FS_Subset, FS_CardinalityType DEF Enabled

\* The same after a step.
LEMMA EnabledFiniteNext == IsFiniteSet(Enabled') /\ Cardinality(Enabled') \in Nat
BY FS_Subset, FS_CardinalityType DEF Enabled

\* Disabling entries does not raise the number of enabled ones.
LEMMA FewerEnabled ==
  ASSUME \A id \in Runtimes : isEnabled'[id] => isEnabled[id]
  PROVE  Cardinality(Enabled') <= Cardinality(Enabled)
<1>1. Enabled' \subseteq Enabled
  BY DEF Enabled
<1>2. QED
  BY <1>1, EnabledFinite, FS_Subset

\* Enabling one entry raises it by one at most.
LEMMA OneMoreEnabled ==
  ASSUME NEW r \in Runtimes, \A id \in Runtimes \ {r} : isEnabled'[id] => isEnabled[id]
  PROVE  Cardinality(Enabled') <= Cardinality(Enabled) + 1
<1>1. Enabled' \subseteq Enabled \cup {r}
  BY DEF Enabled
<1>2. /\ IsFiniteSet(Enabled \cup {r})
      /\ Cardinality(Enabled \cup {r}) <= Cardinality(Enabled) + 1
  <2>1. IsFiniteSet(Enabled) /\ Cardinality(Enabled) \in Nat
    BY EnabledFinite
  <2>2. /\ IsFiniteSet(Enabled \cup {r})
        /\ Cardinality(Enabled \cup {r}) =
             IF r \in Enabled THEN Cardinality(Enabled) ELSE Cardinality(Enabled) + 1
    BY <2>1, FS_AddElement
  <2>3. QED
    BY <2>1, <2>2
<1>3. Cardinality(Enabled') <= Cardinality(Enabled \cup {r})
  BY <1>1, <1>2, FS_Subset
<1>4. Cardinality(Enabled \cup {r}) \in Nat
  BY <1>2, FS_CardinalityType
<1>5. QED
  BY <1>2, <1>3, <1>4, EnabledFinite, EnabledFiniteNext

\* A step that leaves the map, the processes and the calls of run() alone.
LEMMA CoreUnchanged ==
  ASSUME Core, UNCHANGED coreVars PROVE Core'
<1>1. Enabled' = Enabled /\ Starting' = Starting
  BY DEF Enabled, Starting, coreVars
<1>2. QED
  BY <1>1 DEF Core, coreVars, CallsNamed, LockHeldByOneRun, EnabledWithinLimit,
     ChecksStillHold, StartedIsFresh, EntriesDistinct, FeedsEnabled, EnabledHasFeeds

\* A new call of run() takes the free lock.
LEMMA CoreTakeLock ==
  ASSUME TypeOK, Core, NEW c \in RunCalls, NEW id \in Runtimes, NEW restore \in BOOLEAN,
         TakeLock(c, id, restore)
  PROVE  Core'
<1>1. runs' = [runs EXCEPT ![c] = [pc |-> "lookup", id |-> id, p |-> NoProc,
                                   restore |-> restore]]
  BY DEF TakeLock
<1>2. /\ runs'[c].pc = "lookup" /\ runs'[c].id = id
      /\ \A d \in RunCalls \ {c} : runs'[d] = runs[d]
  BY <1>1 DEF TypeOK
<1>3. Enabled' = Enabled /\ Starting = {} /\ Starting' = {c}
  BY <1>2 DEF TakeLock, Core, LockHeldByOneRun, Starting, Enabled
<1>4. \A d \in RunCalls : runs'[d].pc \in {"idle", "lookup"}
  BY <1>2, <1>3 DEF Starting
<1>5. UNCHANGED <<entry, isEnabled, procs>> /\ runIsLocked'
  BY DEF TakeLock
<1>6. CallsNamed' /\ LockHeldByOneRun' /\ ChecksStillHold' /\ StartedIsFresh'
  BY <1>2, <1>3, <1>4, <1>5
     DEF CallsNamed, LockHeldByOneRun, ChecksStillHold, StartedIsFresh
<1>7. EnabledWithinLimit' /\ EntriesDistinct' /\ FeedsEnabled' /\ EnabledHasFeeds'
  BY <1>3, <1>5 DEF Core, EnabledWithinLimit, EntriesDistinct, FeedsEnabled, EnabledHasFeeds
<1>8. QED
  BY <1>6, <1>7 DEF Core

\* A call of run() ends, by throwing or by writing its mark.
LEMMA CoreReleaseLock ==
  ASSUME TypeOK, Core, NEW c \in RunCalls, runs[c].pc # "idle",
         ~runIsLocked', runs' = [runs EXCEPT ![c] = IdleRun],
         UNCHANGED <<entry, isEnabled, procs>>
  PROVE  Core'
<1>1. \A d \in RunCalls : runs'[d].pc = "idle"
  BY DEF TypeOK, Core, LockHeldByOneRun, Starting, IdleRun
<1>2. Enabled' = Enabled /\ Starting' = {}
  BY <1>1 DEF Enabled, Starting
<1>3. CallsNamed' /\ LockHeldByOneRun' /\ ChecksStillHold' /\ StartedIsFresh'
  BY <1>1, <1>2 DEF CallsNamed, LockHeldByOneRun, ChecksStillHold, StartedIsFresh
<1>4. EnabledWithinLimit' /\ EntriesDistinct' /\ FeedsEnabled' /\ EnabledHasFeeds'
  BY <1>2 DEF Core, EnabledWithinLimit, EntriesDistinct, FeedsEnabled, EnabledHasFeeds
<1>5. QED
  BY <1>3, <1>4 DEF Core

\* Losing the memory establishes the invariant as Init does.
LEMMA CoreFromNothing ==
  ASSUME LoseMemory PROVE Core'
<1>1. /\ \A c \in RunCalls : runs'[c] = IdleRun
      /\ \A id \in Runtimes : entry'[id] = NoProc /\ ~isEnabled'[id]
      /\ ~runIsLocked'
  BY DEF LoseMemory
<1>2. Enabled' = {} /\ Starting' = {}
  BY <1>1 DEF Enabled, Starting, IdleRun
<1>3. Cardinality({}) = 0
  BY FS_EmptySet
<1>4. CallsNamed' /\ LockHeldByOneRun' /\ EnabledWithinLimit' /\ EnabledHasFeeds'
  BY <1>1, <1>2, <1>3 DEF CallsNamed, LockHeldByOneRun, EnabledWithinLimit, EnabledHasFeeds
<1>5. ChecksStillHold' /\ StartedIsFresh' /\ EntriesDistinct' /\ FeedsEnabled'
  BY <1>1 DEF ChecksStillHold, StartedIsFresh, EntriesDistinct, FeedsEnabled, IdleRun
<1>6. QED
  BY <1>4, <1>5 DEF Core
\* A call of run() passes a check, or goes on to write its mark.
LEMMA CoreGoes ==
  ASSUME TypeOK, Core, NEW c \in RunCalls, NEW pc \in {"limit", "build", "mark"},
         RunGoes(c, pc), runs[c].pc # "idle",
         pc \in {"limit", "build"} => ~isEnabled[runs[c].id],
         pc = "build" => Cardinality(Enabled) < Limit
  PROVE  Core'
<1>1. /\ runs'[c].pc = pc /\ runs'[c].id = runs[c].id
      /\ \A d \in RunCalls \ {c} : runs'[d] = runs[d] /\ runs[d].pc = "idle"
  BY DEF TypeOK, RunCallType, RunGoes, Core, LockHeldByOneRun, Starting
<1>2. Enabled' = Enabled /\ Starting' = Starting /\ c \in Starting
  BY <1>1 DEF Enabled, Starting, RunGoes
<1>3. UNCHANGED <<entry, isEnabled, procs, runIsLocked>>
  BY DEF RunGoes
<1>4. CallsNamed' /\ LockHeldByOneRun'
  BY <1>1, <1>2, <1>3 DEF Core, CallsNamed, LockHeldByOneRun
<1>5. ChecksStillHold' /\ StartedIsFresh'
  BY <1>1, <1>2, <1>3 DEF ChecksStillHold, StartedIsFresh
<1>6. EnabledWithinLimit' /\ EntriesDistinct' /\ FeedsEnabled' /\ EnabledHasFeeds'
  BY <1>2, <1>3 DEF Core, EnabledWithinLimit, EntriesDistinct, FeedsEnabled, EnabledHasFeeds
<1>7. QED
  BY <1>4, <1>5, <1>6 DEF Core

\* register puts a fresh process in the map and starts its init.
LEMMA CoreBuild ==
  ASSUME TypeOK, Core, NEW c \in RunCalls, RunBuild(c) PROVE Core'
<1>1. PICK p \in Procs :
        /\ Garbage(p)
        /\ procs' = [procs EXCEPT ![p] = NewProcess]
        /\ entry' = [entry EXCEPT ![runs[c].id] = p]
        /\ isEnabled' = [isEnabled EXCEPT ![runs[c].id] = FALSE]
        /\ runs' = [runs EXCEPT ![c] = [@ EXCEPT !.pc = "init", !.p = p]]
  BY DEF RunBuild
<1>2. runs[c].pc = "build" /\ c \in Starting /\ UNCHANGED runIsLocked
  BY DEF RunBuild, Starting
<1>3. runs[c].id \in Runtimes /\ ~isEnabled[runs[c].id] /\ Cardinality(Enabled) < Limit
  BY <1>2 DEF Core, CallsNamed, ChecksStillHold
<1>4. /\ runs'[c].pc = "init" /\ runs'[c].id = runs[c].id /\ runs'[c].p = p
      /\ \A d \in RunCalls \ {c} : runs'[d] = runs[d] /\ runs[d].pc = "idle"
  BY <1>1, <1>2 DEF TypeOK, RunCallType, Core, LockHeldByOneRun, Starting
<1>5. /\ isEnabled' = isEnabled
      /\ entry'[runs[c].id] = p
      /\ \A id \in Runtimes \ {runs[c].id} : entry'[id] = entry[id] /\ entry[id] # p
      /\ ~procs'[p].feeds
      /\ \A q \in Procs \ {p} : procs'[q] = procs[q]
  BY <1>1, <1>3 DEF TypeOK, Garbage, NewProcess
<1>6. Enabled' = Enabled /\ Starting' = Starting
  BY <1>2, <1>4, <1>5 DEF Enabled, Starting
<1>7. CallsNamed' /\ LockHeldByOneRun' /\ EnabledWithinLimit'
  BY <1>2, <1>3, <1>4, <1>6 DEF Core, CallsNamed, LockHeldByOneRun, EnabledWithinLimit
<1>8. ChecksStillHold'
  BY <1>3, <1>4, <1>5, <1>6 DEF ChecksStillHold
<1>9. StartedIsFresh'
  BY <1>3, <1>4, <1>5 DEF StartedIsFresh
<1>10. EntriesDistinct'
  BY <1>3, <1>5 DEF Core, EntriesDistinct
<1>11. FeedsEnabled'
  BY <1>3, <1>5 DEF Core, FeedsEnabled
<1>12. EnabledHasFeeds'
  <2>1. SUFFICES ASSUME NEW id \in Enabled
                 PROVE  /\ entry'[id] # NoProc
                        /\ procs'[entry'[id]].isInited
                        /\ procs'[entry'[id]].feeds \/ procs'[entry'[id]].isStopped
    BY <1>6 DEF EnabledHasFeeds
  <2>2. id \in Runtimes \ {runs[c].id} /\ entry[id] \in Procs
    BY <1>3 DEF Enabled, Core, EnabledHasFeeds, TypeOK
  <2>3. entry'[id] = entry[id] /\ procs'[entry[id]] = procs[entry[id]]
    BY <1>5, <2>2
  <2>4. QED
    BY <2>3 DEF Core, EnabledHasFeeds
<1>13. QED
  BY <1>7, <1>8, <1>9, <1>10, <1>11, <1>12 DEF Core

\* The script's init() resolves.
LEMMA CoreInit ==
  ASSUME TypeOK, Core, NEW c \in RunCalls, RunInit(c) PROVE Core'
<1> DEFINE p == runs[c].p
<1>1. runs[c].pc = "init" /\ c \in Starting /\ p \in Procs
  BY DEF RunInit, Starting, Core, CallsNamed
<1>2. /\ runs'[c].pc = "start" /\ runs'[c].id = runs[c].id /\ runs'[c].p = p
      /\ \A d \in RunCalls \ {c} : runs'[d] = runs[d] /\ runs[d].pc = "idle"
  BY <1>1 DEF TypeOK, RunCallType, RunInit, Core, LockHeldByOneRun, Starting
<1>3. /\ procs'[p].isInited
      /\ \A q \in Procs : /\ procs'[q].feeds = procs[q].feeds
                          /\ procs'[q].isStopped = procs[q].isStopped
                          /\ procs[q].isInited => procs'[q].isInited
  BY <1>1 DEF TypeOK, ProcessType, RunInit
<1>4. UNCHANGED <<entry, isEnabled, runIsLocked>> /\ Enabled' = Enabled /\ Starting' = Starting
  BY <1>1, <1>2 DEF RunInit, Enabled, Starting
<1>5. CallsNamed' /\ LockHeldByOneRun' /\ EnabledWithinLimit' /\ EntriesDistinct'
  BY <1>1, <1>2, <1>4
     DEF Core, CallsNamed, LockHeldByOneRun, EnabledWithinLimit, EntriesDistinct
<1>6. ChecksStillHold' /\ StartedIsFresh'
  BY <1>1, <1>2, <1>3, <1>4 DEF Core, ChecksStillHold, StartedIsFresh
<1>7. FeedsEnabled'
  BY <1>3, <1>4 DEF Core, FeedsEnabled
<1>8. EnabledHasFeeds'
  <2>1. \A id \in Enabled : entry[id] \in Procs
    BY DEF Core, EnabledHasFeeds, TypeOK, Enabled
  <2>2. QED
    BY <1>3, <1>4, <2>1 DEF Core, EnabledHasFeeds
<1>9. QED
  BY <1>5, <1>6, <1>7, <1>8 DEF Core

\* The script's run() resolves: feeds, and an enabled entry.
LEMMA CoreStart ==
  ASSUME TypeOK, Core, NEW c \in RunCalls, RunStart(c) PROVE Core'
<1> DEFINE p == runs[c].p
           r == runs[c].id
<1>1. runs[c].pc = "start" /\ c \in Starting /\ p \in Procs /\ r \in Runtimes
  BY DEF RunStart, Starting, Core, CallsNamed
<1>2. /\ runs'[c].pc = "mark" /\ runs'[c].id = r
      /\ \A d \in RunCalls \ {c} : runs'[d] = runs[d] /\ runs[d].pc = "idle"
  BY <1>1 DEF TypeOK, RunCallType, RunStart, Core, LockHeldByOneRun, Starting
<1>3. /\ procs'[p].feeds
      /\ procs'[p].isInited
      /\ \A q \in Procs \ {p} : procs'[q] = procs[q]
  <2>1. procs[p].isInited
    BY <1>1 DEF Core, StartedIsFresh
  <2>2. QED
    BY <1>1, <2>1 DEF TypeOK, ProcessType, RunStart
<1>4. /\ entry'[r] = p /\ isEnabled'[r]
      /\ \A id \in Runtimes \ {r} : /\ entry'[id] = entry[id] /\ entry[id] # p
                                    /\ isEnabled'[id] = isEnabled[id]
  BY <1>1 DEF TypeOK, RunStart, Core, StartedIsFresh
<1>5. UNCHANGED runIsLocked /\ Starting' = Starting
  BY <1>1, <1>2 DEF RunStart, Starting
<1>6. CallsNamed' /\ LockHeldByOneRun'
  BY <1>1, <1>2, <1>5 DEF Core, CallsNamed, LockHeldByOneRun
<1>7. EnabledWithinLimit'
  <2>1. Cardinality(Enabled) < Limit
    BY <1>1 DEF Core, ChecksStillHold
  <2>2. Cardinality(Enabled') <= Cardinality(Enabled) + 1
    BY <1>1, <1>4, OneMoreEnabled
  <2>3. QED
    BY <2>1, <2>2, EnabledFinite, EnabledFiniteNext DEF EnabledWithinLimit
<1>8. ChecksStillHold' /\ StartedIsFresh'
  BY <1>2 DEF ChecksStillHold, StartedIsFresh
<1>9. EntriesDistinct'
  BY <1>4 DEF Core, EntriesDistinct
<1>10. FeedsEnabled'
  BY <1>3, <1>4 DEF Core, FeedsEnabled
<1>11. EnabledHasFeeds'
  <2>1. SUFFICES ASSUME NEW id \in Runtimes, isEnabled'[id]
                 PROVE  /\ entry'[id] # NoProc
                        /\ procs'[entry'[id]].isInited
                        /\ procs'[entry'[id]].feeds \/ procs'[entry'[id]].isStopped
    BY DEF EnabledHasFeeds, Enabled
  <2>2. CASE id = r
    BY <1>1, <1>3, <1>4, <2>2
  <2>3. CASE id # r
    <3>1. id \in Enabled /\ entry[id] \in Procs \ {p}
      BY <1>4, <2>1, <2>3 DEF Enabled, Core, EnabledHasFeeds, TypeOK
    <3>2. QED
      BY <1>3, <1>4, <2>3, <3>1 DEF Core, EnabledHasFeeds
  <2>4. QED
    BY <2>2, <2>3
<1>12. QED
  BY <1>6, <1>7, <1>8, <1>9, <1>10, <1>11 DEF Core

\* Entries are deleted and processes stopped; no call of run() moves.
LEMMA CoreDrop ==
  ASSUME TypeOK, Core, NEW ids, Drop(ids), UNCHANGED <<runs, runIsLocked>>,
         \A p \in Procs :
           /\ procs'[p].isInited = procs[p].isInited
           /\ procs'[p].feeds => procs[p].feeds
           /\ procs[p].feeds \/ procs[p].isStopped => procs'[p].feeds \/ procs'[p].isStopped
  PROVE  Core'
<1>1. \A id \in Runtimes : /\ entry'[id] \in {entry[id], NoProc}
                           /\ id \notin ids => entry'[id] = entry[id]
                           /\ isEnabled'[id] <=> isEnabled[id] /\ id \notin ids
  BY DEF Drop, TypeOK
<1>2. Cardinality(Enabled') <= Cardinality(Enabled)
  BY <1>1, FewerEnabled
<1>3. Starting' = Starting
  BY DEF Starting
<1>4. CallsNamed' /\ LockHeldByOneRun'
  BY <1>3 DEF Core, CallsNamed, LockHeldByOneRun
<1>5. EnabledWithinLimit'
  BY <1>2, EnabledFinite, EnabledFiniteNext DEF Core, EnabledWithinLimit
<1>6. ChecksStillHold'
  <2>1. \A c \in RunCalls : runs[c].pc \in {"limit", "build", "init", "start"} =>
          runs[c].id \in Runtimes /\ ~isEnabled'[runs[c].id]
    BY <1>1 DEF Core, CallsNamed, ChecksStillHold, Starting
  <2>2. \A c \in RunCalls : runs[c].pc \in {"build", "init", "start"} =>
          Cardinality(Enabled') < Limit
    BY <1>2, EnabledFinite, EnabledFiniteNext DEF Core, ChecksStillHold
  <2>3. QED
    BY <2>1, <2>2 DEF ChecksStillHold
<1>7. StartedIsFresh'
  <2>1. SUFFICES ASSUME NEW c \in RunCalls, runs[c].pc \in {"init", "start"}
                 PROVE  /\ ~procs'[runs[c].p].feeds
                        /\ \A id \in Runtimes : entry'[id] = runs[c].p => id = runs[c].id
                        /\ runs[c].pc = "start" => procs'[runs[c].p].isInited
    BY DEF StartedIsFresh
  <2>2. runs[c].p \in Procs /\ runs[c].p # NoProc
    BY <2>1 DEF Core, CallsNamed, Starting
  <2>3. QED
    BY <1>1, <2>1, <2>2 DEF Core, StartedIsFresh
<1>8. EntriesDistinct'
  BY <1>1 DEF Core, EntriesDistinct
<1>9. FeedsEnabled'
  BY <1>1 DEF Core, FeedsEnabled, Drop
<1>10. EnabledHasFeeds'
  <2>1. \A id \in Enabled' : id \in Enabled /\ entry'[id] = entry[id] /\ entry[id] \in Procs
    BY <1>1 DEF Core, EnabledHasFeeds, TypeOK, Enabled
  <2>2. QED
    BY <2>1 DEF Core, EnabledHasFeeds
<1>11. QED
  BY <1>4, <1>5, <1>6, <1>7, <1>8, <1>9, <1>10 DEF Core

\* stop() and stopAll() up to their first await.
LEMMA CoreBeginStop ==
  ASSUME TypeOK, Core, NEW c \in StopCalls, NEW keys, NEW exit, BeginStop(c, keys, exit)
  PROVE  Core'
<1> DEFINE present == {id \in keys : entry[id] # NoProc}
           waiting == {id \in present : AwaitsScript(procs[entry[id]])}
<1>1. Drop(present \ waiting) /\ UNCHANGED <<runs, runIsLocked>>
  BY DEF BeginStop
<1>2. procs' = [p \in Procs |-> IF \E id \in present : entry[id] = p
                                THEN StopProcess(procs[p]) ELSE procs[p]]
  BY DEF BeginStop
<1>3. \A p \in Procs : procs'[p] \in {procs[p], StopProcess(procs[p])}
  BY <1>2
<1>4. ASSUME NEW pr \in ProcessType
      PROVE  /\ StopProcess(pr).isInited = pr.isInited
             /\ StopProcess(pr).feeds => pr.feeds
             /\ StopProcess(pr).isStopped
  BY DEF StopProcess, ProcessType
<1>5. \A p \in Procs :
        /\ procs'[p].isInited = procs[p].isInited
        /\ procs'[p].feeds => procs[p].feeds
        /\ procs[p].feeds \/ procs[p].isStopped => procs'[p].feeds \/ procs'[p].isStopped
  <2>1. \A p \in Procs : procs[p] \in ProcessType
    BY DEF TypeOK
  <2>2. QED
    BY <1>3, <1>4, <2>1
<1>6. QED
  BY <1>1, <1>5, CoreDrop
\* Every step of a call of run().
LEMMA CoreRunStep ==
  ASSUME TypeOK, Core, NEW c \in RunCalls, RunStep(c) PROVE Core'
<1>1. ASSUME RunThrows(c), runs[c].pc # "idle" PROVE Core'
  BY <1>1, CoreReleaseLock DEF RunThrows
<1>2. CASE RunLookup(c)
  <2>1. CASE runs[c].id \notin rows
    BY <1>2, <2>1, CoreGoes DEF RunLookup
  <2>2. CASE runs[c].id \in rows /\ isEnabled[runs[c].id]
    BY <1>1, <1>2, <2>2 DEF RunLookup
  <2>3. CASE runs[c].id \in rows /\ ~isEnabled[runs[c].id]
    BY <1>2, <2>3, CoreGoes DEF RunLookup
  <2>4. QED
    BY <2>1, <2>2, <2>3
<1>3. CASE RunLimit(c)
  <2>1. CASE Cardinality(Enabled) >= Limit
    BY <1>1, <1>3, <2>1 DEF RunLimit
  <2>2. CASE ~(Cardinality(Enabled) >= Limit)
    <3>1. ~isEnabled[runs[c].id]
      BY <1>3 DEF RunLimit, Core, ChecksStillHold
    <3>2. Cardinality(Enabled) < Limit
      BY <2>2, EnabledFinite
    <3>3. QED
      BY <1>3, <2>2, <3>1, <3>2, CoreGoes DEF RunLimit
  <2>3. QED
    BY <2>1, <2>2
<1>4. CASE RunFails(c)
  BY <1>1, <1>4 DEF RunFails
<1>5. CASE RunMark(c)
  BY <1>5, CoreReleaseLock DEF RunMark
<1>6. QED
  BY <1>2, <1>3, <1>4, <1>5, CoreBuild, CoreInit, CoreStart DEF RunStep

\* Every step of a call of stop() or stopAll().
LEMMA CoreStopStep ==
  ASSUME TypeOK, Core, NEW c \in StopCalls, StopStep(c) PROVE Core'
<1>1. ASSUME NEW id \in Runtimes, ScriptStopped(c, id) PROVE Core'
  BY <1>1, CoreDrop DEF ScriptStopped
<1>2. ASSUME NEW id \in Runtimes, ScriptStopThrows(c, id) PROVE Core'
  BY <1>2, CoreUnchanged DEF ScriptStopThrows, coreVars
<1>3. CASE StopRejected(c)
  BY <1>3, CoreUnchanged DEF StopRejected, coreVars
<1>4. CASE Unmark(c)
  BY <1>4, CoreUnchanged, CoreFromNothing DEF Unmark, coreVars
<1>5. QED
  BY <1>1, <1>2, <1>3, <1>4 DEF StopStep

\* Every step of the engine.
LEMMA CoreNext ==
  ASSUME TypeOK, Core, [Next]_vars PROVE Core'
<1>1. ASSUME NEW c \in RunCalls, NEW id \in Runtimes, RunCall(c, id) PROVE Core'
  BY <1>1, CoreTakeLock DEF RunCall
<1>2. ASSUME NEW c \in StopCalls, Sigint(c) \/ FatalException(c) PROVE Core'
  BY <1>2, CoreBeginStop DEF Sigint, FatalException
<1>3. ASSUME NEW c \in StopCalls, NEW id \in Runtimes, StopCall(c, id) PROVE Core'
  BY <1>3, CoreBeginStop DEF StopCall
<1>4. ASSUME NEW id \in Runtimes, RemoveRuntime(id) \/ ExpireMark(id) PROVE Core'
  BY <1>4, CoreUnchanged DEF RemoveRuntime, ExpireMark, memory, coreVars
<1>5. CASE RestoreStep
  <2>1. ASSUME NEW c \in RunCalls, NEW id \in Runtimes, RestoreNext(c, id) PROVE Core'
    BY <2>1, CoreTakeLock DEF RestoreNext
  <2>2. CASE RestoreRefused \/ RestoreDone
    BY <2>2, CoreUnchanged DEF RestoreRefused, RestoreDone, memory, coreVars
  <2>3. QED
    BY <1>5, <2>1, <2>2 DEF RestoreStep
<1>6. CASE Crash
  BY <1>6, CoreFromNothing DEF Crash
<1>7. CASE Boot \/ UNCHANGED vars
  BY <1>7, CoreUnchanged DEF Boot, vars, memory, coreVars
<1>8. QED
  BY <1>1, <1>2, <1>3, <1>4, <1>5, <1>6, <1>7, CoreRunStep, CoreStopStep DEF Next

\* The invariant of which the properties below are consequences.
THEOREM InvariantCorrect == Spec => []IInv
<1>1. IInv <=> TypeOK /\ Core
  BY DEF IInv, Core
<1>2. Init => TypeOK
  BY IdleTypes DEF Init, TypeOK
<1>3. Init => Core
  <2>1. SUFFICES ASSUME Init PROVE Core
    OBVIOUS
  <2>2. Enabled = {} /\ Starting = {} /\ Cardinality({}) = 0
    BY <2>1, FS_EmptySet DEF Init, Enabled, Starting, IdleRun
  <2>3. CallsNamed /\ LockHeldByOneRun /\ EnabledWithinLimit /\ EnabledHasFeeds
    BY <2>1, <2>2 DEF Init, CallsNamed, LockHeldByOneRun, EnabledWithinLimit, EnabledHasFeeds
  <2>4. ChecksStillHold /\ StartedIsFresh /\ EntriesDistinct /\ FeedsEnabled
    BY <2>1 DEF Init, ChecksStillHold, StartedIsFresh, EntriesDistinct, FeedsEnabled, IdleRun
  <2>5. QED
    BY <2>3, <2>4 DEF Core
<1>4. IInv /\ [Next]_vars => IInv'
  <2>1. SUFFICES ASSUME TypeOK, Core, [Next]_vars PROVE TypeOK' /\ Core'
    BY DEF IInv, Core
  <2>2. CallsNamed
    BY <2>1 DEF Core
  <2>3. QED
    BY <2>1, <2>2, NextType, CoreNext
<1>5. Init => IInv
  BY <1>1, <1>2, <1>3
<1>6. QED
  BY <1>4, <1>5, PTL DEF Spec

\* Every variable keeps its type, whatever the clients, the scripts and the
\* environment do.
THEOREM TypeCorrect == Spec => []TypeOK
<1>1. IInv => TypeOK
  BY DEF IInv
<1>2. QED
  BY <1>1, InvariantCorrect, PTL

\* runIsLocked is held exactly while one start is in flight.
THEOREM LockCorrect == Spec => []LockHeldByOneRun
<1>1. IInv => LockHeldByOneRun
  BY DEF IInv
<1>2. QED
  BY <1>1, InvariantCorrect, PTL

\* The enabled entries never exceed the account's limit, although the limit
\* is checked several awaits before an entry is enabled.
THEOREM LimitCorrect == Spec => []EnabledWithinLimit
<1>1. IInv => EnabledWithinLimit
  BY DEF IInv
<1>2. QED
  BY <1>1, InvariantCorrect, PTL

\* An enabled entry's process has its feeds or has been stopped.
THEOREM FeedsCorrect == Spec => []EnabledHasFeeds
<1>1. IInv => EnabledHasFeeds
  BY DEF IInv
<1>2. QED
  BY <1>1, InvariantCorrect, PTL

\* register never overwrites an entry whose process has feeds.
THEOREM ReplacementCorrect == Spec => OnlyIdleProcessReplaced
<1> DEFINE Kept == \A id \in Runtimes :
             entry[id] \in Procs /\ entry'[id] \in Procs /\ entry'[id] # entry[id]
               => ~procs[entry[id]].feeds
<1>1. ASSUME IInv, Next PROVE Kept
  <2> SUFFICES ASSUME NEW id \in Runtimes, entry[id] \in Procs, entry'[id] \in Procs,
                      entry'[id] # entry[id], procs[entry[id]].feeds
               PROVE  FALSE
    OBVIOUS
  <2>1. isEnabled[id]
    BY <1>1 DEF IInv, FeedsEnabled
  <2>2. ASSUME NEW c \in RunCalls, RunBuild(c) \/ RunStart(c) PROVE FALSE
    <3>1. id = runs[c].id
      BY <1>1, <2>2 DEF IInv, TypeOK, RunBuild, RunStart
    <3>2. ~isEnabled[runs[c].id]
      BY <1>1, <2>2 DEF IInv, ChecksStillHold, RunBuild, RunStart
    <3>3. QED
      BY <2>1, <3>1, <3>2
  <2>3. ASSUME NEW c \in RunCalls, RunStep(c), ~RunBuild(c), ~RunStart(c) PROVE FALSE
    BY <2>3 DEF RunStep, RunLookup, RunLimit, RunInit, RunFails, RunMark, RunThrows, RunGoes
  <2>4. ASSUME NEW ids, Drop(ids) PROVE FALSE
    BY <2>4 DEF Drop
  <2>5. ASSUME NEW c \in StopCalls, NEW keys, NEW exit, BeginStop(c, keys, exit) PROVE FALSE
    BY <2>4, <2>5 DEF BeginStop
  <2>6. ASSUME LoseMemory PROVE FALSE
    BY <2>6 DEF LoseMemory
  <2>7. ASSUME NEW c \in StopCalls, StopStep(c) PROVE FALSE
    BY <2>4, <2>6, <2>7 DEF StopStep, ScriptStopped, ScriptStopThrows, StopRejected, Unmark
  <2>8. ASSUME NEW c \in RunCalls, NEW r, RunCall(c, r) \/ RestoreNext(c, r) PROVE FALSE
    BY <2>8 DEF RunCall, RestoreNext, TakeLock
  <2>9. ASSUME RestoreRefused \/ RestoreDone \/ Boot \/ Crash PROVE FALSE
    BY <2>6, <2>9 DEF RestoreRefused, RestoreDone, Boot, Crash, memory
  <2>10. ASSUME NEW r, RemoveRuntime(r) \/ ExpireMark(r) PROVE FALSE
    BY <2>10 DEF RemoveRuntime, ExpireMark, memory
  <2>11. QED
    BY <1>1, <2>2, <2>3, <2>5, <2>7, <2>8, <2>9, <2>10
       DEF Next, RestoreStep, StopCall, Sigint, FatalException
<1>2. IInv /\ [Next]_vars => [Kept]_vars
  BY <1>1
<1>3. QED
  BY <1>2, InvariantCorrect, PTL DEF Spec, OnlyIdleProcessReplaced

-----------------------------------------------------------------------------
(* The service implements the registry of running runtimes.                *)

\* A step that enables nothing is a stop of the registry, or a stutter.
LEMMA NothingEnabled ==
  ASSUME \A id \in Runtimes : isEnabled'[id] => isEnabled[id]
  PROVE  [Registry!Next]_Enabled
<1>1. Enabled' \subseteq Enabled
  BY DEF Enabled
<1>2. Enabled \ Enabled' \in SUBSET Enabled /\ Enabled' = Enabled \ (Enabled \ Enabled')
  BY <1>1
<1>3. QED
  BY <1>2 DEF Registry!Next, Registry!Stop

\* Runtimes start only while the limit allows it, and stop: what the detailed
\* service does to the enabled entries is what the registry promises.
THEOREM ImplementsRegistry == Spec => RegistrySpec
<1>1. Init => Registry!Init
  BY DEF Init, Registry!Init, Enabled
<1>2. ASSUME IInv, Next PROVE [Registry!Next]_Enabled
  <2>1. ASSUME NEW c \in RunCalls, RunStart(c) PROVE [Registry!Next]_Enabled
    <3>1. /\ runs[c].id \in Runtimes
          /\ ~isEnabled[runs[c].id]
          /\ Cardinality(Enabled) < Limit
      BY <1>2, <2>1 DEF IInv, CallsNamed, ChecksStillHold, Starting, RunStart
    <3>2. isEnabled' = [isEnabled EXCEPT ![runs[c].id] = TRUE]
      BY <2>1 DEF RunStart
    <3>3. Enabled' = Enabled \cup {runs[c].id} /\ runs[c].id \notin Enabled
      BY <1>2, <3>1, <3>2 DEF IInv, TypeOK, Enabled
    <3>4. Registry!Cardinality(Enabled) = Cardinality(Enabled)
      BY DEF Registry!Cardinality, Cardinality
    <3>5. Registry!Start(runs[c].id)
      BY <3>1, <3>3, <3>4 DEF Registry!Start
    <3>6. QED
      BY <3>1, <3>5 DEF Registry!Next
  <2>2. ASSUME NEW c \in RunCalls, RunStep(c), ~RunStart(c) PROVE [Registry!Next]_Enabled
    <3>1. \A id \in Runtimes : isEnabled'[id] => isEnabled[id]
      <4>1. CASE RunBuild(c)
        <5>1. isEnabled \in [Runtimes -> BOOLEAN]
          BY <1>2 DEF IInv, TypeOK
        <5>2. isEnabled' = [isEnabled EXCEPT ![runs[c].id] = FALSE]
          BY <4>1 DEF RunBuild
        <5>3. QED
          BY <5>1, <5>2
      <4>2. CASE ~RunBuild(c)
        <5>1. isEnabled' = isEnabled
          BY <2>2, <4>2 DEF RunStep, RunLookup, RunLimit, RunInit, RunFails, RunMark,
             RunThrows, RunGoes
        <5>2. QED
          BY <5>1
      <4>3. QED
        BY <4>1, <4>2
    <3>2. QED
      BY <3>1, NothingEnabled
  <2>3. ASSUME UNCHANGED isEnabled \/ LoseMemory \/ \E ids : Drop(ids)
        PROVE  [Registry!Next]_Enabled
    <3>1. \A id \in Runtimes : isEnabled'[id] => isEnabled[id]
      BY <2>3 DEF LoseMemory, Drop
    <3>2. QED
      BY <3>1, NothingEnabled
  <2>4. ASSUME NEW c \in StopCalls, NEW keys, NEW exit, BeginStop(c, keys, exit)
        PROVE  \E ids : Drop(ids)
    BY <2>4 DEF BeginStop
  <2>5. ASSUME NEW c \in StopCalls, StopStep(c) PROVE [Registry!Next]_Enabled
    BY <2>3, <2>5 DEF StopStep, ScriptStopped, ScriptStopThrows, StopRejected, Unmark
  <2>6. ASSUME NEW c \in RunCalls, NEW r, RunCall(c, r) \/ RestoreNext(c, r)
        PROVE  [Registry!Next]_Enabled
    BY <2>3, <2>6 DEF RunCall, RestoreNext, TakeLock
  <2>7. ASSUME RestoreRefused \/ RestoreDone \/ Boot \/ Crash PROVE [Registry!Next]_Enabled
    BY <2>3, <2>7 DEF RestoreRefused, RestoreDone, Boot, Crash, memory
  <2>8. ASSUME NEW r, RemoveRuntime(r) \/ ExpireMark(r) PROVE [Registry!Next]_Enabled
    BY <2>3, <2>8 DEF RemoveRuntime, ExpireMark, memory
  <2>9. ASSUME NEW c \in StopCalls, NEW r, StopCall(c, r) \/ Sigint(c) \/ FatalException(c)
        PROVE  [Registry!Next]_Enabled
    BY <2>3, <2>4, <2>9 DEF StopCall, Sigint, FatalException
  <2>10. QED
    BY <1>2, <2>1, <2>2, <2>5, <2>6, <2>7, <2>8, <2>9 DEF Next, RestoreStep
<1>3. UNCHANGED vars => UNCHANGED Enabled
  BY DEF vars, memory, Enabled
<1>4. IInv /\ [Next]_vars => [Registry!Next]_Enabled
  BY <1>2, <1>3
<1>5. QED
  BY <1>1, <1>4, InvariantCorrect, PTL DEF Spec, RegistrySpec, Registry!Spec
-----------------------------------------------------------------------------
(* Calls that keep out of each other's way.  That no process is orphaned   *)
(* and that marks are kept hold only while no call about a runtime begins  *)
(* before the one before it has ended; stopAll is about every runtime, so  *)
(* it must not happen either.                                              *)

Alone == ~Overlap /\ "sigint" \notin Events /\ "fatal" \notin Events

\* Of a runtime there is one call at a time, or a boot has still to run it.
CallsApart ==
  /\ \A c \in RunCalls, d \in StopCalls : runs[c].id \notin stops[d].keys
  /\ \A d, e \in StopCalls : d # e => stops[d].keys \cap stops[e].keys = {}
  /\ \A id \in toRestore : /\ \A c \in RunCalls : runs[c].id # id
                           /\ \A d \in StopCalls : id \notin stops[d].keys
  /\ \A d \in StopCalls : /\ stops[d].pending \subseteq stops[d].keys
                          /\ stops[d].pc = "idle" => stops[d].keys = {}

OffIsIdle ==
  mode = "off" => /\ \A c \in RunCalls : runs[c] = IdleRun
                  /\ \A d \in StopCalls : stops[d] = IdleStop

\* Neither a process with feeds nor one that is being started has been stopped.
NoneStopped ==
  /\ \A p \in Running : ~procs[p].isStopped
  /\ \A c \in RunCalls : runs[c].pc \in {"init", "start"} => ~procs[runs[c].p].isStopped

\* What a stop waits for has no feeds any more, and what it does not wait for is down.
StopsWork ==
  \A d \in StopCalls :
    /\ \A id \in stops[d].pending : entry[id] \in Procs => ~procs[entry[id]].feeds
    /\ stops[d].pc = "stopping" =>
         \A id \in stops[d].keys \ stops[d].pending : ~isEnabled[id]

Marked ==
  \A id \in Enabled : \/ id \in marks
                      \/ \E c \in RunCalls : runs[c].id = id /\ runs[c].pc = "mark"

ApartInv ==
  /\ IInv
  /\ CallsApart
  /\ OffIsIdle
  /\ NoneStopped
  /\ StopsWork
  /\ NoOrphanProcess

\* A step of a start ends its call or goes on with it.
LEMMA RunStepCall ==
  ASSUME TypeOK, NEW c \in RunCalls, RunStep(c)
  PROVE  /\ \A d \in RunCalls : runs'[d].id = runs[d].id \/ runs'[d] = IdleRun
         /\ \A d \in RunCalls \ {c} : runs'[d] = runs[d]
         /\ runs[c].pc # "idle"
         /\ UNCHANGED <<mode, stops, rows>>
         /\ toRestore' \subseteq toRestore
<1>1. runs \in [RunCalls -> RunCallType]
  BY DEF TypeOK
<1>2. CASE runs' = [runs EXCEPT ![c] = IdleRun]
  BY <1>1, <1>2 DEF RunStep, RunLookup, RunLimit, RunBuild, RunInit, RunStart, RunFails,
     RunMark, RunGoes, RunThrows
<1>3. ASSUME NEW pc, NEW p, runs' = [runs EXCEPT ![c] = [runs[c] EXCEPT !.pc = pc, !.p = p]]
      PROVE  \A d \in RunCalls : /\ runs'[d].id = runs[d].id
                                 /\ d # c => runs'[d] = runs[d]
  BY <1>1, <1>3 DEF RunCallType
<1>4. ASSUME NEW pc, runs' = [runs EXCEPT ![c].pc = pc]
      PROVE  \A d \in RunCalls : /\ runs'[d].id = runs[d].id
                                 /\ d # c => runs'[d] = runs[d]
  BY <1>1, <1>4 DEF RunCallType
<1>5. /\ runs[c].pc # "idle"
      /\ UNCHANGED <<mode, stops, rows>>
      /\ toRestore' \subseteq toRestore
  BY DEF RunStep, RunLookup, RunLimit, RunBuild, RunInit, RunStart, RunFails, RunMark,
     RunGoes, RunThrows
<1>6. \/ runs' = [runs EXCEPT ![c] = IdleRun]
      \/ \E pc, p : runs' = [runs EXCEPT ![c] = [runs[c] EXCEPT !.pc = pc, !.p = p]]
      \/ \E pc : runs' = [runs EXCEPT ![c].pc = pc]
  BY DEF RunStep, RunLookup, RunLimit, RunBuild, RunInit, RunStart, RunFails, RunMark,
     RunGoes, RunThrows
<1>7. CASE runs' = [runs EXCEPT ![c] = IdleRun]
  BY <1>1, <1>5, <1>7
<1>8. QED
  BY <1>3, <1>4, <1>5, <1>6, <1>7

\* A start keeps its place among the calls.
LEMMA ApartRunStep ==
  ASSUME TypeOK, CallsApart, OffIsIdle, NEW c \in RunCalls, RunStep(c)
  PROVE  CallsApart' /\ OffIsIdle'
<1>1. /\ \A d \in RunCalls : runs'[d].id = runs[d].id \/ runs'[d] = IdleRun
      /\ runs[c].pc # "idle"
      /\ mode' = mode /\ stops' = stops
      /\ toRestore' \subseteq toRestore
  BY RunStepCall
<1>2. \A d \in StopCalls : stops[d].keys \subseteq Runtimes
  BY DEF TypeOK, StopCallType
<1>3. IdleRun.id = NoRuntime /\ IdleRun.pc = "idle" /\ toRestore \subseteq Runtimes
  BY DEF IdleRun, TypeOK
<1>4. CallsApart'
  BY <1>1, <1>2, <1>3 DEF CallsApart
<1>5. mode # "off"
  BY <1>1, <1>3 DEF OffIsIdle
<1>6. QED
  BY <1>1, <1>4, <1>5 DEF OffIsIdle

\* A new start is about a runtime that no call and no boot is about.
LEMMA ApartTakeLock ==
  ASSUME TypeOK, CallsApart, OffIsIdle, NEW c \in RunCalls, NEW id \in Runtimes,
         NEW restore, TakeLock(c, id, restore), mode # "off",
         toRestore' \subseteq toRestore, id \notin toRestore',
         \A d \in StopCalls : id \notin stops[d].keys
  PROVE  CallsApart' /\ OffIsIdle'
<1>1. runs' = [runs EXCEPT ![c] = [pc |-> "lookup", id |-> id, p |-> NoProc,
                                   restore |-> restore]]
  BY DEF TakeLock
<1>2. /\ runs'[c].id = id
      /\ \A d \in RunCalls \ {c} : runs'[d] = runs[d]
      /\ UNCHANGED <<mode, stops>>
  BY <1>1 DEF TypeOK, TakeLock
<1>3. QED
  BY <1>2 DEF CallsApart, OffIsIdle

\* So is a new stop.
LEMMA ApartBeginStop ==
  ASSUME TypeOK, CallsApart, OffIsIdle, NEW c \in StopCalls, NEW id \in Runtimes,
         BeginStop(c, {id}, FALSE), mode # "off", ~AboutRun(id), ~AboutStop(id),
         id \notin toRestore
  PROVE  CallsApart' /\ OffIsIdle'
<1> DEFINE waiting == {i \in {i \in {id} : entry[i] # NoProc} :
                         AwaitsScript(procs[entry[i]])}
<1>1. stops' = [stops EXCEPT ![c] = [pc |-> "stopping", keys |-> {id},
                                     pending |-> waiting, exit |-> FALSE]]
  BY DEF BeginStop
<1>2. /\ stops'[c].keys = {id} /\ stops'[c].pending = waiting
      /\ stops'[c].pc = "stopping"
      /\ \A d \in StopCalls \ {c} : stops'[d] = stops[d]
      /\ UNCHANGED <<mode, toRestore, runs>>
  BY <1>1 DEF TypeOK, BeginStop
<1>3. /\ \A d \in RunCalls : runs[d].id # id
      /\ \A d \in StopCalls : id \notin stops[d].keys
  BY DEF AboutRun, AboutStop, CallsApart
<1>4. waiting \subseteq {id}
  OBVIOUS
<1> HIDE DEF waiting
<1>5. QED
  BY <1>2, <1>3, <1>4 DEF CallsApart, OffIsIdle

\* A stop goes on, or ends and takes its keys with it.
LEMMA ApartStopStep ==
  ASSUME TypeOK, CallsApart, OffIsIdle, NEW c \in StopCalls, StopStep(c), ~LoseMemory
  PROVE  CallsApart' /\ OffIsIdle'
<1>1. \/ \E id \in Runtimes : stops' = [stops EXCEPT ![c].pending = @ \ {id}]
      \/ \E id \in Runtimes :
           stops' = [stops EXCEPT ![c] = [pc |-> "rejected", keys |-> @.keys,
                                          exit |-> @.exit, pending |-> @.pending \ {id}]]
      \/ stops' = [stops EXCEPT ![c] = IdleStop]
  BY DEF StopStep, ScriptStopped, ScriptStopThrows, StopRejected, Unmark
<1>2. UNCHANGED <<mode, toRestore, runs>>
  BY DEF StopStep, ScriptStopped, ScriptStopThrows, StopRejected, Unmark
<1>3. mode # "off"
  <2>1. stops[c].pc # "idle" \/ stops[c].pending # {}
    BY DEF StopStep, ScriptStopped, ScriptStopThrows, StopRejected, Unmark
  <2>2. IdleStop.pc = "idle" /\ IdleStop.pending = {}
    BY DEF IdleStop
  <2>3. QED
    BY <2>1, <2>2 DEF OffIsIdle
<1>4. stops \in [StopCalls -> StopCallType] /\ stops[c] \in StopCallType
  BY DEF TypeOK
<1> DEFINE Shrinks == /\ \A d \in StopCalls \ {c} : stops'[d] = stops[d]
                      /\ stops'[c].keys \subseteq stops[c].keys
                      /\ stops'[c].pending \subseteq stops'[c].keys
                      /\ stops'[c].pc = "idle" => stops'[c].keys = {}
<1>5. Shrinks
  <2>1. ASSUME NEW id \in Runtimes, stops' = [stops EXCEPT ![c].pending = @ \ {id}]
        PROVE  Shrinks
    BY <1>4, <2>1 DEF CallsApart, StopCallType
  <2>2. ASSUME NEW id \in Runtimes,
               stops' = [stops EXCEPT ![c] = [pc |-> "rejected", keys |-> @.keys,
                                          exit |-> @.exit, pending |-> @.pending \ {id}]]
        PROVE  Shrinks
    BY <1>4, <2>2 DEF CallsApart, StopCallType
  <2>3. CASE stops' = [stops EXCEPT ![c] = IdleStop]
    BY <1>4, <2>3 DEF IdleStop
  <2>4. QED
    BY <1>1, <2>1, <2>2, <2>3
<1>6. CallsApart'
  BY <1>2, <1>5 DEF CallsApart
<1>7. QED
  BY <1>2, <1>3, <1>6 DEF OffIsIdle

\* With the memory all calls are lost.
LEMMA ApartLoseMemory ==
  ASSUME TypeOK, LoseMemory PROVE CallsApart' /\ OffIsIdle'
<1>1. /\ \A c \in RunCalls : runs'[c] = IdleRun
      /\ \A d \in StopCalls : stops'[d] = IdleStop
      /\ toRestore' = {}
  BY DEF LoseMemory
<1>2. IdleStop.keys = {} /\ IdleStop.pending = {}
  BY DEF IdleStop
<1>3. QED
  BY <1>1, <1>2 DEF CallsApart, OffIsIdle

Processes == NoneStopped /\ StopsWork /\ NoOrphanProcess

\* A start builds, initialises and feeds a process that nobody stops on the way.
LEMMA ProcessesRunStep ==
  ASSUME IInv, CallsApart, Processes, NEW c \in RunCalls, RunStep(c)
  PROVE  Processes'
<1> DEFINE id == runs[c].id
           q == runs[c].p
<1>1. /\ runs \in [RunCalls -> RunCallType]
      /\ entry \in [Runtimes -> Procs \cup {NoProc}]
      /\ isEnabled \in [Runtimes -> BOOLEAN]
      /\ procs \in [Procs -> ProcessType]
      /\ stops \in [StopCalls -> StopCallType]
  BY DEF IInv, TypeOK
<1>2. /\ \A d \in StopCalls : /\ stops[d].keys \subseteq Runtimes
                              /\ stops[d].pending \subseteq stops[d].keys
                              /\ id \notin stops[d].keys
  BY <1>1 DEF StopCallType, CallsApart
<1>3. \A d \in RunCalls \ {c} : runs'[d] = runs[d]
  BY RunStepCall DEF IInv
<1>4. stops' = stops
  BY RunStepCall DEF IInv
<1>5. runs[c].pc # "idle" => id \in Runtimes
  BY DEF IInv, CallsNamed, Starting
<1>6. CASE RunBuild(c)
  <2>1. PICK p \in Procs :
          /\ Garbage(p)
          /\ procs' = [procs EXCEPT ![p] = NewProcess]
          /\ entry' = [entry EXCEPT ![id] = p]
          /\ isEnabled' = [isEnabled EXCEPT ![id] = FALSE]
          /\ runs' = [runs EXCEPT ![c] = [runs[c] EXCEPT !.pc = "init", !.p = p]]
    BY <1>6 DEF RunBuild
  <2>2. id \in Runtimes /\ ~isEnabled[id]
    BY <1>5, <1>6 DEF IInv, ChecksStillHold, RunBuild
  <2>3. /\ procs'[p] = NewProcess /\ \A r \in Procs \ {p} : procs'[r] = procs[r]
        /\ entry'[id] = p /\ \A i \in Runtimes \ {id} : entry'[i] = entry[i]
        /\ \A i \in Runtimes : isEnabled'[i] = isEnabled[i]
        /\ runs'[c].p = p
    BY <1>1, <2>1, <2>2 DEF RunCallType
  <2>4. /\ ~procs[p].feeds
        /\ \A i \in Runtimes : entry[i] # p
        /\ \A d \in RunCalls : runs[d].p # p
    BY <2>1 DEF Garbage
  <2>5. ~NewProcess.feeds /\ ~NewProcess.isStopped
    BY DEF NewProcess
  <2>6. NoneStopped'
    <3>1. \A r \in Running' : ~procs'[r].isStopped
      BY <2>3, <2>5 DEF Processes, NoneStopped, Running
    <3>2. \A d \in RunCalls : runs[d].pc \in {"init", "start"} => runs[d].p \in Procs
      BY DEF IInv, CallsNamed, Starting
    <3>3. \A d \in RunCalls : runs'[d].pc \in {"init", "start"} => ~procs'[runs'[d].p].isStopped
      BY <1>3, <2>3, <2>4, <2>5, <3>2 DEF Processes, NoneStopped
    <3>4. QED
      BY <3>1, <3>3 DEF NoneStopped
  <2>7. StopsWork'
    BY <1>2, <1>4, <2>3, <2>4 DEF Processes, StopsWork
  <2>8. NoOrphanProcess'
    BY <2>2, <2>3, <2>4, <2>5 DEF Processes, NoOrphanProcess, Running, Enabled
  <2>9. QED
    BY <2>6, <2>7, <2>8 DEF Processes
<1>7. CASE RunInit(c)
  <2>1. /\ \A r \in Procs : /\ procs'[r].feeds = procs[r].feeds
                            /\ procs'[r].isStopped = procs[r].isStopped
        /\ UNCHANGED <<entry, isEnabled>>
    BY <1>1, <1>7 DEF RunInit, ProcessType
  <2>2. runs'[c].p = q /\ runs[c].pc = "init"
    BY <1>1, <1>7 DEF RunInit, RunCallType
  <2>3. \A d \in RunCalls : runs[d].pc \in {"init", "start"} => runs[d].p \in Procs
    BY DEF IInv, CallsNamed, Starting
  <2>4. NoneStopped'
    BY <1>3, <2>1, <2>2, <2>3 DEF Processes, NoneStopped, Running
  <2>5. StopsWork'
    BY <1>1, <1>4, <2>1 DEF Processes, StopsWork
  <2>6. NoOrphanProcess'
    BY <2>1 DEF Processes, NoOrphanProcess, Running, Enabled
  <2>7. QED
    BY <2>4, <2>5, <2>6 DEF Processes
<1>8. CASE RunStart(c)
  <2>1. /\ id \in Runtimes /\ q \in Procs /\ ~isEnabled[id] /\ ~procs[q].isStopped
        /\ \A i \in Runtimes : entry[i] = q => i = id
    BY <1>8 DEF IInv, CallsNamed, Starting, ChecksStillHold, StartedIsFresh, Processes,
                NoneStopped, RunStart
  <2>2. /\ procs'[q].feeds /\ procs'[q].isStopped = procs[q].isStopped
        /\ \A r \in Procs \ {q} : procs'[r] = procs[r]
        /\ entry'[id] = q /\ \A i \in Runtimes \ {id} : entry'[i] = entry[i]
        /\ isEnabled'[id] /\ \A i \in Runtimes \ {id} : isEnabled'[i] = isEnabled[i]
    BY <1>1, <1>8, <2>1 DEF RunStart, ProcessType
  <2>3. runs'[c].pc = "mark"
    BY <1>1, <1>8 DEF RunStart
  <2>4. \A d \in RunCalls : runs[d].pc \in {"init", "start"} => runs[d].p \in Procs
    BY DEF IInv, CallsNamed, Starting
  <2>5. NoneStopped'
    BY <1>3, <2>1, <2>2, <2>3, <2>4 DEF Processes, NoneStopped, Running
  <2>6. StopsWork'
    BY <1>2, <1>4, <2>1, <2>2 DEF Processes, StopsWork
  <2>7. NoOrphanProcess'
    BY <2>1, <2>2 DEF Processes, NoOrphanProcess, Running, Enabled
  <2>8. QED
    BY <2>5, <2>6, <2>7 DEF Processes
<1>9. CASE RunLookup(c) \/ RunLimit(c) \/ RunFails(c) \/ RunMark(c)
  <2>1. UNCHANGED <<entry, isEnabled, procs>>
    BY <1>9 DEF RunLookup, RunLimit, RunFails, RunMark, RunThrows, RunGoes
  <2>2. runs'[c].pc \notin {"init", "start"}
    BY <1>1, <1>9 DEF RunLookup, RunLimit, RunFails, RunMark, RunThrows, RunGoes, IdleRun,
                      RunCallType
  <2>3. NoneStopped'
    BY <1>3, <2>1, <2>2 DEF Processes, NoneStopped, Running
  <2>4. StopsWork' /\ NoOrphanProcess'
    BY <1>4, <2>1 DEF Processes, StopsWork, NoOrphanProcess, Running, Enabled
  <2>5. QED
    BY <2>3, <2>4 DEF Processes
<1>10. QED
  BY <1>6, <1>7, <1>8, <1>9 DEF RunStep

\* A stop takes the feeds of its process in the same step in which it takes the entry
\* out of the map, or before.
LEMMA ProcessesBeginStop ==
  ASSUME IInv, CallsApart, Processes, NEW c \in StopCalls, NEW id \in Runtimes,
         BeginStop(c, {id}, FALSE), ~AboutRun(id), ~AboutStop(id)
  PROVE  Processes'
<1> DEFINE present == {i \in {id} : entry[i] # NoProc}
           waiting == {i \in present : AwaitsScript(procs[entry[i]])}
<1>1. /\ runs \in [RunCalls -> RunCallType]
      /\ entry \in [Runtimes -> Procs \cup {NoProc}]
      /\ isEnabled \in [Runtimes -> BOOLEAN]
      /\ procs \in [Procs -> ProcessType]
      /\ stops \in [StopCalls -> StopCallType]
  BY DEF IInv, TypeOK
<1>2. /\ \A d \in RunCalls : runs[d].id # id
      /\ \A d \in StopCalls : id \notin stops[d].keys
      /\ \A d \in StopCalls : stops[d].pending \subseteq stops[d].keys
      /\ \A d \in StopCalls : stops[d].keys \subseteq Runtimes
  BY <1>1 DEF AboutRun, AboutStop, CallsApart, StopCallType
<1>3. /\ procs' = [p \in Procs |-> IF \E i \in present : entry[i] = p
                                   THEN StopProcess(procs[p]) ELSE procs[p]]
      /\ Drop(present \ waiting)
      /\ stops' = [stops EXCEPT ![c] = [pc |-> "stopping", keys |-> {id},
                                        pending |-> waiting, exit |-> FALSE]]
      /\ runs' = runs
  BY DEF BeginStop
<1>4. /\ stops'[c].keys = {id} /\ stops'[c].pending = waiting
      /\ \A d \in StopCalls \ {c} : stops'[d] = stops[d]
  BY <1>1, <1>3
<1>5. \A d \in RunCalls : runs[d].pc \in {"init", "start"} =>
        runs[d].p \in Procs /\ runs[d].p # entry[id]
  BY <1>2 DEF IInv, CallsNamed, Starting, StartedIsFresh
<1>6. \A i \in Runtimes : entry[i] = entry[id] /\ entry[id] \in Procs => i = id
  BY DEF IInv, EntriesDistinct
<1>7. CASE entry[id] = NoProc
  <2>1. present = {} /\ waiting = {}
    BY <1>7
  <2>2. /\ \A p \in Procs : procs'[p] = procs[p]
        /\ \A i \in Runtimes : entry'[i] = entry[i] /\ isEnabled'[i] = isEnabled[i]
    BY <1>1, <1>3, <2>1 DEF Drop
  <2>3. ~isEnabled[id]
    BY <1>7 DEF IInv, EnabledHasFeeds, Enabled
  <2>4. NoneStopped'
    BY <1>3, <1>5, <2>2 DEF Processes, NoneStopped, Running
  <2>5. StopsWork'
    BY <1>2, <1>4, <2>1, <2>2, <2>3 DEF Processes, StopsWork
  <2>6. NoOrphanProcess'
    BY <2>2 DEF Processes, NoOrphanProcess, Running, Enabled
  <2>7. QED
    BY <2>4, <2>5, <2>6 DEF Processes
<1>8. CASE entry[id] # NoProc
  <2> DEFINE q == entry[id]
  <2>1. q \in Procs /\ present = {id}
    BY <1>1, <1>8
  <2>2. /\ procs'[q] = StopProcess(procs[q])
        /\ \A p \in Procs \ {q} : procs'[p] = procs[p]
    BY <1>3, <2>1
  <2>3. /\ \A i \in Runtimes \ {id} : entry'[i] = entry[i] /\ isEnabled'[i] = isEnabled[i]
        /\ waiting = {} => entry'[id] = NoProc /\ ~isEnabled'[id]
        /\ waiting # {} => entry'[id] = q /\ isEnabled'[id] = isEnabled[id]
    BY <1>1, <1>3, <2>1 DEF Drop
  <2>4. procs[q].feeds => procs[q].isInited /\ ~procs[q].isStopped
    BY <1>6, <2>1 DEF IInv, FeedsEnabled, EnabledHasFeeds, Enabled, Processes, NoneStopped,
                      Running
  <2>5. ~procs'[q].feeds
    BY <1>1, <2>1, <2>2, <2>4 DEF StopProcess, ProcessType
  <2> HIDE DEF waiting, present
  <2>6. waiting \subseteq {id}
    BY <2>1 DEF waiting
  <2>7. NoneStopped'
    BY <1>3, <1>5, <2>2, <2>5 DEF Processes, NoneStopped, Running
  <2>8. StopsWork'
    <3>1. ASSUME NEW d \in StopCalls, d # c
          PROVE  /\ \A i \in stops'[d].pending : entry'[i] \in Procs => ~procs'[entry'[i]].feeds
                 /\ stops'[d].pc = "stopping" =>
                      \A i \in stops'[d].keys \ stops'[d].pending : ~isEnabled'[i]
      BY <1>2, <1>4, <1>6, <2>1, <2>2, <2>3, <2>5, <3>1 DEF Processes, StopsWork
    <3>2. \A i \in stops'[c].pending : entry'[i] \in Procs => ~procs'[entry'[i]].feeds
      BY <1>4, <2>3, <2>5, <2>6
    <3>3. \A i \in stops'[c].keys \ stops'[c].pending : ~isEnabled'[i]
      BY <1>4, <2>3, <2>6
    <3>4. QED
      BY <3>1, <3>2, <3>3 DEF StopsWork
  <2>9. NoOrphanProcess'
    BY <2>1, <2>2, <2>3, <2>5 DEF Processes, NoOrphanProcess, Running, Enabled
  <2>10. QED
    BY <2>7, <2>8, <2>9 DEF Processes
<1>9. QED
  BY <1>7, <1>8

\* When a script has stopped, the entry that is deleted has no feeds.
LEMMA ProcessesStopStep ==
  ASSUME IInv, CallsApart, Processes, NEW c \in StopCalls, StopStep(c), ~LoseMemory
  PROVE  Processes'
<1>1. /\ entry \in [Runtimes -> Procs \cup {NoProc}]
      /\ isEnabled \in [Runtimes -> BOOLEAN]
      /\ stops \in [StopCalls -> StopCallType]
  BY DEF IInv, TypeOK
<1>2. UNCHANGED <<runs, procs>>
  BY DEF StopStep, ScriptStopped, ScriptStopThrows, StopRejected, Unmark
<1>3. NoneStopped'
  BY <1>2 DEF Processes, NoneStopped, Running
<1>4. ASSUME NEW id \in Runtimes, ScriptStopped(c, id) PROVE Processes'
  <2>1. /\ id \in stops[c].pending
        /\ entry' = [i \in Runtimes |-> IF i = id THEN NoProc ELSE entry[i]]
        /\ isEnabled' = [i \in Runtimes |-> isEnabled[i] /\ i # id]
    BY <1>4 DEF ScriptStopped, Drop
  <2>2. /\ stops'[c].pc = stops[c].pc /\ stops'[c].keys = stops[c].keys
        /\ stops'[c].pending = stops[c].pending \ {id}
        /\ \A d \in StopCalls \ {c} : stops'[d] = stops[d]
    BY <1>1, <1>4 DEF ScriptStopped, StopCallType
  <2>3. /\ entry'[id] = NoProc /\ ~isEnabled'[id]
        /\ \A i \in Runtimes : entry'[i] = entry[i] \/ entry'[i] = NoProc
        /\ \A i \in Runtimes : isEnabled'[i] => isEnabled[i]
        /\ \A i \in Runtimes \ {id} : entry'[i] = entry[i] /\ isEnabled'[i] = isEnabled[i]
    BY <1>1, <2>1
  <2>4. entry[id] \in Procs => ~procs[entry[id]].feeds
    BY <2>1 DEF Processes, StopsWork
  <2>5. \A d \in StopCalls : stops[d].keys \subseteq Runtimes /\ stops[d].pending \subseteq Runtimes
    BY <1>1 DEF StopCallType
  <2>6. StopsWork'
    <3>1. ASSUME NEW d \in StopCalls
          PROVE  /\ \A i \in stops'[d].pending : entry'[i] \in Procs => ~procs'[entry'[i]].feeds
                 /\ stops'[d].pc = "stopping" =>
                      \A i \in stops'[d].keys \ stops'[d].pending : ~isEnabled'[i]
      <4>1. /\ stops'[d].pc = stops[d].pc /\ stops'[d].keys = stops[d].keys
            /\ stops'[d].pending = stops[d].pending \/ stops'[d].pending = stops[d].pending \ {id}
        BY <2>2
      <4>2. QED
        BY <1>2, <2>3, <2>5, <4>1 DEF Processes, StopsWork
    <3>2. QED
      BY <3>1 DEF StopsWork
  <2>7. NoOrphanProcess'
    BY <1>1, <1>2, <2>3, <2>4 DEF Processes, NoOrphanProcess, Running, Enabled
  <2>8. QED
    BY <1>3, <2>6, <2>7 DEF Processes
<1>5. ASSUME UNCHANGED <<entry, isEnabled>>,
             \A d \in StopCalls \ {c} : stops'[d] = stops[d],
             stops'[c].pending \subseteq stops[c].pending,
             stops'[c].pc # "stopping"
      PROVE  Processes'
  <2>1. StopsWork' /\ NoOrphanProcess'
    BY <1>2, <1>5 DEF Processes, StopsWork, NoOrphanProcess, Running, Enabled
  <2>2. QED
    BY <1>3, <2>1 DEF Processes
<1>6. ASSUME NEW id \in Runtimes, ScriptStopThrows(c, id) PROVE Processes'
  <2>1. /\ stops'[c].pc = "rejected" /\ stops'[c].pending = stops[c].pending \ {id}
        /\ \A d \in StopCalls \ {c} : stops'[d] = stops[d]
        /\ UNCHANGED <<entry, isEnabled>>
    BY <1>1, <1>6 DEF ScriptStopThrows
  <2>2. QED
    BY <1>5, <2>1
<1>7. CASE StopRejected(c) \/ Unmark(c)
  <2>1. /\ stops' = [stops EXCEPT ![c] = IdleStop]
        /\ UNCHANGED <<entry, isEnabled>>
    BY <1>7 DEF StopRejected, Unmark
  <2>2. /\ stops'[c].pc = "idle" /\ stops'[c].pending = {}
        /\ \A d \in StopCalls \ {c} : stops'[d] = stops[d]
    BY <1>1, <2>1 DEF IdleStop
  <2>3. QED
    BY <1>5, <2>1, <2>2
<1>8. QED
  BY <1>4, <1>6, <1>7 DEF StopStep

LEMMA ProcessesTakeLock ==
  ASSUME IInv, Processes, NEW c \in RunCalls, NEW id, NEW restore, TakeLock(c, id, restore)
  PROVE  Processes'
<1>1. runs \in [RunCalls -> RunCallType]
  BY DEF IInv, TypeOK
<1>2. /\ runs'[c].pc = "lookup"
      /\ \A d \in RunCalls \ {c} : runs'[d] = runs[d]
      /\ UNCHANGED <<stops, entry, isEnabled, procs>>
  BY <1>1 DEF TakeLock
<1>3. NoneStopped'
  BY <1>2 DEF Processes, NoneStopped, Running
<1>4. StopsWork' /\ NoOrphanProcess'
  BY <1>2 DEF Processes, StopsWork, NoOrphanProcess, Running, Enabled
<1>5. QED
  BY <1>3, <1>4 DEF Processes

LEMMA ProcessesLoseMemory == ASSUME LoseMemory PROVE Processes'
<1>1. /\ \A c \in RunCalls : runs'[c] = IdleRun
      /\ \A d \in StopCalls : stops'[d] = IdleStop
      /\ \A p \in Procs : procs'[p] = NewProcess
  BY DEF LoseMemory
<1>2. /\ IdleRun.pc = "idle" /\ IdleStop.pc = "idle" /\ IdleStop.pending = {}
      /\ ~NewProcess.feeds
  BY DEF IdleRun, IdleStop, NewProcess
<1>3. QED
  BY <1>1, <1>2 DEF Processes, NoneStopped, StopsWork, NoOrphanProcess, Running

LEMMA ProcessesUnchanged ==
  ASSUME Processes, UNCHANGED <<runs, stops, entry, isEnabled, procs>>
  PROVE  Processes'
BY DEF Processes, NoneStopped, StopsWork, NoOrphanProcess, Running, Enabled

LEMMA ApartUnchanged ==
  ASSUME CallsApart, OffIsIdle, UNCHANGED <<runs, stops>>, toRestore' \subseteq toRestore,
         mode' = mode \/ mode' # "off"
  PROVE  CallsApart' /\ OffIsIdle'
BY DEF CallsApart, OffIsIdle

\* Calls that keep apart stay so, and keep their processes.
LEMMA ApartNext ==
  ASSUME Alone, IInv, CallsApart, OffIsIdle, Processes, [Next]_vars
  PROVE  CallsApart' /\ OffIsIdle' /\ Processes'
<1>1. TypeOK
  BY DEF IInv
<1>2. ASSUME NEW c \in RunCalls, RunStep(c) PROVE CallsApart' /\ OffIsIdle' /\ Processes'
  BY <1>1, <1>2, ApartRunStep, ProcessesRunStep
<1>3. ASSUME NEW c \in RunCalls, NEW id \in Runtimes, RunCall(c, id)
      PROVE  CallsApart' /\ OffIsIdle' /\ Processes'
  <2>1. /\ TakeLock(c, id, FALSE) /\ toRestore' = toRestore /\ mode # "off"
        /\ ~AboutStop(id) /\ id \notin toRestore
    BY <1>3 DEF RunCall, CallersExist, Alone
  <2>2. \A d \in StopCalls : id \notin stops[d].keys
    BY <2>1 DEF AboutStop, CallsApart
  <2>3. CallsApart' /\ OffIsIdle'
    BY <1>1, <2>1, <2>2, ApartTakeLock
  <2>4. QED
    BY <2>1, <2>3, ProcessesTakeLock
<1>4. ASSUME NEW c \in StopCalls, StopStep(c) PROVE CallsApart' /\ OffIsIdle' /\ Processes'
  <2>1. CASE LoseMemory
    BY <1>1, <2>1, ApartLoseMemory, ProcessesLoseMemory
  <2>2. CASE ~LoseMemory
    BY <1>1, <1>4, <2>2, ApartStopStep, ProcessesStopStep
  <2>3. QED
    BY <2>1, <2>2
<1>5. ASSUME NEW c \in StopCalls, Sigint(c) \/ FatalException(c) PROVE FALSE
  BY <1>5 DEF Sigint, FatalException, Alone
<1>6. ASSUME NEW c \in StopCalls, NEW id \in Runtimes, StopCall(c, id)
      PROVE  CallsApart' /\ OffIsIdle' /\ Processes'
  <2>1. /\ BeginStop(c, {id}, FALSE) /\ mode # "off"
        /\ ~AboutRun(id) /\ ~AboutStop(id) /\ id \notin toRestore
    BY <1>6 DEF StopCall, CallersExist, Alone
  <2>2. QED
    BY <1>1, <2>1, ApartBeginStop, ProcessesBeginStop
<1>7. ASSUME NEW id \in Runtimes, RemoveRuntime(id) \/ ExpireMark(id)
      PROVE  CallsApart' /\ OffIsIdle' /\ Processes'
  BY <1>7, ApartUnchanged, ProcessesUnchanged DEF RemoveRuntime, ExpireMark, memory
<1>8. CASE RestoreStep
  <2>1. ASSUME NEW c \in RunCalls, NEW id \in Runtimes, RestoreNext(c, id)
        PROVE  CallsApart' /\ OffIsIdle' /\ Processes'
    <3>1. /\ TakeLock(c, id, TRUE) /\ mode # "off"
          /\ id \in toRestore /\ toRestore' = toRestore \ {id}
      BY <2>1 DEF RestoreNext
    <3>2. \A d \in StopCalls : id \notin stops[d].keys
      BY <3>1 DEF CallsApart
    <3>3. CallsApart' /\ OffIsIdle'
      BY <1>1, <3>1, <3>2, ApartTakeLock
    <3>4. QED
      BY <3>1, <3>3, ProcessesTakeLock
  <2>2. CASE RestoreRefused \/ RestoreDone
    <3>1. /\ UNCHANGED <<runs, stops, entry, isEnabled, procs>>
          /\ toRestore' \subseteq toRestore
          /\ mode' = mode \/ mode' # "off"
      BY <2>2 DEF RestoreRefused, RestoreDone, memory
    <3>2. QED
      BY <3>1, ApartUnchanged, ProcessesUnchanged
  <2>3. QED
    BY <1>8, <2>1, <2>2 DEF RestoreStep
<1>9. CASE Crash
  BY <1>1, <1>9, ApartLoseMemory, ProcessesLoseMemory DEF Crash
<1>10. CASE Boot
  <2>1. /\ mode = "off" /\ mode' = "restoring" /\ toRestore' = marks
        /\ UNCHANGED <<runs, stops, entry, isEnabled, procs>>
    BY <1>10 DEF Boot, memory
  <2>2. /\ \A c \in RunCalls : runs[c] = IdleRun
        /\ \A d \in StopCalls : stops[d] = IdleStop
    BY <2>1 DEF OffIsIdle
  <2>3. IdleRun.id = NoRuntime /\ IdleStop.keys = {} /\ IdleStop.pending = {}
    BY DEF IdleRun, IdleStop
  <2>4. marks \subseteq Runtimes
    BY <1>1 DEF TypeOK
  <2>5. CallsApart' /\ OffIsIdle'
    BY <2>1, <2>2, <2>3, <2>4 DEF CallsApart, OffIsIdle
  <2>6. QED
    BY <2>1, <2>5, ProcessesUnchanged
<1>11. CASE UNCHANGED vars
  BY <1>11, ApartUnchanged, ProcessesUnchanged DEF vars, memory
<1>12. QED
  BY <1>2, <1>3, <1>4, <1>5, <1>6, <1>7, <1>8, <1>9, <1>10, <1>11 DEF Next

\* A runtime that is enabled has its mark, or the start that enabled it writes it.
LEMMA MarkedNext ==
  ASSUME IInv, Processes, "expire" \notin Events, Marked, [Next]_vars
  PROVE  Marked'
<1>1. /\ runs \in [RunCalls -> RunCallType]
      /\ isEnabled \in [Runtimes -> BOOLEAN]
  BY DEF IInv, TypeOK
<1>2. ASSUME Enabled' \subseteq Enabled, marks \subseteq marks',
             \A c \in RunCalls : runs[c].pc = "mark" => runs'[c] = runs[c]
      PROVE  Marked'
  BY <1>2 DEF Marked
<1>3. ASSUME NEW c \in RunCalls, RunStep(c) PROVE Marked'
  <2>1. \A d \in RunCalls \ {c} : runs'[d] = runs[d]
    BY <1>3, RunStepCall DEF IInv
  <2>2. CASE RunStart(c)
    <3>1. /\ runs'[c].pc = "mark" /\ runs'[c].id = runs[c].id
          /\ \A i \in Runtimes \ {runs[c].id} : isEnabled'[i] = isEnabled[i]
          /\ runs[c].pc = "start" /\ marks' = marks
      BY <1>1, <2>2 DEF RunStart, RunCallType
    <3>2. QED
      BY <2>1, <3>1 DEF Marked, Enabled
  <2>3. CASE RunMark(c)
    <3>1. marks' = marks \cup {runs[c].id} /\ isEnabled' = isEnabled
      BY <2>3 DEF RunMark
    <3>2. QED
      BY <2>1, <3>1 DEF Marked, Enabled
  <2>4. CASE ~RunStart(c) /\ ~RunMark(c)
    <3>1. runs[c].pc # "mark" /\ marks' = marks
      BY <1>3, <2>4 DEF RunStep, RunLookup, RunLimit, RunBuild, RunInit, RunFails, RunThrows,
                        RunGoes
    <3>2. \/ isEnabled' = isEnabled
          \/ isEnabled' = [isEnabled EXCEPT ![runs[c].id] = FALSE]
      BY <1>3, <2>4 DEF RunStep, RunLookup, RunLimit, RunBuild, RunInit, RunFails, RunThrows,
                        RunGoes
    <3>3. Enabled' \subseteq Enabled
      BY <1>1, <3>2 DEF Enabled
    <3>4. QED
      BY <1>2, <2>1, <3>1, <3>3
  <2>5. QED
    BY <2>2, <2>3, <2>4
<1>4. ASSUME NEW c \in StopCalls, Unmark(c) PROVE Marked'
  <2>1. CASE LoseMemory
    BY <2>1 DEF LoseMemory, Marked, Enabled
  <2>2. CASE ~LoseMemory
    <3>1. UNCHANGED <<isEnabled, runs>> /\ marks' = marks \ stops[c].keys
      BY <1>4, <2>2 DEF Unmark
    <3>2. \A i \in stops[c].keys : ~isEnabled[i]
      BY <1>4 DEF Unmark, Processes, StopsWork
    <3>3. QED
      BY <3>1, <3>2 DEF Marked, Enabled
  <2>3. QED
    BY <2>1, <2>2
<1>5. ASSUME NEW ids, Drop(ids), UNCHANGED <<runs, marks>> PROVE Marked'
  <2>1. Enabled' \subseteq Enabled
    BY <1>5 DEF Drop, Enabled
  <2>2. QED
    BY <1>2, <1>5, <2>1
<1>6. ASSUME NEW c \in StopCalls, NEW keys, NEW exit, BeginStop(c, keys, exit) PROVE Marked'
  BY <1>5, <1>6 DEF BeginStop
<1>7. ASSUME NEW c \in StopCalls, StopStep(c), ~Unmark(c) PROVE Marked'
  <2>1. ASSUME NEW id \in Runtimes, ScriptStopped(c, id) PROVE Marked'
    BY <1>5, <2>1 DEF ScriptStopped
  <2>2. ASSUME UNCHANGED <<isEnabled, runs, marks>> PROVE Marked'
    BY <2>2 DEF Marked, Enabled
  <2>3. QED
    BY <1>7, <2>1, <2>2 DEF StopStep, ScriptStopThrows, StopRejected
<1>8. ASSUME NEW c \in RunCalls, NEW id, NEW restore, TakeLock(c, id, restore) PROVE Marked'
  <2>1. /\ runs[c].pc = "idle" /\ UNCHANGED <<isEnabled, marks>>
        /\ \A d \in RunCalls \ {c} : runs'[d] = runs[d]
    BY <1>1, <1>8 DEF TakeLock
  <2>2. QED
    BY <1>2, <2>1 DEF Enabled
<1>9. CASE Crash
  BY <1>9 DEF Crash, LoseMemory, Marked, Enabled
<1>10. ASSUME UNCHANGED <<isEnabled, runs, marks>> PROVE Marked'
  BY <1>10 DEF Marked, Enabled
<1>11. ASSUME NEW id \in Runtimes, RemoveRuntime(id) \/ ExpireMark(id) PROVE Marked'
  BY <1>10, <1>11 DEF RemoveRuntime, ExpireMark, memory
<1>12. CASE RestoreRefused \/ RestoreDone \/ Boot \/ UNCHANGED vars
  BY <1>10, <1>12 DEF RestoreRefused, RestoreDone, Boot, vars, memory
<1>13. QED
  BY <1>3, <1>4, <1>6, <1>7, <1>8, <1>9, <1>11, <1>12
     DEF Next, RestoreStep, RunCall, RestoreNext, StopCall, Sigint, FatalException

\* With calls about a runtime one at a time, every state has the stronger invariant.
THEOREM ApartCorrect == Alone => (Spec => []ApartInv)
<1> SUFFICES ASSUME Alone PROVE Spec => []ApartInv
  OBVIOUS
<1>1. Init => CallsApart /\ OffIsIdle /\ Processes
  <2> SUFFICES ASSUME Init PROVE CallsApart /\ OffIsIdle /\ Processes
    OBVIOUS
  <2>1. /\ \A c \in RunCalls : runs[c] = IdleRun
        /\ \A d \in StopCalls : stops[d] = IdleStop
        /\ \A p \in Procs : procs[p] = NewProcess
        /\ toRestore = {} /\ mode = "up"
    BY DEF Init
  <2>2. /\ IdleRun.pc = "idle" /\ IdleRun.id = NoRuntime
        /\ IdleStop.pc = "idle" /\ IdleStop.pending = {} /\ IdleStop.keys = {}
        /\ ~NewProcess.feeds
    BY DEF IdleRun, IdleStop, NewProcess
  <2>3. QED
    BY <2>1, <2>2 DEF CallsApart, OffIsIdle, Processes, NoneStopped, StopsWork,
                      NoOrphanProcess, Running
<1>2. IInv /\ CallsApart /\ OffIsIdle /\ Processes /\ [Next]_vars
        => CallsApart' /\ OffIsIdle' /\ Processes'
  BY ApartNext
<1>3. ApartInv <=> IInv /\ CallsApart /\ OffIsIdle /\ Processes
  BY DEF ApartInv, Processes
<1>4. QED
  BY <1>1, <1>2, <1>3, InvariantCorrect, PTL DEF Spec

\* As long as calls about a runtime keep apart and nothing stops them all, a process that
\* receives market data is the enabled process of a runtime, so that stop can reach it.
THEOREM NoOrphanCorrect == Alone => (Spec => []NoOrphanProcess)
<1>1. ApartInv => NoOrphanProcess
  BY DEF ApartInv
<1>2. QED
  BY <1>1, ApartCorrect, PTL

\* Then the account's limit bounds the processes that really run, too.
THEOREM RunningLimitCorrect == Alone => (Spec => []RunningWithinLimit)
<1>1. ApartInv => RunningWithinLimit
  <2> SUFFICES ASSUME ApartInv PROVE RunningWithinLimit
    OBVIOUS
  <2> DEFINE f == [id \in Enabled |-> entry[id]]
             held == {entry[id] : id \in Enabled}
  <2>1. f \in Surjection(Enabled, held)
    BY DEF Surjection
  <2>2. IsFiniteSet(held) /\ Cardinality(held) <= Cardinality(Enabled)
    <3> HIDE DEF f, held
    <3>1. IsFiniteSet(Enabled)
      BY EnabledFinite
    <3>2. QED
      BY <2>1, <3>1, FS_Surjection
  <2>3. Running \in SUBSET held
    BY DEF ApartInv, NoOrphanProcess
  <2> HIDE DEF f, held
  <2>4. IsFiniteSet(Running) /\ Cardinality(Running) <= Cardinality(held)
    BY <2>2, <2>3, FS_Subset
  <2>5. /\ Cardinality(Running) \in Nat /\ Cardinality(held) \in Nat
        /\ Cardinality(Enabled) \in Nat
    BY <2>2, <2>4, EnabledFinite, FS_CardinalityType
  <2>6. Cardinality(Enabled) <= Limit
    BY DEF ApartInv, IInv, EnabledWithinLimit
  <2>7. QED
    BY <2>2, <2>4, <2>5, <2>6 DEF RunningWithinLimit
<1>2. QED
  BY <1>1, ApartCorrect, PTL

\* And as long as marks do not expire, an enabled runtime whose start has returned has
\* its mark: a crash would find it.
THEOREM MarksCorrect ==
  Alone /\ "expire" \notin Events => (Spec => []EnabledIsMarked)
<1> SUFFICES ASSUME Alone, "expire" \notin Events PROVE Spec => []EnabledIsMarked
  OBVIOUS
<1>1. Init => Marked
  BY DEF Init, Marked, Enabled
<1>2. ApartInv /\ Marked /\ [Next]_vars => Marked'
  BY MarkedNext DEF ApartInv, Processes
<1>3. Marked => EnabledIsMarked
  BY DEF Marked, EnabledIsMarked, AboutRun
<1>4. QED
  BY <1>1, <1>2, <1>3, ApartCorrect, PTL DEF Spec
-----------------------------------------------------------------------------
(* What a boot brings back.  Beside keeping apart, this needs that nothing  *)
(* fails a start, that no script asks for a start or a stop while the boot  *)
(* restores, and that the limit has room for every runtime: a crash between *)
(* the end of a stop and the removal of its mark leaves a mark too many,    *)
(* whose runtime could take the place of one that ran.                      *)

Undisturbed ==
  /\ Alone
  /\ Events \cap {"throw", "scripts", "expire"} = {}
  /\ Cardinality(Runtimes) <= Limit

\* A start that has not yet enabled its entry.
OnItsWay(id) == \E c \in RunCalls :
  runs[c].id = id /\ runs[c].pc \in {"lookup", "limit", "build", "init", "start"}

\* While a boot restores, all calls are its own, and what it has still to run is down.
BootAlone ==
  mode = "restoring" =>
    /\ \A c \in RunCalls : runs[c].pc # "idle" => runs[c].restore
    /\ \A c \in RunCalls : runs[c].pc = "lookup" => ~isEnabled[runs[c].id]
    /\ \A d \in StopCalls : stops[d] = IdleStop
    /\ toRestore \cap Enabled = {}

\* What ran as the engine went down is marked, and is run by the boot.
OwedKept ==
  /\ mode = "off" => owed \subseteq marks /\ Enabled = {}
  /\ mode = "restoring" =>
       \A id \in owed \cap rows : id \in toRestore \/ id \in Enabled \/ OnItsWay(id)

\* Only SIGINT's stop ends in an exit.
NoneExits == \A d \in StopCalls : ~stops[d].exit

BootInv == Marked /\ BootAlone /\ OwedKept /\ NoneExits

\* While a runtime is down, the limit lets it start.
LEMMA RoomForAll ==
  ASSUME Cardinality(Runtimes) <= Limit, NEW r \in Runtimes, ~isEnabled[r]
  PROVE  Cardinality(Enabled) < Limit
<1>1. Enabled \subseteq Runtimes \ {r}
  BY DEF Enabled
<1>2. /\ IsFiniteSet(Runtimes \ {r})
      /\ Cardinality(Runtimes \ {r}) = Cardinality(Runtimes) - 1
  BY RuntimesFinite, FS_RemoveElement
<1>3. Cardinality(Enabled) <= Cardinality(Runtimes \ {r})
  BY <1>1, <1>2, FS_Subset
<1>4. /\ Cardinality(Enabled) \in Nat /\ Cardinality(Runtimes) \in Nat
      /\ Limit \in Nat
  BY EnabledFinite, RuntimesFinite, FS_CardinalityType, LimitNat
<1>5. QED
  BY <1>2, <1>3, <1>4

\* A start of the boot goes on until its entry is enabled.
LEMMA BootRunStep ==
  ASSUME Undisturbed, IInv, CallsApart, OffIsIdle, BootAlone, OwedKept, NEW c \in RunCalls, RunStep(c)
  PROVE  BootAlone' /\ OwedKept'
<1> DEFINE id == runs[c].id
<1>1. /\ runs \in [RunCalls -> RunCallType]
      /\ isEnabled \in [Runtimes -> BOOLEAN]
      /\ toRestore \subseteq Runtimes
  BY DEF IInv, TypeOK
<1>2. /\ \A d \in RunCalls \ {c} : runs'[d] = runs[d]
      /\ runs[c].pc # "idle" /\ UNCHANGED <<mode, stops, rows>>
      /\ toRestore' \subseteq toRestore
  BY RunStepCall DEF IInv
<1>3. id \in Runtimes
  BY <1>2 DEF IInv, CallsNamed, Starting
<1>4. mode # "off"
  BY <1>2 DEF OffIsIdle, IdleRun
<1>5. UNCHANGED owed
  BY DEF RunStep, RunLookup, RunLimit, RunBuild, RunInit, RunStart, RunFails, RunMark,
     RunThrows, RunGoes
<1>6. CASE mode # "restoring"
  BY <1>2, <1>4, <1>5, <1>6 DEF BootAlone, OwedKept
<1>7. CASE mode = "restoring"
  <2>1. ~RunFails(c)
    BY DEF RunFails, Undisturbed
  <2>2. /\ id \notin toRestore
        /\ \A i \in toRestore : ~isEnabled[i]
    BY <1>1, <1>7 DEF CallsApart, BootAlone, Enabled
  <2>3. runs[c].pc \in {"lookup", "limit", "build", "init", "start"} => ~isEnabled[id]
    BY <1>7 DEF BootAlone, IInv, ChecksStillHold
  \* A step that goes on and enables nothing.
  <2>4. ASSUME NEW pc \in {"limit", "build", "init", "start"}, toRestore' = toRestore,
               runs'[c].pc = pc, runs'[c].id = id, runs'[c].restore = runs[c].restore,
               \A i \in Runtimes : isEnabled'[i] = isEnabled[i]
        PROVE  BootAlone' /\ OwedKept'
    <3>1. Enabled' = Enabled
      BY <2>4 DEF Enabled
    <3>2. BootAlone'
      BY <1>2, <1>3, <1>7, <2>4, <3>1 DEF BootAlone, IInv, CallsNamed, Starting
    <3>3. ASSUME NEW i, OnItsWay(i) PROVE OnItsWay(i)'
      BY <1>2, <2>4, <3>3 DEF OnItsWay
    <3>4. OwedKept'
      BY <1>2, <1>4, <1>5, <1>7, <2>4, <3>1, <3>3 DEF OwedKept
    <3>5. QED
      BY <3>2, <3>4
  <2>5. CASE RunLookup(c)
    <3>1. CASE id \in rows
      <4>1. RunGoes(c, "limit")
        BY <2>3, <2>5, <3>1 DEF RunLookup
      <4>2. QED
        BY <1>1, <2>4, <4>1 DEF RunGoes, RunCallType
    <3>2. CASE id \notin rows
      <4>1. /\ runs' = [runs EXCEPT ![c].pc = "mark"]
            /\ UNCHANGED <<toRestore, isEnabled>>
        BY <2>5, <3>2 DEF RunLookup, RunGoes
      <4>2. /\ runs'[c].pc = "mark" /\ runs'[c].restore = runs[c].restore
            /\ Enabled' = Enabled
        BY <1>1, <4>1 DEF RunCallType, Enabled
      <4>3. BootAlone'
        BY <1>2, <1>7, <4>1, <4>2 DEF BootAlone
      <4>4. ASSUME NEW i \in rows, OnItsWay(i) PROVE OnItsWay(i)'
        BY <1>2, <3>2, <4>4 DEF OnItsWay
      <4>5. OwedKept'
        BY <1>2, <1>4, <1>5, <1>7, <4>1, <4>2, <4>4 DEF OwedKept
      <4>6. QED
        BY <4>3, <4>5
    <3>3. QED
      BY <3>1, <3>2
  <2>6. CASE RunLimit(c)
    <3>1. /\ Cardinality(Enabled) < Limit
          /\ Cardinality(Enabled) \in Nat /\ Limit \in Nat
      BY <1>3, <2>3, <2>6, RoomForAll, EnabledFinite, LimitNat DEF RunLimit, Undisturbed
    <3>2. RunGoes(c, "build")
      BY <2>6, <3>1 DEF RunLimit
    <3>3. QED
      BY <1>1, <2>4, <3>2 DEF RunGoes, RunCallType
  <2>7. CASE RunBuild(c)
    <3>1. /\ runs'[c].pc = "init" /\ runs'[c].id = id
          /\ runs'[c].restore = runs[c].restore
          /\ toRestore' = toRestore
          /\ isEnabled' = [isEnabled EXCEPT ![id] = FALSE]
          /\ runs[c].pc = "build"
      BY <1>1, <2>7 DEF RunBuild, RunCallType
    <3>2. \A i \in Runtimes : isEnabled'[i] = isEnabled[i]
      BY <1>1, <2>3, <3>1
    <3>3. QED
      BY <2>4, <3>1, <3>2
  <2>8. CASE RunInit(c)
    <3>1. /\ runs'[c].pc = "start" /\ runs'[c].id = id
          /\ runs'[c].restore = runs[c].restore
          /\ UNCHANGED <<toRestore, isEnabled>>
      BY <1>1, <2>8 DEF RunInit, RunCallType
    <3>2. QED
      BY <2>4, <3>1
  <2>9. CASE RunStart(c)
    <3>1. /\ runs'[c].pc = "mark" /\ runs'[c].restore = runs[c].restore
          /\ isEnabled'[id] /\ \A i \in Runtimes \ {id} : isEnabled'[i] = isEnabled[i]
          /\ UNCHANGED toRestore
      BY <1>1, <1>3, <2>9 DEF RunStart, RunCallType
    <3>2. \A d \in RunCalls \ {c} : runs[d].pc = "idle"
      BY <1>2 DEF IInv, LockHeldByOneRun, Starting
    <3>3. BootAlone'
      BY <1>2, <1>7, <2>2, <3>1, <3>2 DEF BootAlone, Enabled
    <3>4. Enabled \subseteq Enabled' /\ id \in Enabled'
      BY <1>3, <3>1 DEF Enabled
    <3>5. ASSUME NEW i, OnItsWay(i) PROVE i = id
      BY <3>2, <3>5 DEF OnItsWay
    <3>6. OwedKept'
      BY <1>2, <1>4, <1>5, <1>7, <3>1, <3>4, <3>5 DEF OwedKept
    <3>7. QED
      BY <3>3, <3>6
  <2>10. CASE RunMark(c)
    <3>1. /\ runs'[c] = IdleRun /\ runs[c].pc = "mark"
          /\ UNCHANGED <<toRestore, isEnabled>>
      BY <1>1, <2>10 DEF RunMark
    <3>2. IdleRun.pc = "idle" /\ Enabled' = Enabled
      BY <3>1 DEF IdleRun, Enabled
    <3>3. BootAlone'
      BY <1>2, <1>7, <3>1, <3>2 DEF BootAlone
    <3>4. ASSUME NEW i, OnItsWay(i) PROVE OnItsWay(i)'
      BY <1>2, <3>1, <3>4 DEF OnItsWay
    <3>5. OwedKept'
      BY <1>2, <1>4, <1>5, <1>7, <3>1, <3>2, <3>4 DEF OwedKept
    <3>6. QED
      BY <3>3, <3>5
  <2>11. QED
    BY <2>1, <2>5, <2>6, <2>7, <2>8, <2>9, <2>10 DEF RunStep
<1>8. QED
  BY <1>6, <1>7

\* When the memory is lost, what runs then is owed.
LEMMA BootCrash ==
  ASSUME Marked, Crash PROVE BootAlone' /\ OwedKept'
<1>1. mode' = "off" /\ owed' = {id \in Enabled : ~AboutRun(id)} /\ marks' = marks
  BY DEF Crash, LoseMemory
<1>2. owed' \subseteq marks' /\ Enabled' = {}
  BY <1>1 DEF Marked, AboutRun, Crash, LoseMemory, Enabled
<1>3. QED
  BY <1>1, <1>2 DEF BootAlone, OwedKept

\* Without SIGINT no stop takes the engine with it.
LEMMA NoneExitsNext ==
  ASSUME Alone, TypeOK, NoneExits, [Next]_vars PROVE NoneExits'
<1>1. stops \in [StopCalls -> StopCallType] /\ ~IdleStop.exit
  BY DEF TypeOK, IdleStop
<1>2. ASSUME NEW c \in StopCalls, ~stops'[c].exit, \A d \in StopCalls \ {c} : stops'[d] = stops[d]
      PROVE  NoneExits'
  BY <1>2 DEF NoneExits
<1>3. ASSUME NEW c \in StopCalls, StopStep(c) PROVE NoneExits'
  <2>1. ASSUME NEW id \in Runtimes, ScriptStopped(c, id) \/ ScriptStopThrows(c, id)
        PROVE  NoneExits'
    <3>1. /\ stops'[c].exit = stops[c].exit
          /\ \A d \in StopCalls \ {c} : stops'[d] = stops[d]
      BY <1>1, <2>1 DEF ScriptStopped, ScriptStopThrows, StopCallType
    <3>2. QED
      BY <1>2, <3>1 DEF NoneExits
  <2>2. CASE StopRejected(c) \/ Unmark(c)
    <3>1. stops' = [stops EXCEPT ![c] = IdleStop]
      BY <2>2 DEF StopRejected, Unmark, NoneExits
    <3>2. QED
      BY <1>1, <1>2, <3>1
  <2>3. QED
    BY <1>3, <2>1, <2>2 DEF StopStep
<1>4. ASSUME NEW c \in StopCalls, NEW id \in Runtimes, StopCall(c, id) PROVE NoneExits'
  <2>1. /\ ~stops'[c].exit
        /\ \A d \in StopCalls \ {c} : stops'[d] = stops[d]
    BY <1>1, <1>4 DEF StopCall, BeginStop
  <2>2. QED
    BY <1>2, <2>1
<1>5. ASSUME NEW c \in StopCalls, Sigint(c) \/ FatalException(c) PROVE FALSE
  BY <1>5 DEF Sigint, FatalException, Alone
<1>6. CASE Crash
  BY <1>1, <1>6 DEF Crash, LoseMemory, NoneExits
<1>7. ASSUME UNCHANGED stops PROVE NoneExits'
  BY <1>7 DEF NoneExits
<1>8. ASSUME NEW c \in RunCalls, RunStep(c) PROVE NoneExits'
  BY <1>7, <1>8, RunStepCall
<1>9. ASSUME NEW c \in RunCalls, NEW id, RunCall(c, id) \/ RestoreNext(c, id)
      PROVE  NoneExits'
  BY <1>7, <1>9 DEF RunCall, RestoreNext, TakeLock
<1>10. ASSUME NEW id, RemoveRuntime(id) \/ ExpireMark(id) PROVE NoneExits'
  BY <1>7, <1>10 DEF RemoveRuntime, ExpireMark, memory
<1>11. CASE RestoreRefused \/ RestoreDone \/ Boot \/ UNCHANGED vars
  BY <1>7, <1>11 DEF RestoreRefused, RestoreDone, Boot, memory, vars
<1>12. QED
  BY <1>3, <1>4, <1>5, <1>6, <1>8, <1>9, <1>10, <1>11 DEF Next, RestoreStep

\* While a boot has a runtime to run and no start is in flight, the lock is free.
LEMMA BootLockFree ==
  ASSUME IInv, BootAlone, mode = "restoring", ~RestoreAwaits
  PROVE  (\A c \in RunCalls : runs[c].pc = "idle") /\ ~runIsLocked
<1>1. \A c \in RunCalls : runs[c].pc = "idle"
  BY DEF BootAlone, RestoreAwaits
<1>2. QED
  BY <1>1 DEF IInv, LockHeldByOneRun, Starting

\* The boot's loop takes a runtime from its list and begins its start.
LEMMA BootRestoreStep ==
  ASSUME IInv, BootAlone, OwedKept, RestoreStep PROVE BootAlone' /\ OwedKept'
<1>1. ASSUME NEW c \in RunCalls, NEW id \in Runtimes, RestoreNext(c, id)
      PROVE  BootAlone' /\ OwedKept'
  <2>1. /\ mode = "restoring" /\ ~RestoreAwaits /\ id \in toRestore
        /\ toRestore' = toRestore \ {id}
        /\ UNCHANGED <<mode, stops, isEnabled, rows, owed>>
    BY <1>1 DEF RestoreNext, TakeLock
  <2>2. /\ runs'[c].pc = "lookup" /\ runs'[c].id = id /\ runs'[c].restore
        /\ \A d \in RunCalls \ {c} : runs'[d] = runs[d]
    BY <1>1 DEF RestoreNext, TakeLock, IInv, TypeOK
  <2>3. \A d \in RunCalls : runs[d].pc = "idle"
    BY <2>1, BootLockFree
  <2>4. ~isEnabled[id] /\ Enabled' = Enabled
    BY <2>1 DEF BootAlone, Enabled
  <2>5. BootAlone'
    BY <2>1, <2>2, <2>3, <2>4 DEF BootAlone
  <2>6. OnItsWay(id)'
    BY <2>2 DEF OnItsWay
  <2>7. \A i : ~OnItsWay(i)
    BY <2>3 DEF OnItsWay
  <2>8. OwedKept'
    BY <2>1, <2>4, <2>6, <2>7 DEF OwedKept
  <2>9. QED
    BY <2>5, <2>8
<1>2. CASE RestoreRefused
  BY <1>2, BootLockFree DEF RestoreRefused
<1>3. CASE RestoreDone
  BY <1>3 DEF RestoreDone, BootAlone, OwedKept
<1>4. QED
  BY <1>1, <1>2, <1>3 DEF RestoreStep

\* Every step keeps a boot to what it owes.
LEMMA BootNext ==
  ASSUME Undisturbed, ApartInv, BootInv, [Next]_vars PROVE BootInv'
<1>1. /\ IInv /\ CallsApart /\ OffIsIdle /\ Processes
      /\ Alone /\ "expire" \notin Events
  BY DEF ApartInv, Processes, Undisturbed
<1>2. Marked' /\ NoneExits'
  BY <1>1, MarkedNext, NoneExitsNext DEF BootInv, IInv
<1>3. SUFFICES BootAlone' /\ OwedKept'
  BY <1>2 DEF BootInv
<1>4. ASSUME NEW c \in RunCalls, RunStep(c) PROVE BootAlone' /\ OwedKept'
  BY <1>1, <1>4, BootRunStep DEF BootInv
<1>5. ASSUME mode' = "up" PROVE BootAlone' /\ OwedKept'
  BY <1>5 DEF BootAlone, OwedKept
<1>6. ~(mode = "restoring" /\ CallersExist)
  BY DEF CallersExist, Undisturbed
<1>7. ASSUME NEW c \in RunCalls, NEW id \in Runtimes, RunCall(c, id)
      PROVE  BootAlone' /\ OwedKept'
  <2>1. mode' = "up"
    BY <1>6, <1>7 DEF RunCall, TakeLock, CallersExist
  <2>2. QED
    BY <1>5, <2>1
<1>8. mode # "up" => \A d \in StopCalls : stops[d].pc = "idle" /\ stops[d].pending = {}
  BY <1>1 DEF BootInv, BootAlone, OffIsIdle, IInv, TypeOK, IdleStop
<1>9. ASSUME NEW c \in StopCalls, StopStep(c) PROVE BootAlone' /\ OwedKept'
  <2>1. mode = "up"
    BY <1>8, <1>9 DEF StopStep, ScriptStopped, ScriptStopThrows, StopRejected, Unmark
  <2>2. mode' = mode
    BY <1>9 DEF StopStep, ScriptStopped, ScriptStopThrows, StopRejected, Unmark, BootInv,
                NoneExits
  <2>3. QED
    BY <1>5, <2>1, <2>2
<1>10. ASSUME NEW c \in StopCalls, NEW id \in Runtimes, StopCall(c, id)
       PROVE  BootAlone' /\ OwedKept'
  <2>1. mode' = "up"
    BY <1>6, <1>10 DEF StopCall, BeginStop, CallersExist
  <2>2. QED
    BY <1>5, <2>1
<1>11. ASSUME NEW c \in StopCalls, Sigint(c) \/ FatalException(c) PROVE FALSE
  BY <1>1, <1>11 DEF Sigint, FatalException, Alone
<1>12. ASSUME NEW id \in Runtimes, RemoveRuntime(id) \/ ExpireMark(id)
       PROVE  BootAlone' /\ OwedKept'
  BY <1>1, <1>5, <1>12 DEF RemoveRuntime, ExpireMark
<1>13. CASE RestoreStep
  BY <1>1, <1>13, BootRestoreStep DEF BootInv
<1>14. CASE Crash
  BY <1>14, BootCrash DEF BootInv
<1>15. CASE Boot
  <2>1. /\ mode = "off" /\ mode' = "restoring" /\ toRestore' = marks
        /\ UNCHANGED <<runs, stops, isEnabled, owed, rows, marks>>
    BY <1>15 DEF Boot, memory
  <2>2. /\ \A c \in RunCalls : runs[c] = IdleRun
        /\ \A d \in StopCalls : stops[d] = IdleStop
    BY <1>1, <2>1 DEF OffIsIdle
  <2>3. IdleRun.pc = "idle" /\ toRestore' \cap Enabled' = {}
    BY <2>1 DEF IdleRun, BootInv, OwedKept, Enabled
  <2>4. BootAlone'
    BY <2>1, <2>2, <2>3 DEF BootAlone
  <2>5. OwedKept'
    BY <2>1 DEF BootInv, OwedKept
  <2>6. QED
    BY <2>4, <2>5
<1>16. CASE UNCHANGED vars
  BY <1>16 DEF vars, memory, BootInv, BootAlone, OwedKept, OnItsWay, Enabled
<1>17. QED
  BY <1>4, <1>7, <1>9, <1>10, <1>11, <1>12, <1>13, <1>14, <1>15, <1>16 DEF Next

\* If nothing disturbs it, a boot that has finished restoring has brought back every
\* runtime that ran as the engine went down and still has a row.
THEOREM RestoreCorrect == Undisturbed => (Spec => RestoreRevives)
<1> SUFFICES ASSUME Undisturbed PROVE Spec => RestoreRevives
  OBVIOUS
<1> DEFINE Revives == mode = "restoring" /\ mode' = "up" => owed \cap rows \subseteq Enabled'
<1>1. Init => BootInv
  BY DEF Init, BootInv, BootAlone, OwedKept, NoneExits, Marked, Enabled, IdleStop
<1>2. ApartInv /\ BootInv /\ [Next]_vars => BootInv'
  BY BootNext
<1>3. ApartInv /\ BootInv /\ [Next]_vars => [Revives]_vars
  <2> SUFFICES ASSUME ApartInv, BootInv, Next, mode = "restoring", mode' = "up"
               PROVE  owed \cap rows \subseteq Enabled'
    OBVIOUS
  <2>1. RestoreDone
    <3>1. ASSUME NEW c \in RunCalls, RunStep(c) \/ (\E id \in Runtimes : RunCall(c, id) \/ RestoreNext(c, id))
          PROVE  mode' = mode
      BY <3>1, RunStepCall DEF RunCall, RestoreNext, TakeLock, ApartInv, IInv
    <3>2. ASSUME NEW c \in StopCalls,
                 \/ StopStep(c) \/ Sigint(c) \/ FatalException(c)
                 \/ \E id \in Runtimes : StopCall(c, id)
          PROVE  mode' = mode \/ mode' = "off"
      BY <3>2 DEF StopStep, ScriptStopped, ScriptStopThrows, StopRejected, Unmark, LoseMemory,
                  Sigint, FatalException, StopCall, BeginStop
    <3>3. ASSUME NEW id \in Runtimes, RemoveRuntime(id) \/ ExpireMark(id) PROVE mode' = mode
      BY <3>3 DEF RemoveRuntime, ExpireMark
    <3>4. RestoreRefused \/ Crash => mode' = mode \/ mode' = "off"
      BY DEF RestoreRefused, Crash, LoseMemory
    <3>5. QED
      BY <3>1, <3>2, <3>3, <3>4 DEF Next, RestoreStep, Boot
  <2>2. \A c \in RunCalls : runs[c].pc = "idle"
    BY <2>1, BootLockFree DEF ApartInv, BootInv, RestoreDone
  <2>3. \A i : ~OnItsWay(i)
    BY <2>2 DEF OnItsWay
  <2>4. Enabled' = Enabled /\ toRestore = {}
    BY <2>1 DEF RestoreDone, memory, Enabled
  <2>5. QED
    BY <2>3, <2>4 DEF BootInv, OwedKept
<1>4. Alone
  BY DEF Undisturbed
<1>5. QED
  BY <1>1, <1>2, <1>3, <1>4, ApartCorrect, PTL DEF Spec, RestoreRevives
=============================================================================
