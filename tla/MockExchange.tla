---------------------------- MODULE MockExchange ----------------------------
(***************************************************************************)
(* Paper trading on live prices: runtimes of "gateio-mock" beside those of *)
(* "gateio".  CCXTService keeps one ExtendedExchange per exchange without  *)
(* its suffix, market type and API key; each has a paper exchange of its   *)
(* own, a cart (an OrderService) per symbol, and uses it when it was made  *)
(* under the mock's name.  Feeds of orders poll the paper exchange.        *)
(*                                                                         *)
(* A runtime trades one symbol.  What OrderService does with an order is   *)
(* PaperExchange's matter: here an order waits, is filled at once or by a  *)
(* ticker, or is canceled.  Positions and balances are left out, but a     *)
(* cart that updateConfig never reached has none and its fills throw.      *)
(***************************************************************************)
EXTENDS Naturals, SequencesExt

CONSTANTS
  Traders,        \* runtimes
  Trades,         \* the exchange, market type, API key and symbol of each
  MockBounds      \* bounds: orders that are created and starts of runtimes, together

\* The mock has no fields in the list of exchanges, so its key is empty.
Names == {"gateio", "gateio-mock"}
MarketTypes == {"swap", "spot"}
NoKey == ""
IsMock(name) == name = "gateio-mock"

ASSUME TradesTyped ==
  \A t \in Traders : /\ Trades[t].name \in Names
                     /\ Trades[t].market \in MarketTypes
                     /\ IsMock(Trades[t].name) => Trades[t].key = NoKey

VARIABLES
  phase,     \* of each runtime: "off", "configured", "loading" or "running"
  sdks,      \* CCXTService.sdk: whether the exchange of a key is a mock
  carts,     \* the carts of each exchange's paper exchange, by symbol
  placed,    \* the orders: whose, at which exchange, where they went, their state
  watchers,  \* the feeds of orders: the exchange each polls and whether it does
  tickers,   \* the feeds of tickers: the exchange that each asks
  orphans,   \* how many dropped feeds still wait for a poll of an exchange
  heard,     \* the updates that the script of a runtime has been given
  starts,    \* how many starts there were
  mockBound, \* the bounds of this behaviour
  shared     \* history: exchanges that a feed has polled, or left, beside their runtime's own

mockVars == <<phase, sdks, carts, placed, watchers, tickers, orphans, heard, starts,
              mockBound, shared>>

SdkKeys == MarketTypes \X ({NoKey} \cup {Trades[t].key : t \in Traders})
NewCart == [isReady |-> FALSE, orderUpdates |-> <<>>]

\* Mutant: the key has no API key in it.
SharedSdk(market, key) == <<market, NoKey>>

SdkKey(market, key) == <<market, key>>

OwnSdk(t) == SdkKey(Trades[t].market, Trades[t].key)
TickerSdk(t) == SdkKey(Trades[t].market, NoKey)
WatcherOf(t) == <<Trades[t].name, Trades[t].symbol, Trades[t].key>>
TickerOf(t) == <<Trades[t].name, Trades[t].symbol>>

\* getSDK: the exchange under the key, or a new one.
With(made, key, name) ==
  [k \in DOMAIN made \cup {key} |-> IF k \in DOMAIN made THEN made[k] ELSE IsMock(name)]

\* selectCart: the cart of the symbol, or a new one.
Cart(k, symbol) == IF symbol \in DOMAIN carts[k] THEN carts[k][symbol] ELSE NewCart
WithCart(k, symbol, cart) ==
  [carts EXCEPT ![k] = [s \in DOMAIN @ \cup {symbol} |-> IF s = symbol THEN cart ELSE @[s]]]
Told(cart, updates) == [cart EXCEPT !.orderUpdates = @ \o updates]

Subscribed(w) == {t \in Traders : phase[t] = "running" /\ WatcherOf(t) = w}
Open(id) == placed[id].status = "open"

MockInit ==
  /\ phase = [t \in Traders |-> "off"]
  /\ sdks = [k \in {} |-> FALSE]
  /\ carts = [k \in SdkKeys |-> [s \in {} |-> NewCart]]
  /\ placed = <<>>
  /\ watchers = [w \in {} |-> [sdk |-> <<>>, polls |-> TRUE]]
  /\ tickers = [f \in {} |-> <<>>]
  /\ orphans = [k \in SdkKeys |-> 0]
  /\ heard = [t \in Traders |-> <<>>]
  /\ starts = 0
  /\ mockBound \in MockBounds
  /\ shared = {}

-----------------------------------------------------------------------------
(* A start: register, updateArgs, subscribeDataFeeds.                      *)

\* register looks for the exchange of swaps, whatever the runtime trades.
RegisteredSdk(t) == SdkKey("swap", Trades[t].key)

\* register gives the carts of a mock's symbols their configuration.
RegisterTrader(t) ==
  /\ phase[t] = "off"
  /\ starts < mockBound.starts
  /\ starts' = starts + 1
  /\ phase' = [phase EXCEPT ![t] = "configured"]
  /\ IF IsMock(Trades[t].name)
     THEN LET k == RegisteredSdk(t)
              s == Trades[t].symbol
          IN /\ sdks' = With(sdks, k, Trades[t].name)
             /\ carts' = WithCart(k, s, [Cart(k, s) EXCEPT !.isReady = TRUE])
     ELSE UNCHANGED <<sdks, carts>>
  /\ UNCHANGED <<placed, watchers, tickers, orphans, heard, mockBound, shared>>

UpdateArgs(t) ==
  /\ phase[t] = "configured"
  /\ phase' = [phase EXCEPT ![t] = "loading"]
  /\ sdks' = With(sdks, OwnSdk(t), Trades[t].name)
  /\ UNCHANGED <<carts, placed, watchers, tickers, orphans, heard, starts, mockBound, shared>>

\* A feed that is there keeps the exchange it was made for.  Prices come from the
\* exchange without a key.
SubscribeTrader(t) ==
  LET w == WatcherOf(t)
      others == {v \in DOMAIN watchers : (v = w) # (watchers[v].sdk = OwnSdk(t))}
  IN /\ phase[t] = "loading"
     /\ phase' = [phase EXCEPT ![t] = "running"]
     /\ watchers' = [v \in DOMAIN watchers \cup {w} |->
                       IF v \in DOMAIN watchers THEN watchers[v]
                       ELSE [sdk |-> OwnSdk(t), polls |-> TRUE]]
     /\ IF TickerOf(t) \in DOMAIN tickers THEN UNCHANGED <<tickers, sdks>>
        ELSE /\ tickers' = [f \in DOMAIN tickers \cup {TickerOf(t)} |->
                             IF f \in DOMAIN tickers THEN tickers[f] ELSE TickerSdk(t)]
             /\ sdks' = With(sdks, TickerSdk(t), Trades[t].name)
     /\ shared' = IF others = {} THEN shared ELSE shared \cup {OwnSdk(t)}
     /\ UNCHANGED <<carts, placed, orphans, heard, starts, mockBound>>

StopTrader(t) ==
  /\ phase[t] = "running"
  /\ phase' = [phase EXCEPT ![t] = "off"]
  /\ shared' = shared \cup {OwnSdk(t)}
  /\ UNCHANGED <<sdks, carts, placed, watchers, tickers, orphans, heard, starts, mockBound>>

-----------------------------------------------------------------------------
(* Orders.                                                                 *)

PlaceOrder(t, place, status) ==
  placed' = Append(placed, [who |-> t, sdk |-> OwnSdk(t), symbol |-> Trades[t].symbol,
                            place |-> place, status |-> status])

\* createOrder: to the cart, or to the exchange, which refuses a call without a key.
\* A market order that cannot be filled throws, and stays in the book.
CreatePaperOrder(t, isMarket) ==
  LET k == OwnSdk(t)
      s == Trades[t].symbol
      cart == Cart(k, s)
      id == Len(placed) + 1
      filled == isMarket /\ cart.isReady
  IN /\ phase[t] = "running"
     /\ id <= mockBound.orders
     /\ IF sdks[k]
        THEN /\ PlaceOrder(t, "paper", IF filled THEN "closed" ELSE "open")
             /\ carts' = WithCart(k, s, Told(cart, IF filled THEN <<<<id, "open">>, <<id, "closed">>>>
                                                   ELSE <<<<id, "open">>>>))
        ELSE PlaceOrder(t, IF k[2] = NoKey THEN "refused" ELSE "account", "away") /\ UNCHANGED carts
     /\ UNCHANGED <<phase, sdks, watchers, tickers, orphans, heard, starts, mockBound, shared>>

CancelPaperOrder(id) ==
  LET o == placed[id]
      cart == Cart(o.sdk, o.symbol)
  IN /\ Open(id)
     /\ phase[o.who] = "running"
     /\ placed' = [placed EXCEPT ![id].status = "canceled"]
     /\ carts' = WithCart(o.sdk, o.symbol, Told(cart, <<<<id, "canceled">>>>))
     /\ UNCHANGED <<phase, sdks, watchers, tickers, orphans, heard, starts, mockBound, shared>>

\* watchTicker has a price for a feed, which is asked for until monitoring drops it:
\* it makes the symbol's cart and fills the orders that the price has reached; without
\* a configuration the first of them throws.
Ticker(f) ==
  LET k == tickers[f]
      s == f[2]
      cart == Cart(k, s)
      open == {id \in DOMAIN placed : Open(id) /\ placed[id].sdk = k /\ placed[id].symbol = s}
  IN /\ \E reached \in SUBSET open :
          LET filled == IF cart.isReady THEN reached ELSE {}
          IN /\ placed' = [id \in DOMAIN placed |->
                             IF id \in filled THEN [placed[id] EXCEPT !.status = "closed"]
                             ELSE placed[id]]
             /\ carts' = WithCart(k, s, Told(cart, [i \in 1 .. Len(SetToSeq(filled)) |->
                                                      <<SetToSeq(filled)[i], "closed">>]))
     /\ UNCHANGED <<phase, sdks, watchers, tickers, orphans, heard, starts, mockBound, shared>>

-----------------------------------------------------------------------------
(* Feeds of orders.                                                        *)

\* The updates of every cart, in the order of SetToSeq: those of different carts are
\* told apart only by where they are.
AllUpdates(k) == FlattenSeq([i \in 1 .. Len(SetToSeq(DOMAIN carts[k])) |->
                               carts[k][SetToSeq(DOMAIN carts[k])[i]].orderUpdates])

\* Mutant: only the first cart that has updates is emptied.
FirstCartEmptied(k) ==
  LET full == {s \in DOMAIN carts[k] : carts[k][s].orderUpdates # <<>>}
  IN [carts EXCEPT ![k] = [s \in DOMAIN @ |->
        IF full # {} /\ s = CHOOSE q \in full : TRUE THEN [@[s] EXCEPT !.orderUpdates = <<>>]
        ELSE @[s]]]

Emptied(k) ==
  [carts EXCEPT ![k] = [s \in DOMAIN @ |-> [@[s] EXCEPT !.orderUpdates = <<>>]]]

\* A second has passed: the poll takes the updates of all the carts, for whoever
\* is subscribed by now, and the loop ends when that is nobody.
Poll(w) ==
  LET k == watchers[w].sdk
  IN /\ watchers[w].polls
     /\ sdks[k]
     /\ carts' = Emptied(k)
     /\ heard' = [t \in Traders |-> IF t \in Subscribed(w) THEN heard[t] \o AllUpdates(k)
                                    ELSE heard[t]]
     /\ watchers' = [watchers EXCEPT ![w].polls = Subscribed(w) # {}]
     /\ UNCHANGED <<phase, sdks, placed, tickers, orphans, starts, mockBound, shared>>

\* monitoring runs a feed again that has stopped, and drops one without subscribers,
\* whose last poll is still to come.
MonitorWatcher(w) ==
  LET k == watchers[w].sdk
  IN /\ IF Subscribed(w) # {}
        THEN /\ ~watchers[w].polls
             /\ watchers' = [watchers EXCEPT ![w].polls = TRUE]
             /\ UNCHANGED orphans
        ELSE /\ watchers' = [v \in DOMAIN watchers \ {w} |-> watchers[v]]
             /\ orphans' = IF watchers[w].polls /\ sdks[k] THEN [orphans EXCEPT ![k] = @ + 1]
                           ELSE orphans
     /\ UNCHANGED <<phase, sdks, carts, placed, tickers, heard, starts, mockBound, shared>>

DropTicker(f) ==
  /\ \A t \in Traders : ~(phase[t] = "running" /\ TickerOf(t) = f)
  /\ tickers' = [g \in DOMAIN tickers \ {f} |-> tickers[g]]
  /\ UNCHANGED <<phase, sdks, carts, placed, watchers, orphans, heard, starts, mockBound, shared>>

OrphanPolls(k) ==
  /\ orphans[k] > 0
  /\ carts' = Emptied(k)
  /\ orphans' = [orphans EXCEPT ![k] = @ - 1]
  /\ UNCHANGED <<phase, sdks, placed, watchers, tickers, heard, starts, mockBound, shared>>

MockNext ==
  \/ \E t \in Traders :
       \/ RegisterTrader(t) \/ UpdateArgs(t) \/ SubscribeTrader(t) \/ StopTrader(t)
       \/ \E isMarket \in BOOLEAN : CreatePaperOrder(t, isMarket)
  \/ \E id \in DOMAIN placed : CancelPaperOrder(id)
  \/ \E w \in DOMAIN watchers : Poll(w) \/ MonitorWatcher(w)
  \/ \E f \in DOMAIN tickers : Ticker(f) \/ DropTicker(f)
  \/ \E k \in SdkKeys : OrphanPolls(k)

MockSpec == MockInit /\ [][MockNext]_mockVars

-----------------------------------------------------------------------------
(* Properties.                                                             *)

\* Whoever comes first and decides what an exchange without a key is, no order of a
\* mock reaches an account and none of a runtime with a key lands on paper.
MoneyStaysApart ==
  \A id \in DOMAIN placed :
    LET t == placed[id].who
    IN /\ IsMock(Trades[t].name) => placed[id].place \in {"paper", "refused"}
       /\ Trades[t].key # NoKey => placed[id].place = "account"

\* The cart that a mock of swaps trades on has been configured, by register, which
\* finds its exchange another way than the script's calls do.
SwapCartsReady ==
  \A t \in Traders : IsMock(Trades[t].name) /\ Trades[t].market = "swap" /\ phase[t] = "running" =>
    Cart(OwnSdk(t), Trades[t].symbol).isReady

\* Both: an order goes where its runtime was made to trade.
OrdersGoHome == MoneyStaysApart /\ SwapCartsReady

Pending(k) == UNION {ToSet(carts[k][s].orderUpdates) : s \in DOMAIN carts[k]}

\* However many feeds poll one paper exchange, a script hears an update once; and the
\* script whose feed has had its exchange to itself hears all of those of its orders
\* that are not waiting for a poll.
UpdatesHeardOnce ==
  \A t \in Traders :
    /\ IsInjective(heard[t])
    /\ ToSet(heard[t]) \cap Pending(OwnSdk(t)) = {}
    /\ OwnSdk(t) \notin shared => \A id \in DOMAIN placed :
         placed[id].who = t /\ placed[id].place = "paper" =>
           \A status \in {"open", placed[id].status} :
             <<id, status>> \in ToSet(heard[t]) \cup Pending(OwnSdk(t))
=============================================================================
