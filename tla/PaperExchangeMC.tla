-------------------------- MODULE PaperExchangeMC --------------------------
(* Small instances of PaperExchange and of MockExchange, which share nothing: *)
(* part says which of them a behaviour is of.  The prices of PaperExchange    *)
(* are multiples of 12, so that the entry prices of up to four averaged lots  *)
(* are whole.                                                                 *)
EXTENDS PaperExchange, MockExchange, TLC

CONSTANTS m1, m2, m3, live

VARIABLE part

\* In one-way mode orders of every side and size that trade at once; in hedge
\* mode one-lot limit orders and stops of the long position, which wait in the
\* book.
SomeRequests ==
  [hedge \in BOOLEAN |->
     IF hedge
     THEN {q \in RequestType : /\ q.amount = 1 /\ ~q.reduceOnly
                               /\ \/ q.type = "limit"
                                  \/ q.type = "stop" /\ q.price = 24
                                       /\ q.positionSide = "long"}
     ELSE {q \in RequestType : q.type = "market" /\ q.price = 12
                                 /\ q.positionSide = "long"}]

\* Two mocks of swaps, one of another market under the symbol of the first, and
\* a runtime with an account.
FourTrades ==
  m1 :> [name |-> "gateio-mock", market |-> "swap", key |-> NoKey, symbol |-> "btc"]
  @@ m2 :> [name |-> "gateio-mock", market |-> "swap", key |-> NoKey, symbol |-> "eth"]
  @@ m3 :> [name |-> "gateio-mock", market |-> "spot", key |-> NoKey, symbol |-> "btc"]
  @@ live :> [name |-> "gateio", market |-> "swap", key |-> "api key", symbol |-> "btc"]

\* Restarts with one order, or two orders of two runtimes.
OrdersOrStarts == {[orders |-> 1, starts |-> 3], [orders |-> 2, starts |-> 2]}

PaperInit ==
  /\ part \in {"book", "mock"}
  /\ Init /\ MockInit
  /\ part = "mock" => isHedgeMode
  /\ part = "book" => mockBound.orders = 1

PaperNext ==
  \/ part = "book" /\ Next /\ UNCHANGED <<mockVars, part>>
  \/ part = "mock" /\ MockNext /\ UNCHANGED <<paperVars, part>>

PaperSpec == PaperInit /\ [][PaperNext]_<<paperVars, mockVars, part>>

\* The queue of updates decides nothing in PaperExchange.
BookView == <<isHedgeMode, orders, positions, triggerPriceMax, triggerPriceMin, kline, matching,
              executed, profit, cash, mockVars, part>>
=============================================================================
