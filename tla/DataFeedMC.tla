---------------------------- MODULE DataFeedMC ----------------------------
(* A small instance of DataFeed: two streams of one exchange, one of them    *)
(* with two subscribers, the other with one whose callback throws.           *)
EXTENDS DataFeed, TLC

CONSTANTS ticker, book, binance, a, b, c

OneExchange == [s \in Subscribers |-> binance]
FiveAndOne == ticker :> 5 @@ book :> 1
TwoKeys == a :> ticker @@ b :> ticker @@ c :> book
===========================================================================
