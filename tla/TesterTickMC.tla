---------------------------- MODULE TesterTickMC ----------------------------
(* Small instances of TesterTick.                                          *)
EXTENDS TesterTick

\* One-lot orders of every type in hedge mode, none in the other; limits of both
\* sides, which wait above and below the price.
OneLot ==
  [hedge \in BOOLEAN |->
     {r \in RequestType : /\ hedge
                          /\ r.amount = 1 /\ ~r.reduceOnly /\ r.positionSide = "long"
                          /\ r.type = "market" => r.price = 12 /\ r.side = "buy"
                          /\ r.type = "stop" => r.side = "sell"}]
=============================================================================
