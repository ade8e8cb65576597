--------------------------- MODULE MCMarketDataFeed ---------------------------
(***************************************************************************)
(* MarketDataFeed for TLC: every order is like every other but for its id, *)
(* with a quantity that allows a partial fill.                             *)
(***************************************************************************)
EXTENDS MarketDataFeed

OneKind == {[side |-> "BUY", price |-> 1, qty |-> 2, priority |-> 1]}

AllNetworks == {"ordered", "reordered", "repeated"}
InOrder == {"ordered"}

\* As many updates as each kind can be checked with.
AsFits == [n \in AllNetworks |-> CASE n = "ordered" -> 4
                                   [] n = "reordered" -> 3
                                   [] n = "repeated" -> 2]
ThreeUpdates == [n \in InOrder |-> 3]
==============================================================================
