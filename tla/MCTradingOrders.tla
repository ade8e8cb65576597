--------------------------- MODULE MCTradingOrders ---------------------------
(***************************************************************************)
(* TradingOrders for TLC.                                                  *)
(***************************************************************************)
EXTENDS TradingOrders

BothAlgos == {"MAKER", "TAKER"}
TwoPrices == {1, 2}
=============================================================================
