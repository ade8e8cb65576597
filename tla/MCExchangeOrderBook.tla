------------------------- MODULE MCExchangeOrderBook -------------------------
(***************************************************************************)
(* ExchangeOrderBook for TLC.                                              *)
(***************************************************************************)
EXTENDS ExchangeOrderBook

CONSTANT c1

OneClient == {c1}
FourIds == 1 .. 4

\* Distinct modulo the four levels of the model, in neither order of index.
PricesApart == {3, 4, 5}
\* 1 and 5 share an index.
PricesClashing == {1, 5}
Qtys12 == {1, 2}
Qtys012 == {0, 1, 2}
==============================================================================
