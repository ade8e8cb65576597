-------------------------- MODULE MCTradingSignals --------------------------
(***************************************************************************)
(* TradingSignals for TLC.                                                 *)
(***************************************************************************)
EXTENDS TradingSignals, TLC

CONSTANTS t1, t2

TwoTickers == {t1, t2}
EitherTicker == Permutations(TwoTickers)
BothAlgos == {"MAKER", "TAKER"}
OneOrTwo == {1, 2}
FewPrices == {2, 5}

Quote(bp, bq, ap, aq) ==
    [s \in Sides |-> IF s = "BUY" THEN [price |-> bp, qty |-> bq]
                                  ELSE [price |-> ap, qty |-> aq]]

\* An offer only, a wide book heavier on the bid, and a crossed one, with a bid
\* that a recovery has left standing.
FewBbos == {Quote(INVALID, INVALID, 4, 1), Quote(2, 3, 7, 1), Quote(6, 2, 4, 1)}

\* Memory that happens to be zero, and memory that is not.
TwoMemories == {[s \in Sides |-> 0],
                [s \in Sides |-> IF s = "BUY" THEN 7 * Scale ELSE -5 * Scale]}
=============================================================================
