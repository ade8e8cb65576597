---------------------------- MODULE MarketUpdates ----------------------------
(***************************************************************************)
(* Market updates (src/include/market_data/market_update.hpp), the books   *)
(* they describe, and which updates the matching engine sends for a change *)
(* of its book.  A book maps market order ids to [side, price, qty,        *)
(* priority].                                                              *)
(***************************************************************************)
EXTENDS Integers, Sequences

Sides == {"BUY", "SELL"}
Opposite(side) == IF side = "BUY" THEN "SELL" ELSE "BUY"

\* Stands for ORDER_ID_INVALID, PRICE_INVALID, QTY_INVALID, PRIORITY_INVALID
\* and, in a map from ids to orders, for nullptr.
INVALID == 0

With(f, x, v) == [y \in DOMAIN f \cup {x} |-> IF y = x THEN v ELSE f[y]]
Without(f, x) == [y \in DOMAIN f \ {x} |-> f[y]]

Update(type, id, side, price, qty, priority) ==
    [type |-> type, order_id |-> id, side |-> side, price |-> price,
     qty |-> qty, priority |-> priority]

\* The updates for an order that comes to rest, is canceled, loses quantity
\* in a trade, or is used up by one.
AddOf(id, o) == Update("ADD", id, o.side, o.price, o.qty, o.priority)
CancelOf(id, o) == Update("CANCEL", id, o.side, o.price, 0, o.priority)
TradeOf(o, fill) == Update("TRADE", INVALID, Opposite(o.side), o.price, fill, INVALID)
ModifyOf(id, o) == Update("MODIFY", id, o.side, o.price, o.qty, o.priority)
FilledOf(id, o) == Update("CANCEL", id, o.side, o.price, o.qty, INVALID)

\* The batches of updates that report the change of a book from b to c.
Batches(b, c) ==
    {<<>> : x \in {y \in {b} : y = c}}
    \cup {<<AddOf(id, c[id])>> :
            id \in {i \in DOMAIN c \ DOMAIN b : c = With(b, i, c[i])}}
    \cup {<<CancelOf(id, b[id])>> :
            id \in {i \in DOMAIN b \ DOMAIN c : c = Without(b, i)}}
    \cup {<<TradeOf(b[id], b[id].qty), FilledOf(id, b[id])>> :
            id \in {i \in DOMAIN b \ DOMAIN c : c = Without(b, i)}}
    \cup {<<TradeOf(b[id], b[id].qty - c[id].qty), ModifyOf(id, c[id])>> :
            id \in {i \in DOMAIN b \cap DOMAIN c :
                      /\ c[i].qty < b[i].qty
                      /\ c = [b EXCEPT ![i].qty = c[i].qty]}}

\* The book after one update, as TradingOrderBook and SnapshotSynthesizer
\* apply it.  CLEAR only reaches the former, and a MODIFY never changes the
\* price.  A MODIFY or CANCEL of an order that is not there has no effect
\* here; in the code it is an ASSERT or a null dereference.
Applied(b, u) ==
    CASE u.type = "ADD" ->
             With(b, u.order_id, [side |-> u.side, price |-> u.price,
                                  qty |-> u.qty, priority |-> u.priority])
      [] u.type = "MODIFY" /\ u.order_id \in DOMAIN b ->
             [b EXCEPT ![u.order_id].qty = u.qty, ![u.order_id].price = u.price]
      [] u.type = "CANCEL" -> Without(b, u.order_id)
      [] u.type = "CLEAR" -> <<>>
      [] OTHER -> b
==============================================================================
