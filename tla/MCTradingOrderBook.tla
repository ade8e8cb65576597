------------------------- MODULE MCTradingOrderBook -------------------------
(***************************************************************************)
(* TradingOrderBook for TLC: as many prices as indices, so that every      *)
(* level can be taken, and three of them on one side.                      *)
(***************************************************************************)
EXTENDS TradingOrderBook

FourPrices == 1 .. 4

\* States that differ only in what is left in free blocks are alike.
Shown(pool) == [b \in InUse(pool) |-> pool.object_[b]]
NoLeftovers ==
    <<Shown(order_pool_), order_pool_.next_free_index_, oid_to_order_,
      Shown(orders_at_price_pool_), orders_at_price_pool_.next_free_index_,
      price_orders_at_price_, best, bbo_, running, book, last_id>>
=============================================================================
