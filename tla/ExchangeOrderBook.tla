-------------------------- MODULE ExchangeOrderBook --------------------------
(***************************************************************************)
(* The exchange's limit order book for one instrument                      *)
(* (src/matching_engine/exchange_order_book.cpp, .hpp) and the matching    *)
(* engine's request loop around it (matching_engine.hpp).  Tickers share   *)
(* nothing, so one book is the general case.                               *)
(*                                                                         *)
(* A request is handled by one thread, but every message it sends can be   *)
(* consumed by the other threads before it is finished, so the matching    *)
(* loop takes one step per iteration.  The doubly linked lists are         *)
(* sequences: a price level holds its orders oldest first, and each side   *)
(* holds its levels in list order, the best first.                         *)
(***************************************************************************)
EXTENDS FiniteSets, MarketUpdates

CONSTANTS
    Clients,            \* clients that may send requests
    ClientOrderIds,     \* the order ids clients choose from
    Prices,             \* limit prices of requests
    Qtys,               \* quantities of requests
    ME_MAX_PRICE_LEVELS,
    MaxOrders,          \* bound on the NEW requests of a behaviour
    FreshIds            \* TRUE: clients number their orders from 1, as
                        \* OrderManager's next_order_id_++ does

ASSUME BookAssumption ==
    /\ Prices \subseteq Nat
    /\ Qtys \subseteq Nat
    /\ ME_MAX_PRICE_LEVELS \in Nat \ {0}
    /\ MaxOrders \in Nat
    /\ FreshIds \in BOOLEAN

MarketOrderIds == 1 .. MaxOrders
LevelIndices == 0 .. ME_MAX_PRICE_LEVELS - 1

Order == [client_id : Clients, client_order_id : ClientOrderIds,
          side : Sides, price : Prices, qty : Nat, priority : Nat]

Level == [side : Sides, price : Prices, orders : Seq(MarketOrderIds)]

Request == [market_order_id : MarketOrderIds, client_id : Clients,
            client_order_id : ClientOrderIds, side : Sides, price : Prices,
            leaves_qty : Nat]

MEClientResponse ==
    [type : {"ACCEPTED", "CANCELED", "FILLED", "CANCEL_REJECTED"},
     client_id : Clients, client_order_id : ClientOrderIds,
     market_order_id : Nat, side : Sides \cup {"INVALID"}, price : Nat,
     exec_qty : Nat, leaves_qty : Nat]

MEMarketUpdate ==
    [type : {"ADD", "MODIFY", "CANCEL", "TRADE"}, order_id : Nat,
     side : Sides, price : Nat, qty : Nat, priority : Nat]

VARIABLES
    orders,                 \* the orders in use, by market order id
    price_orders_at_price_, \* the price levels in use, by PriceToIndex
    by_price,               \* bids_by_price_ and asks_by_price_
    cid_oid_to_order_,      \* client and client order id to order
    next_market_order_id_,
    pc,                     \* "poll" between requests, "match" inside Add
    request,                \* the NEW request being matched (pc = "match")
    requested,              \* ids the clients have used
    responses,              \* client responses the latest step sent
    updates                 \* market updates the latest step sent

bookVars == <<orders, price_orders_at_price_, by_price, cid_oid_to_order_>>
vars == <<bookVars, next_market_order_id_, pc, request, requested,
          responses, updates>>

TypeOK ==
    /\ DOMAIN orders \subseteq MarketOrderIds
    /\ orders \in [DOMAIN orders -> Order]
    /\ DOMAIN price_orders_at_price_ \subseteq LevelIndices
    /\ price_orders_at_price_ \in [DOMAIN price_orders_at_price_ -> Level]
    /\ by_price \in [Sides -> Seq(LevelIndices)]
    /\ cid_oid_to_order_ \in [Clients \X ClientOrderIds ->
                                  MarketOrderIds \cup {INVALID}]
    /\ next_market_order_id_ \in 1 .. MaxOrders + 1
    /\ pc \in {"poll", "match"}
    /\ pc = "match" => request \in Request
    /\ requested \subseteq Clients \X ClientOrderIds
    /\ responses \in Seq(MEClientResponse)
    /\ updates \in Seq(MEMarketUpdate)

\* The two maps have no initializer: null pointers, here <<>> and INVALID, are
\* what the book's fresh allocation of 2 GB brings (zeroed pages).
Init ==
    /\ orders = <<>>
    /\ price_orders_at_price_ = <<>>
    /\ by_price = [side \in Sides |-> <<>>]
    /\ cid_oid_to_order_ = [co \in Clients \X ClientOrderIds |-> INVALID]
    /\ next_market_order_id_ = 1
    /\ pc = "poll" /\ request = <<>>
    /\ requested = {}
    /\ responses = <<>> /\ updates = <<>>

-----------------------------------------------------------------------------
(* Helpers on sequences.                                                   *)

\* s with e inserted so that it comes to stand at position k.
InsertedAt(s, k, e) ==
    [i \in 1 .. Len(s) + 1 |-> IF i < k THEN s[i] ELSE IF i = k THEN e ELSE s[i - 1]]

\* s with the element at position k taken out.
RemovedAt(s, k) == [i \in 1 .. Len(s) - 1 |-> IF i < k THEN s[i] ELSE s[i + 1]]

\* Mutant: the fill quantity is the greater of the two.
Greater(m, n) == IF m > n THEN m ELSE n

Lesser(m, n) == IF m < n THEN m ELSE n

-----------------------------------------------------------------------------
(* Messages.                                                               *)

Response(type, cid, oid, id, side, price, exec, leaves) ==
    [type |-> type, client_id |-> cid, client_order_id |-> oid,
     market_order_id |-> id, side |-> side, price |-> price,
     exec_qty |-> exec, leaves_qty |-> leaves]

-----------------------------------------------------------------------------
(* Price levels.                                                           *)

PriceToIndex(price) == price % ME_MAX_PRICE_LEVELS

\* GetOrdersAtPrice(price) # nullptr
HasOrdersAtPrice(price) == PriceToIndex(price) \in DOMAIN price_orders_at_price_

\* A resting order at price p comes strictly after one at price q.
Worse(side, p, q) == IF side = "BUY" THEN p < q ELSE p > q

\* Mutant: equal prices do not trade.
CrossesStrictly(side, price, q) == IF side = "BUY" THEN price > q ELSE price < q

\* An incoming order of this side and price trades against price q.
Crosses(side, price, q) == IF side = "BUY" THEN price >= q ELSE price <= q

\* AddOrdersAtPrice: file the new level in the price map and link it in
\* front of the first level of its side that it is not worse than.
AddOrdersAtPrice(level) ==
    LET idx  == PriceToIndex(level.price)
        list == by_price[level.side]
    IN  /\ price_orders_at_price_' = With(price_orders_at_price_, idx, level)
        /\ \E k \in 1 .. Len(list) + 1 :
            /\ \A j \in 1 .. k - 1 :
                   Worse(level.side, level.price, price_orders_at_price_[list[j]].price)
            /\ k <= Len(list) =>
                   ~Worse(level.side, level.price, price_orders_at_price_[list[k]].price)
            /\ by_price' = [by_price EXCEPT ![level.side] = InsertedAt(list, k, idx)]

\* Mutant: the map entry of the removed level is not reset.
RemoveOrdersAtPriceStale(side, price) ==
    /\ \E k \in 1 .. Len(by_price[side]) :
        /\ by_price[side][k] = PriceToIndex(price)
        /\ by_price' = [by_price EXCEPT ![side] = RemovedAt(@, k)]
    /\ UNCHANGED price_orders_at_price_

\* RemoveOrdersAtPrice: unlink the level from its side, drop it from the map
\* and return it to the pool.  The side is the order's, not the level's; that
\* they agree is LevelsHoldTheirPrice.
RemoveOrdersAtPrice(side, price) ==
    LET idx == PriceToIndex(price)
    IN  /\ price_orders_at_price_' = Without(price_orders_at_price_, idx)
        /\ \E k \in 1 .. Len(by_price[side]) :
            /\ by_price[side][k] = idx
            /\ by_price' = [by_price EXCEPT ![side] = RemovedAt(@, k)]

\* Mutant: one more than the priority of the first order, not of the last.
GetNextPriorityOfFirst(price) ==
    IF HasOrdersAtPrice(price)
    THEN orders[price_orders_at_price_[PriceToIndex(price)].orders[1]].priority + 1
    ELSE 1

GetNextPriority(price) ==
    IF HasOrdersAtPrice(price)
    THEN LET ring == price_orders_at_price_[PriceToIndex(price)].orders
         IN  orders[ring[Len(ring)]].priority + 1
    ELSE 1

-----------------------------------------------------------------------------
(* Orders.                                                                 *)

\* Mutant: the client's map entry survives its order.
RemoveOrderUnmapped(id) ==
    LET o    == orders[id]
        idx  == PriceToIndex(o.price)
        ring == price_orders_at_price_[idx].orders
    IN  /\ \/ /\ Len(ring) = 1
              /\ RemoveOrdersAtPrice(o.side, o.price)
           \/ /\ Len(ring) > 1
              /\ \E k \in 1 .. Len(ring) :
                  /\ ring[k] = id
                  /\ price_orders_at_price_' =
                       [price_orders_at_price_ EXCEPT ![idx].orders = RemovedAt(ring, k)]
              /\ UNCHANGED by_price
        /\ UNCHANGED cid_oid_to_order_
        /\ orders' = Without(orders, id)

\* RemoveOrder: unlink order id from its level (and the level, when it was
\* the only order), clear its entry in the client map, deallocate it.
RemoveOrder(id) ==
    LET o    == orders[id]
        idx  == PriceToIndex(o.price)
        ring == price_orders_at_price_[idx].orders
    IN  /\ \/ /\ Len(ring) = 1
              /\ RemoveOrdersAtPrice(o.side, o.price)
           \/ /\ Len(ring) > 1
              /\ \E k \in 1 .. Len(ring) :
                  /\ ring[k] = id
                  /\ price_orders_at_price_' =
                       [price_orders_at_price_ EXCEPT ![idx].orders = RemovedAt(ring, k)]
              /\ UNCHANGED by_price
        /\ cid_oid_to_order_' =
             [cid_oid_to_order_ EXCEPT ![<<o.client_id, o.client_order_id>>] = INVALID]
        /\ orders' = Without(orders, id)

\* Mutant: the order is linked in before the first one of its level and
\* becomes the first.
AddOrderInFront(id, order) ==
    LET idx == PriceToIndex(order.price)
    IN  /\ \/ /\ ~HasOrdersAtPrice(order.price)
              /\ AddOrdersAtPrice([side |-> order.side, price |-> order.price,
                                   orders |-> <<id>>])
           \/ /\ HasOrdersAtPrice(order.price)
              /\ price_orders_at_price_' =
                   [price_orders_at_price_ EXCEPT ![idx].orders = <<id>> \o @]
              /\ UNCHANGED by_price
        /\ cid_oid_to_order_' =
             [cid_oid_to_order_ EXCEPT ![<<order.client_id, order.client_order_id>>] = id]
        /\ orders' = With(orders, id, order)

\* AddOrder: link the order in behind the last one of its level, or open the
\* level, and enter it in the client map.
AddOrder(id, order) ==
    LET idx == PriceToIndex(order.price)
    IN  /\ \/ /\ ~HasOrdersAtPrice(order.price)
              /\ AddOrdersAtPrice([side |-> order.side, price |-> order.price,
                                   orders |-> <<id>>])
           \/ /\ HasOrdersAtPrice(order.price)
              /\ price_orders_at_price_' =
                   [price_orders_at_price_ EXCEPT ![idx].orders = Append(@, id)]
              /\ UNCHANGED by_price
        /\ cid_oid_to_order_' =
             [cid_oid_to_order_ EXCEPT ![<<order.client_id, order.client_order_id>>] = id]
        /\ orders' = With(orders, id, order)

-----------------------------------------------------------------------------
(* Requests.                                                               *)

\* Add, up to the ACCEPTED response: the order gets its market order id.
Accept(cid, oid, side, price, qty) ==
    /\ pc = "poll"
    /\ next_market_order_id_ <= MaxOrders
    /\ FreshIds => oid = 1 + Cardinality({r \in requested : r[1] = cid})
    /\ next_market_order_id_' = next_market_order_id_ + 1
    /\ request' = [market_order_id |-> next_market_order_id_,
                   client_id |-> cid, client_order_id |-> oid,
                   side |-> side, price |-> price, leaves_qty |-> qty]
    /\ requested' = requested \cup {<<cid, oid>>}
    /\ pc' = "match"
    /\ responses' = <<Response("ACCEPTED", cid, oid, next_market_order_id_,
                               side, price, 0, qty)>>
    /\ updates' = <<>>
    /\ UNCHANGED bookVars

\* The order at the front of the best level of the side the request trades
\* against: asks_by_price_->first_order_ or bids_by_price_->first_order_.
BestOpposite ==
    price_orders_at_price_[by_price[Opposite(request.side)][1]].orders[1]

\* The loop condition of CheckForMatch and its break.
CanMatch ==
    /\ request.leaves_qty # 0
    /\ by_price[Opposite(request.side)] # <<>>
    /\ Crosses(request.side, request.price, orders[BestOpposite].price)

\* Mutant: a filled order stays in the book with quantity 0.
MatchKeepsFilled ==
    /\ pc = "match"
    /\ CanMatch
    /\ LET id   == BestOpposite
           fill == Lesser(request.leaves_qty, orders[id].qty)
       IN  /\ request' = [request EXCEPT !.leaves_qty = @ - fill]
           /\ orders' = [orders EXCEPT ![id].qty = @ - fill]
    /\ responses' = <<>> /\ updates' = <<>>
    /\ UNCHANGED <<price_orders_at_price_, by_price, cid_oid_to_order_,
                   next_market_order_id_, pc, requested>>

\* Match: one iteration of the loop in CheckForMatch.
Match ==
    /\ pc = "match"
    /\ CanMatch
    /\ LET id   == BestOpposite
           o    == orders[id]
           fill == Lesser(request.leaves_qty, o.qty)
           left == o.qty - fill
           trade == Update("TRADE", INVALID, request.side, o.price, fill, INVALID)
       IN  /\ request' = [request EXCEPT !.leaves_qty = @ - fill]
           /\ responses' =
                <<Response("FILLED", request.client_id, request.client_order_id,
                           request.market_order_id, request.side, o.price, fill,
                           request.leaves_qty - fill),
                  Response("FILLED", o.client_id, o.client_order_id, id, o.side,
                           o.price, fill, left)>>
           /\ \/ /\ left = 0
                 /\ updates' = <<trade, Update("CANCEL", id, o.side, o.price,
                                               o.qty, INVALID)>>
                 /\ RemoveOrder(id)
              \/ /\ left # 0
                 /\ updates' = <<trade, Update("MODIFY", id, o.side, o.price,
                                               left, o.priority)>>
                 /\ orders' = [orders EXCEPT ![id].qty = left]
                 /\ UNCHANGED <<price_orders_at_price_, by_price,
                                cid_oid_to_order_>>
    /\ UNCHANGED <<next_market_order_id_, pc, requested>>

\* Mutant: the update always announces the first place of the level.
RestAnnouncedFirst ==
    /\ pc = "match"
    /\ ~CanMatch
    /\ request.leaves_qty # 0
    /\ LET priority == GetNextPriority(request.price)
       IN  /\ AddOrder(request.market_order_id,
                       [client_id |-> request.client_id,
                        client_order_id |-> request.client_order_id,
                        side |-> request.side, price |-> request.price,
                        qty |-> request.leaves_qty, priority |-> priority])
           /\ updates' = <<Update("ADD", request.market_order_id, request.side,
                                  request.price, request.leaves_qty, 1)>>
    /\ pc' = "poll"
    /\ responses' = <<>>
    /\ UNCHANGED <<next_market_order_id_, request, requested>>

\* The end of Add: what is left of the order rests in the book.
Rest ==
    /\ pc = "match"
    /\ ~CanMatch
    /\ request.leaves_qty # 0
    /\ LET priority == GetNextPriority(request.price)
       IN  /\ AddOrder(request.market_order_id,
                       [client_id |-> request.client_id,
                        client_order_id |-> request.client_order_id,
                        side |-> request.side, price |-> request.price,
                        qty |-> request.leaves_qty, priority |-> priority])
           /\ updates' = <<Update("ADD", request.market_order_id, request.side,
                                  request.price, request.leaves_qty, priority)>>
    /\ pc' = "poll"
    /\ responses' = <<>>
    /\ UNCHANGED <<next_market_order_id_, request, requested>>

\* The end of Add when nothing is left.
Complete ==
    /\ pc = "match"
    /\ request.leaves_qty = 0
    /\ pc' = "poll"
    /\ responses' = <<>> /\ updates' = <<>>
    /\ UNCHANGED <<bookVars, next_market_order_id_, request, requested>>

\* Cancel: found in the client map, or rejected.
Cancel(cid, oid) ==
    /\ pc = "poll"
    /\ LET id == cid_oid_to_order_[<<cid, oid>>]
           o  == orders[id]
       IN  \/ /\ id # INVALID
              /\ RemoveOrder(id)
              /\ updates' = <<Update("CANCEL", id, o.side, o.price, 0, o.priority)>>
              /\ responses' = <<Response("CANCELED", cid, oid, id, o.side,
                                         o.price, INVALID, o.qty)>>
           \/ /\ id = INVALID
              /\ UNCHANGED bookVars
              /\ updates' = <<>>
              /\ responses' = <<Response("CANCEL_REJECTED", cid, oid, INVALID,
                                         "INVALID", INVALID, INVALID, INVALID)>>
    /\ UNCHANGED <<next_market_order_id_, pc, request, requested>>

Next ==
    \/ \E cid \in Clients, oid \in ClientOrderIds, side \in Sides,
          price \in Prices, qty \in Qtys : Accept(cid, oid, side, price, qty)
    \/ Match \/ Rest \/ Complete
    \/ \E cid \in Clients, oid \in ClientOrderIds : Cancel(cid, oid)

Spec == Init /\ [][Next]_vars

\* The engine's thread runs on, so an Add that has begun is carried through.
FairSpec == Spec /\ WF_vars(Match \/ Rest \/ Complete)

-----------------------------------------------------------------------------
(* Properties.                                                             *)

\* Resting orders never cross: no bid is priced at or above an ask, not even
\* while a request is being matched.
NotCrossed ==
    \A i, j \in DOMAIN orders :
        (orders[i].side = "BUY" /\ orders[j].side = "SELL")
            => orders[i].price < orders[j].price

\* A price level holds only orders of its own price and side, so the one map
\* price_orders_at_price_ can serve both sides.
LevelsHoldTheirPrice ==
    \A idx \in DOMAIN price_orders_at_price_ :
        LET level == price_orders_at_price_[idx]
        IN  \A k \in 1 .. Len(level.orders) :
                /\ level.orders[k] \in DOMAIN orders
                /\ orders[level.orders[k]].side = level.side
                /\ orders[level.orders[k]].price = level.price

\* No level holds orders of both sides (exchange_order_book.hpp:59, "No need
\* map for each side because there can't be both ask and bid orders at the same
\* price").
LevelsHoldOneSide ==
    \A idx \in DOMAIN price_orders_at_price_ :
        LET level == price_orders_at_price_[idx]
        IN  \A k \in 1 .. Len(level.orders) : orders[level.orders[k]].side = level.side

\* Every order is linked into the level of its price.
OrdersLinked ==
    \A id \in DOMAIN orders :
        LET idx == PriceToIndex(orders[id].price)
        IN  /\ idx \in DOMAIN price_orders_at_price_
            /\ \E k \in 1 .. Len(price_orders_at_price_[idx].orders) :
                   price_orders_at_price_[idx].orders[k] = id

\* A level is never empty, and each of its orders stands behind the ones that
\* came before it, with a higher priority.
LevelsInArrivalOrder ==
    \A idx \in DOMAIN price_orders_at_price_ :
        LET ring == price_orders_at_price_[idx].orders
        IN  /\ Len(ring) > 0
            /\ \A j, k \in 1 .. Len(ring) :
                   j < k => /\ ring[j] < ring[k]
                            /\ orders[ring[j]].priority < orders[ring[k]].priority

\* Every level is linked into the list of its side.
LevelsLinked ==
    \A idx \in DOMAIN price_orders_at_price_ :
        LET list == by_price[price_orders_at_price_[idx].side]
        IN  \E k \in 1 .. Len(list) : list[k] = idx

\* A side's list holds levels of that side only, sorted best first.
SidesSorted ==
    \A side \in Sides :
        LET list == by_price[side]
        IN  /\ \A k \in 1 .. Len(list) :
                   /\ list[k] \in DOMAIN price_orders_at_price_
                   /\ price_orders_at_price_[list[k]].side = side
            /\ \A j, k \in 1 .. Len(list) :
                   j < k => Worse(side, price_orders_at_price_[list[k]].price,
                                        price_orders_at_price_[list[j]].price)

\* The pool of orders, the rings of the levels and the side lists describe
\* the same book, in price-time order, whatever was added, filled or removed.
BookCoherent == OrdersLinked /\ LevelsInArrivalOrder /\ LevelsLinked /\ SidesSorted

\* With ids used once, every resting order can still be canceled by its
\* client, and what a client can cancel is its own resting order.
Cancelable ==
    /\ \A id \in DOMAIN orders :
           cid_oid_to_order_[<<orders[id].client_id, orders[id].client_order_id>>] = id
    /\ \A co \in DOMAIN cid_oid_to_order_ :
           cid_oid_to_order_[co] # INVALID =>
               /\ cid_oid_to_order_[co] \in DOMAIN orders
               /\ co = <<orders[cid_oid_to_order_[co]].client_id,
                         orders[cid_oid_to_order_[co]].client_order_id>>

\* The step fills resting order id.
Fills(id) ==
    /\ pc = "match"
    /\ id \in DOMAIN orders
    /\ id \in DOMAIN orders' => orders'[id].qty < orders[id].qty

\* Price-time priority: a step that fills a resting order fills the best
\* priced one of its side and, at that price, the one that came first; and
\* the price is within the incoming order's limit.
PriceTimePriority ==
    [][\A id \in DOMAIN orders : Fills(id) =>
           /\ orders[id].side = Opposite(request.side)
           /\ Crosses(request.side, request.price, orders[id].price)
           /\ \A j \in DOMAIN orders \ {id} :
                  orders[j].side = orders[id].side =>
                      \/ Worse(orders[j].side, orders[j].price, orders[id].price)
                      \/ orders[j].price = orders[id].price /\ id < j]_vars

\* The book as market updates describe it.
PublicBook == [id \in DOMAIN orders |->
                 [side |-> orders[id].side, price |-> orders[id].price,
                  qty |-> orders[id].qty, priority |-> orders[id].priority]]

\* The engine implements BookFeed: the updates a step sends are exactly the
\* ones that turn the book before it into the book after it, so whoever
\* applies them in order has the engine's book, resting quantities and
\* priorities included.
Feed == INSTANCE BookFeed WITH book <- PublicBook
UpdatesTellTheBook == Feed!Spec

\* Every accepted order is matched to the end: the loop in CheckForMatch
\* terminates and the thread polls again.
AddCompletes == (pc = "match") ~> (pc = "poll")
==============================================================================
