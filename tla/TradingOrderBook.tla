-------------------------- MODULE TradingOrderBook --------------------------
(***************************************************************************)
(* TradingOrderBook (src/trading_engine/trading_order_book.cpp and its     *)
(* header): the copy of an instrument's book that a trading client keeps,  *)
(* with its pools, its circular lists of price levels and orders, its two  *)
(* maps and the best bid and offer it hands to the algorithms.             *)
(*                                                                         *)
(* Updates are those of an exchange that keeps its book uncrossed, after   *)
(* the market data consumer: ids grow, some never seen because the order   *)
(* did not rest, and a MODIFY or a CANCEL concerns an order of the book.   *)
(* TRADE and the snapshot markers change nothing here.  The priority of an *)
(* order is carried along and never read, and is left out.                 *)
(***************************************************************************)
EXTENDS MarketUpdates, MemoryPool, FiniteSets, Functions

CONSTANTS
    ME_MAX_ORDER_IDS,      \* size of the order pool and of the id map
    ME_MAX_PRICE_LEVELS,   \* size of the level pool and of the price map
    Prices, NewQty,        \* prices, and quantity of an order when it is added
    Recoveries             \* TRUE: a CLEAR may find orders in the book

ASSUME TradingBookAssumption ==
    /\ ME_MAX_ORDER_IDS \in Nat /\ ME_MAX_ORDER_IDS > 1
    /\ ME_MAX_PRICE_LEVELS \in Nat /\ ME_MAX_PRICE_LEVELS > 1
    /\ Prices \subseteq Nat \ {INVALID}
    /\ NewQty \in Nat \ {0}
    /\ Recoveries \in BOOLEAN

VARIABLES
    order_pool_, oid_to_order_,
    orders_at_price_pool_, price_orders_at_price_,
    best,              \* bids_by_price_ and asks_by_price_
    bbo_,              \* by side
    running,           \* FALSE once a failed assertion or an exception has ended
                       \* the process (built with NDEBUG, where ASSERT is void,
                       \* UpdateNextFreeIndex then searches for ever)
    book, last_id      \* history: the book of the updates so far, its last id

vars == <<order_pool_, oid_to_order_, orders_at_price_pool_,
          price_orders_at_price_, best, bbo_, running, book, last_id>>

TradingOrder == [order_id_ : 0 .. ME_MAX_ORDER_IDS, side_ : Sides \cup {"INVALID"},
                 price_ : Prices \cup {INVALID}, qty_ : 0 .. NewQty,
                 prev : 0 .. ME_MAX_ORDER_IDS, next : 0 .. ME_MAX_ORDER_IDS]
NoOrder == [order_id_ |-> INVALID, side_ |-> "INVALID", price_ |-> INVALID,
            qty_ |-> INVALID, prev |-> nullptr, next |-> nullptr]

TradingOrdersAtPrice == [side_ : Sides \cup {"INVALID"}, price_ : Prices \cup {INVALID},
                         first_mkt_order_ : 0 .. ME_MAX_ORDER_IDS,
                         prev : 0 .. ME_MAX_PRICE_LEVELS, next : 0 .. ME_MAX_PRICE_LEVELS]
NoLevel == [side_ |-> "INVALID", price_ |-> INVALID, first_mkt_order_ |-> nullptr,
            prev |-> nullptr, next |-> nullptr]

BBO == [price : Prices \cup {INVALID}, qty : Nat]
Unset == [price |-> INVALID, qty |-> INVALID]

\* The two maps have no initializer: null pointers are what a book's fresh,
\* large allocation brings (zeroed pages).
Init ==
    /\ order_pool_ = NewPool(ME_MAX_ORDER_IDS, NoOrder)
    /\ oid_to_order_ = [id \in 1 .. ME_MAX_ORDER_IDS - 1 |-> nullptr]
    /\ orders_at_price_pool_ = NewPool(ME_MAX_PRICE_LEVELS, NoLevel)
    /\ price_orders_at_price_ = [i \in 0 .. ME_MAX_PRICE_LEVELS - 1 |-> nullptr]
    /\ best = [s \in Sides |-> nullptr]
    /\ bbo_ = [s \in Sides |-> Unset]
    /\ running = TRUE
    /\ book = <<>> /\ last_id = 0

-----------------------------------------------------------------------------
(* The circular lists, of price levels and of the orders of a level.       *)

order == order_pool_.object_
level == orders_at_price_pool_.object_

\* Places a block before another one in its list, and takes a block out.
LinkBefore(obj, new, target) ==
    [b \in DOMAIN obj |->
        [obj[b] EXCEPT
            !.prev = IF b = target THEN new ELSE IF b = new THEN obj[target].prev ELSE @,
            !.next = IF b = obj[target].prev THEN new ELSE IF b = new THEN target ELSE @]]

Unlink(obj, b) ==
    [c \in DOMAIN obj |->
        [obj[c] EXCEPT
            !.prev = IF c = b THEN nullptr ELSE IF c = obj[b].next THEN obj[b].prev ELSE @,
            !.next = IF c = b THEN nullptr ELSE IF c = obj[b].prev THEN obj[b].next ELSE @]]

\* The blocks from b on until the list is back at b.
Ring(obj, b) ==
    LET at[n \in {0} \cup DOMAIN obj] == IF n = 0 THEN b ELSE obj[at[n - 1]].next
        len == CHOOSE n \in DOMAIN obj : at[n] = b /\ \A m \in 1 .. n - 1 : at[m] # b
    IN  [k \in 1 .. len |-> at[k - 1]]

Levels(s) == IF best[s] = nullptr THEN <<>> ELSE Ring(level, best[s])
Orders(l) == Ring(order, level[l].first_mkt_order_)

-----------------------------------------------------------------------------
(* Prices and the best bid and offer.                                      *)

Better(s, p, q) == IF s = "BUY" THEN p > q ELSE p < q

PriceToIndex(price) == price % ME_MAX_PRICE_LEVELS
GetOrdersAtPrice(price) == price_orders_at_price_[PriceToIndex(price)]

\* Mutant: only prices better than the best count.
UpdatedStrictly(s, side, price) ==
    best[s] # nullptr /\ side = s /\ Better(s, price, level[best[s]].price_)

\* bid_updated, ask_updated: decided before the update is applied.
Updated(s, side, price) ==
    best[s] # nullptr /\ side = s /\ ~Better(s, level[best[s]].price_, price)

Total(qtys) ==
    LET sum[k \in 0 .. Len(qtys)] == IF k = 0 THEN 0 ELSE sum[k - 1] + qtys[k]
    IN  sum[Len(qtys)]
QtyOf(l) == Total([k \in 1 .. Len(Orders(l)) |-> order[Orders(l)[k]].qty_])

Best(s) == IF best[s] = nullptr THEN Unset
           ELSE [price |-> level[best[s]].price_, qty |-> QtyOf(best[s])]

\* UpdateBbo, at the end of OnMarketUpdate: primed, what the update has left.
UpdateBbo(side, price) ==
    bbo_' = [s \in Sides |-> IF Updated(s, side, price) THEN Best(s)' ELSE bbo_[s]]

-----------------------------------------------------------------------------
(* ADD.                                                                    *)

\* Mutant: the new level always goes behind the best one.
InsertionPointSecond(s, price) ==
    IF Better(s, price, level[best[s]].price_) THEN best[s] ELSE level[best[s]].next

\* The level before which AddOrdersAtPrice places a new one: the first that
\* is not better, or the best one again (so that the new one comes last).
InsertionPoint(s, price) ==
    LET worse == {k \in 1 .. Len(Levels(s)) : ~Better(s, level[Levels(s)[k]].price_, price)}
    IN  IF worse = {} THEN best[s]
        ELSE Levels(s)[CHOOSE k \in worse : \A j \in worse : k <= j]

\* A level for the order in block b, alone in it, linked into its side.
AddOrdersAtPrice(s, price, b) ==
    LET l    == orders_at_price_pool_.next_free_index_
        pool == Allocate(orders_at_price_pool_,
                         [side_ |-> s, price_ |-> price, first_mkt_order_ |-> b,
                          prev |-> l, next |-> l])
    IN  /\ price_orders_at_price_' = [price_orders_at_price_ EXCEPT ![PriceToIndex(price)] = l]
        /\ orders_at_price_pool_' =
               IF best[s] = nullptr THEN pool
               ELSE [pool EXCEPT !.object_ = LinkBefore(@, l, InsertionPoint(s, price))]
        /\ best' = IF best[s] = nullptr \/ Better(s, price, level[best[s]].price_)
                   THEN [best EXCEPT ![s] = l] ELSE best

\* AddOrder: at the end of the orders of its price.
AddOrder(id, s, price) ==
    LET b    == order_pool_.next_free_index_
        l    == GetOrdersAtPrice(price)
        pool == Allocate(order_pool_, [order_id_ |-> id, side_ |-> s, price_ |-> price,
                                       qty_ |-> NewQty, prev |-> nullptr,
                                       next |-> nullptr])
    IN  /\ oid_to_order_' = [oid_to_order_ EXCEPT ![id] = b]
        /\ \/ /\ l = nullptr
              /\ order_pool_' = [pool EXCEPT !.object_[b] = [@ EXCEPT !.prev = b, !.next = b]]
              /\ AddOrdersAtPrice(s, price, b)
           \/ /\ l # nullptr
              /\ order_pool_' = [pool EXCEPT !.object_ =
                                    LinkBefore(@, b, level[l].first_mkt_order_)]
              /\ UNCHANGED <<orders_at_price_pool_, price_orders_at_price_, best>>

\* The exchange's book stays uncrossed.
Uncrossed(s, price) ==
    \A id \in DOMAIN book :
        book[id].side # s => Better(s, book[id].price, price)

\* An ADD that ends the process: the id is beyond the map, or a pool is down
\* to its last block.
Fails(id, price) ==
    \/ id \notin DOMAIN oid_to_order_
    \/ ~CanAllocate(order_pool_)
    \/ GetOrdersAtPrice(price) = nullptr /\ ~CanAllocate(orders_at_price_pool_)

OnAdd(id, s, price) ==
    /\ running /\ id > last_id /\ Uncrossed(s, price)
    /\ ~Fails(id, price)
    /\ AddOrder(id, s, price)
    /\ UpdateBbo(s, price)
    /\ book' = With(book, id, [side |-> s, price |-> price, qty |-> NewQty])
    /\ last_id' = id
    /\ UNCHANGED running

OnAddFails(id, s, price) ==
    /\ running /\ id > last_id /\ Uncrossed(s, price)
    /\ Fails(id, price)
    /\ running' = FALSE /\ last_id' = id
    /\ UNCHANGED <<order_pool_, oid_to_order_, orders_at_price_pool_,
                   price_orders_at_price_, best, bbo_, book>>

-----------------------------------------------------------------------------
(* MODIFY, CANCEL, CLEAR.                                                  *)

OnModify(id, qty) ==
    /\ running /\ id \in DOMAIN book /\ qty < book[id].qty
    /\ order_pool_' = [order_pool_ EXCEPT !.object_[oid_to_order_[id]].qty_ = qty]
    /\ UNCHANGED <<orders_at_price_pool_, best>>
    /\ UpdateBbo(book[id].side, book[id].price)
    /\ book' = [book EXCEPT ![id].qty = qty]
    /\ UNCHANGED <<oid_to_order_, price_orders_at_price_, running, last_id>>

\* RemoveOrdersAtPrice: the level leaves its list, the map and the pool.
RemoveOrdersAtPrice(s, price) ==
    LET l     == GetOrdersAtPrice(price)
        alone == level[l].next = l
    IN  /\ best' = IF alone THEN [best EXCEPT ![s] = nullptr]
                   ELSE IF l = best[s] THEN [best EXCEPT ![s] = level[l].next]
                   ELSE best
        /\ orders_at_price_pool_' =
               Deallocate([orders_at_price_pool_ EXCEPT !.object_ =
                              IF alone THEN @ ELSE Unlink(@, l)], {l})
        /\ price_orders_at_price_' =
               [price_orders_at_price_ EXCEPT ![PriceToIndex(price)] = nullptr]

\* RemoveOrder, and its level when it was the only order there.
RemoveOrder(b) ==
    LET l     == GetOrdersAtPrice(order[b].price_)
        alone == order[b].prev = b
    IN  /\ \/ alone /\ RemoveOrdersAtPrice(order[b].side_, order[b].price_)
           \/ /\ ~alone
              /\ orders_at_price_pool_' =
                     IF level[l].first_mkt_order_ # b THEN orders_at_price_pool_
                     ELSE [orders_at_price_pool_ EXCEPT
                              !.object_[l].first_mkt_order_ = order[b].next]
              /\ UNCHANGED <<price_orders_at_price_, best>>
        /\ order_pool_' = Deallocate([order_pool_ EXCEPT !.object_ =
                                         IF alone THEN @ ELSE Unlink(@, b)], {b})
        /\ oid_to_order_' = [oid_to_order_ EXCEPT ![order[b].order_id_] = nullptr]

OnCancel(id) ==
    /\ running /\ id \in DOMAIN book
    /\ RemoveOrder(oid_to_order_[id])
    /\ UpdateBbo(book[id].side, book[id].price)
    /\ book' = Without(book, id)
    /\ UNCHANGED <<running, last_id>>

\* CLEAR starts a recovery: the snapshot's orders follow, here ones newer than
\* all before.  Its side is INVALID, so the best bid and offer stay; so does
\* price_orders_at_price_.
OnClear ==
    /\ running
    /\ Recoveries \/ book = <<>>
    /\ order_pool_' = Deallocate(order_pool_, Range(oid_to_order_))
    /\ oid_to_order_' = [id \in DOMAIN oid_to_order_ |-> nullptr]
    /\ orders_at_price_pool_' =
           Deallocate(orders_at_price_pool_, UNION {Range(Levels(s)) : s \in Sides})
    /\ best' = [s \in Sides |-> nullptr]
    /\ book' = <<>>
    /\ UNCHANGED <<price_orders_at_price_, bbo_, running, last_id>>

Next ==
    \/ \E id \in 1 .. ME_MAX_ORDER_IDS, s \in Sides, price \in Prices :
           OnAdd(id, s, price) \/ OnAddFails(id, s, price)
    \/ \E id \in DOMAIN book : \E qty \in 1 .. NewQty - 1 : OnModify(id, qty)
    \/ \E id \in DOMAIN book : OnCancel(id)
    \/ OnClear

Spec == Init /\ [][Next]_vars

TypeOK ==
    /\ order_pool_ \in Pools(ME_MAX_ORDER_IDS, TradingOrder)
    /\ oid_to_order_ \in [1 .. ME_MAX_ORDER_IDS - 1 -> 0 .. ME_MAX_ORDER_IDS]
    /\ orders_at_price_pool_ \in Pools(ME_MAX_PRICE_LEVELS, TradingOrdersAtPrice)
    /\ price_orders_at_price_ \in
           [0 .. ME_MAX_PRICE_LEVELS - 1 -> 0 .. ME_MAX_PRICE_LEVELS]
    /\ best \in [Sides -> 0 .. ME_MAX_PRICE_LEVELS]
    /\ bbo_ \in [Sides -> BBO]
    /\ running \in BOOLEAN
    /\ last_id \in 0 .. ME_MAX_ORDER_IDS

-----------------------------------------------------------------------------
(* Properties.                                                             *)

\* The orders of a side at a price, or at any.
IdsAt(s, p) == {id \in DOMAIN book : book[id].side = s /\ book[id].price = p}
IdsOf(s) == {id \in DOMAIN book : book[id].side = s}

(* Following the list of a side from its best level shows the exchange's   *)
(* book: its prices in order, at each of them its orders by age, and every *)
(* order with its quantity.  And the way back is the way there             *)
(* (trading_order_book.hpp:118, 141).                                      *)
ListsShowTheBook ==
    \A s \in Sides :
        LET ls == Levels(s)
        IN  /\ \A j, k \in 1 .. Len(ls) :
                   j < k => Better(s, level[ls[j]].price_, level[ls[k]].price_)
            /\ {level[l].price_ : l \in Range(ls)} = {book[id].price : id \in IdsOf(s)}
            /\ \A l \in Range(ls) :
                   LET os == Orders(l)
                   IN  /\ \A j, k \in 1 .. Len(os) :
                              j < k => order[os[j]].order_id_ < order[os[k]].order_id_
                       /\ {<<order[b].order_id_, order[b].qty_>> : b \in Range(os)} =
                              {<<id, book[id].qty>> : id \in IdsAt(s, level[l].price_)}
                       /\ level[level[l].next].prev = l
                       /\ \A b \in Range(os) : order[order[b].next].prev = b

(* No block is lost, handed out twice, or pointed to after it was freed:   *)
(* the blocks in use are those the maps point at, and those are the lists' *)
(* (memory_pool.hpp:26, trading_order_book.hpp:178).                       *)
PoolsAccountForAll ==
    LET levels == UNION {Range(Levels(s)) : s \in Sides}
    IN  /\ InUse(order_pool_) = Range(oid_to_order_) \ {nullptr}
        /\ InUse(order_pool_) = UNION {Range(Orders(l)) : l \in levels}
        /\ InUse(orders_at_price_pool_) = Range(price_orders_at_price_) \ {nullptr}
        /\ InUse(orders_at_price_pool_) = levels

(* The order pool never ends the process: it has a block for every id.     *)
(* Ids beyond the map do, and a price for the last free level, when every  *)
(* other index is taken (memory_pool.hpp:79, trading_order_book.hpp:220).  *)
EndsOnlyAtItsLimits ==
    ~running =>
        \/ last_id = ME_MAX_ORDER_IDS
        \/ Cardinality({book[id].price : id \in DOMAIN book}) = ME_MAX_PRICE_LEVELS - 1

(* As long as no CLEAR takes orders out of the book, the best bid and      *)
(* offer may be missing but not wrong: each side is the best price with    *)
(* all its quantity (trading_order.hpp:100), or unset                      *)
(* (trading_order_book.cpp:25, 84).                                        *)
BboExactOrUnset == \A s \in Sides : bbo_[s] \in {Best(s), Unset}
=============================================================================
