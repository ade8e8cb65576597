----------------------- MODULE ExchangeOrderBookProofs -----------------------
(***************************************************************************)
(* The order book keeps its structure, its price-time order and an         *)
(* uncrossed market for every set of clients, prices and quantities,       *)
(* provided no two prices in use fall on the same index of the price map.  *)
(***************************************************************************)
EXTENDS ExchangeOrderBook, FiniteSetTheorems, TLAPS

\* The assumption price_orders_at_price_ rests on: a price index stands for
\* one price.
PricesApartModLevels ==
    \A p, q \in Prices : PriceToIndex(p) = PriceToIndex(q) => p = q

\* The shape of the book's own state.
BookType ==
    /\ DOMAIN orders \subseteq MarketOrderIds
    /\ orders \in [DOMAIN orders -> Order]
    /\ DOMAIN price_orders_at_price_ \subseteq LevelIndices
    /\ price_orders_at_price_ \in [DOMAIN price_orders_at_price_ -> Level]
    /\ by_price \in [Sides -> Seq(LevelIndices)]
    /\ cid_oid_to_order_ \in [Clients \X ClientOrderIds ->
                                  MarketOrderIds \cup {INVALID}]

\* Levels are filed under the index of their price.
LevelsFiled ==
    \A idx \in DOMAIN price_orders_at_price_ :
        PriceToIndex(price_orders_at_price_[idx].price) = idx

\* What a client can cancel is its own resting order.
MapInv ==
    \A co \in Clients \X ClientOrderIds :
        cid_oid_to_order_[co] # INVALID =>
            /\ cid_oid_to_order_[co] \in DOMAIN orders
            /\ co = <<orders[cid_oid_to_order_[co]].client_id,
                      orders[cid_oid_to_order_[co]].client_order_id>>

\* Market order ids are handed out once, in increasing order.
IdInv ==
    /\ \A id \in DOMAIN orders : id < next_market_order_id_
    /\ pc = "match" =>
           /\ request.market_order_id < next_market_order_id_
           /\ \A id \in DOMAIN orders : id < request.market_order_id

BookInv ==
    /\ BookType
    /\ LevelsFiled
    /\ LevelsHoldTheirPrice
    /\ OrdersLinked
    /\ LevelsInArrivalOrder
    /\ LevelsLinked
    /\ SidesSorted
    /\ MapInv
    /\ NotCrossed

IInv == TypeOK /\ BookInv /\ IdInv

-----------------------------------------------------------------------------
(* Facts about the helpers.                                                *)

\* PriceToIndex stays inside the price map.
LEMMA IndexInMap ==
    ASSUME NEW p \in Prices
    PROVE  PriceToIndex(p) \in LevelIndices
  BY BookAssumption DEF PriceToIndex, LevelIndices

\* t is s with e at position k.
IsInsertion(t, s, k, e) ==
    /\ Len(t) = Len(s) + 1
    /\ \A i \in 1 .. Len(s) + 1 :
           t[i] = IF i < k THEN s[i] ELSE IF i = k THEN e ELSE s[i - 1]

\* Linking an element into a list keeps the others, in order.
LEMMA InsertedAtFacts ==
    ASSUME NEW S, NEW s \in Seq(S), NEW e \in S, NEW k \in 1 .. Len(s) + 1
    PROVE  /\ InsertedAt(s, k, e) \in Seq(S)
           /\ IsInsertion(InsertedAt(s, k, e), s, k, e)
  <1>1. \A i \in 1 .. Len(s) + 1 :
            (IF i < k THEN s[i] ELSE IF i = k THEN e ELSE s[i - 1]) \in S
    OBVIOUS
  <1>2. InsertedAt(s, k, e) \in [1 .. Len(s) + 1 -> S]
    BY <1>1 DEF InsertedAt
  <1>3. Len(s) + 1 \in Nat
    OBVIOUS
  <1> QED BY <1>2, <1>3 DEF InsertedAt, IsInsertion

\* t is s without the element at position k: the other elements are all there
\* and keep their order.
IsRemoval(t, s, k) ==
    /\ Len(t) = Len(s) - 1
    /\ \A i \in 1 .. Len(s) : i # k => \E j \in 1 .. Len(t) : t[j] = s[i]
    /\ \A i \in 1 .. Len(t) : \E n \in 1 .. Len(s) : n # k /\ t[i] = s[n]
    /\ \A i, j \in 1 .. Len(t) : i < j =>
           \E m, n \in 1 .. Len(s) : m < n /\ t[i] = s[m] /\ t[j] = s[n]

\* Unlinking an element of a list keeps the others, in order.
LEMMA RemovedAtFacts ==
    ASSUME NEW S, NEW s \in Seq(S), NEW k \in 1 .. Len(s)
    PROVE  RemovedAt(s, k) \in Seq(S) /\ IsRemoval(RemovedAt(s, k), s, k)
  <1>1. \A i \in 1 .. Len(s) - 1 : (IF i < k THEN s[i] ELSE s[i + 1]) \in S
    OBVIOUS
  <1>2. RemovedAt(s, k) \in [1 .. Len(s) - 1 -> S]
    BY <1>1 DEF RemovedAt
  <1>3. Len(s) - 1 \in Nat
    OBVIOUS
  <1>4. \A i \in 1 .. Len(s) - 1 :
            RemovedAt(s, k)[i] = IF i < k THEN s[i] ELSE s[i + 1]
    BY DEF RemovedAt
  <1>5. ASSUME NEW i \in 1 .. Len(s), i # k
        PROVE  \E j \in 1 .. Len(s) - 1 : RemovedAt(s, k)[j] = s[i]
    <2>1. CASE i < k
      <3>1. i \in 1 .. Len(s) - 1
        BY <2>1
      <3> QED BY <2>1, <3>1, <1>4
    <2>2. CASE i > k
      <3>1. i - 1 \in 1 .. Len(s) - 1 /\ ~(i - 1 < k) /\ i - 1 + 1 = i
        BY <2>2
      <3>2. RemovedAt(s, k)[i - 1] = s[i]
        BY <3>1, <1>4
      <3> QED BY <3>1, <3>2
    <2> QED BY <1>5, <2>1, <2>2
  <1>6. RemovedAt(s, k) \in Seq(S) /\ Len(RemovedAt(s, k)) = Len(s) - 1
    BY <1>2, <1>3 DEF RemovedAt
  <1> DEFINE place(i) == IF i < k THEN i ELSE i + 1
  <1>7. \A i \in 1 .. Len(s) - 1 :
            /\ place(i) \in 1 .. Len(s) /\ place(i) # k
            /\ RemovedAt(s, k)[i] = s[place(i)]
    BY <1>4
  <1>8. \A i, j \in 1 .. Len(s) - 1 : i < j => place(i) < place(j)
    OBVIOUS
  <1> HIDE DEF place
  <1>9. \A i, j \in 1 .. Len(s) - 1 : i < j =>
            \E m, n \in 1 .. Len(s) : /\ m < n
                                      /\ RemovedAt(s, k)[i] = s[m]
                                      /\ RemovedAt(s, k)[j] = s[n]
    BY <1>7, <1>8
  <1>10. \A i \in 1 .. Len(s) - 1 :
             \E n \in 1 .. Len(s) : n # k /\ RemovedAt(s, k)[i] = s[n]
    BY <1>7
  <1> QED BY <1>5, <1>6, <1>9, <1>10 DEF IsRemoval

\* Every order stands in the level of its own price and side.
LEMMA OrderInLevel ==
    ASSUME BookInv, NEW id \in DOMAIN orders
    PROVE  LET idx == PriceToIndex(orders[id].price)
           IN  /\ idx \in DOMAIN price_orders_at_price_
               /\ price_orders_at_price_[idx].price = orders[id].price
               /\ price_orders_at_price_[idx].side = orders[id].side
               /\ \E k \in 1 .. Len(price_orders_at_price_[idx].orders) :
                      price_orders_at_price_[idx].orders[k] = id
  BY DEF BookInv, OrdersLinked, LevelsHoldTheirPrice

\* The first order of the first level of a side is the best of the side.
LEMMA BestIsBest ==
    ASSUME BookInv, NEW side \in Sides, by_price[side] # <<>>
    PROVE  LET id == price_orders_at_price_[by_price[side][1]].orders[1]
           IN  /\ id \in DOMAIN orders
               /\ orders[id].side = side
               /\ \A j \in DOMAIN orders : orders[j].side = side =>
                      \/ j = id
                      \/ Worse(side, orders[j].price, orders[id].price)
                      \/ orders[j].price = orders[id].price /\ id < j
  <1> DEFINE list  == by_price[side]
             top   == price_orders_at_price_[list[1]]
             id    == top.orders[1]
  <1>1. list \in Seq(LevelIndices) /\ Len(list) >= 1
    BY DEF BookInv, BookType
  <1>2. /\ list[1] \in DOMAIN price_orders_at_price_
        /\ top.side = side
    BY <1>1 DEF BookInv, SidesSorted
  <1>3. top \in Level /\ Len(top.orders) > 0 /\ Len(top.orders) \in Nat
    BY <1>2 DEF BookInv, BookType, LevelsInArrivalOrder, Level
  <1>4. /\ id \in DOMAIN orders
        /\ orders[id].side = side
        /\ orders[id].price = top.price
    BY <1>2, <1>3 DEF BookInv, LevelsHoldTheirPrice
  <1>5. ASSUME NEW j \in DOMAIN orders, orders[j].side = side
        PROVE  \/ j = id
               \/ Worse(side, orders[j].price, orders[id].price)
               \/ orders[j].price = orders[id].price /\ id < j
    <2> DEFINE idx == PriceToIndex(orders[j].price)
               level == price_orders_at_price_[idx]
    <2>1. /\ idx \in DOMAIN price_orders_at_price_
          /\ level.price = orders[j].price
          /\ level.side = side
      BY <1>5, OrderInLevel
    <2>2. PICK k \in 1 .. Len(level.orders) : level.orders[k] = j
      BY OrderInLevel
    <2>3. PICK m \in 1 .. Len(list) : list[m] = idx
      BY <2>1 DEF BookInv, LevelsLinked
    <2>4. CASE m = 1
      <3>1. level = top
        BY <2>3, <2>4
      <3>2. CASE k = 1
        BY <2>2, <3>1, <3>2
      <3>3. CASE k # 1
        <4>1. 1 \in 1 .. Len(level.orders) /\ 1 < k
          BY <2>2, <3>1, <3>3, <1>3
        <4>2. level.orders[1] < level.orders[k]
          BY <2>1, <4>1 DEF BookInv, LevelsInArrivalOrder
        <4> QED BY <2>1, <2>2, <3>1, <4>2, <1>4
      <3> QED BY <3>2, <3>3
    <2>5. CASE m # 1
      <3>1. 1 \in 1 .. Len(list) /\ 1 < m
        BY <1>1, <2>5
      <3>2. Worse(side, price_orders_at_price_[list[m]].price, top.price)
        BY <3>1 DEF BookInv, SidesSorted
      <3> QED BY <3>2, <2>1, <2>3, <1>4
    <2> QED BY <2>4, <2>5
  <1> HIDE DEF id
  <1> QED BY <1>4, <1>5 DEF id

-----------------------------------------------------------------------------
(* Each way the book changes keeps its invariant.                          *)

\* A partial fill changes one quantity and nothing the structure depends on.
LEMMA PartialFillKeeps ==
    ASSUME BookInv, NEW id \in DOMAIN orders, NEW q \in Nat,
           orders' = [orders EXCEPT ![id].qty = q],
           UNCHANGED <<price_orders_at_price_, by_price, cid_oid_to_order_>>
    PROVE  BookInv' /\ DOMAIN orders' = DOMAIN orders
  <1>1. DOMAIN orders' = DOMAIN orders
    OBVIOUS
  <1>2. orders \in [DOMAIN orders -> Order]
    BY DEF BookInv, BookType
  <1>3. \A j \in DOMAIN orders :
            /\ orders'[j] \in Order
            /\ orders'[j].side = orders[j].side
            /\ orders'[j].price = orders[j].price
            /\ orders'[j].priority = orders[j].priority
            /\ orders'[j].client_id = orders[j].client_id
            /\ orders'[j].client_order_id = orders[j].client_order_id
    BY <1>2 DEF Order
  <1>4. orders' \in [DOMAIN orders' -> Order]
    BY <1>1, <1>3
  <1>5. BookType'
    BY <1>1, <1>4 DEF BookInv, BookType
  <1>6. LevelsFiled' /\ LevelsLinked' /\ SidesSorted'
    BY DEF BookInv, LevelsFiled, LevelsLinked, SidesSorted
  <1>7. LevelsHoldTheirPrice'
    BY <1>1, <1>3 DEF BookInv, LevelsHoldTheirPrice
  <1>8. OrdersLinked'
    BY <1>1, <1>3 DEF BookInv, OrdersLinked
  <1>9. LevelsInArrivalOrder'
    BY <1>1, <1>3 DEF BookInv, LevelsInArrivalOrder, LevelsHoldTheirPrice
  <1>10. MapInv'
    BY <1>1, <1>3 DEF BookInv, MapInv
  <1>11. NotCrossed'
    BY <1>1, <1>3 DEF BookInv, NotCrossed
  <1> QED BY <1>1, <1>5, <1>6, <1>7, <1>8, <1>9, <1>10, <1>11 DEF BookInv

\* RemoveOrder, for a fill and for a cancel: the order leaves its level, and a
\* level left empty leaves its side.
LEMMA RemoveOrderKeeps ==
    ASSUME BookInv, NEW id \in DOMAIN orders, RemoveOrder(id)
    PROVE  BookInv' /\ DOMAIN orders' = DOMAIN orders \ {id}
  <1> DEFINE o     == orders[id]
             idx   == PriceToIndex(o.price)
             level == price_orders_at_price_[idx]
             ring  == level.orders
  <1>1. /\ idx \in DOMAIN price_orders_at_price_
        /\ level.price = o.price /\ level.side = o.side
        /\ level \in Level /\ ring \in Seq(MarketOrderIds)
        /\ o \in Order
    BY OrderInLevel DEF BookInv, BookType, Level
  <1>2. PICK k0 \in 1 .. Len(ring) : ring[k0] = id
    BY OrderInLevel
  <1>3. /\ DOMAIN orders' = DOMAIN orders \ {id}
        /\ \A j \in DOMAIN orders' : j \in DOMAIN orders /\ orders'[j] = orders[j]
    BY DEF RemoveOrder, Without
  <1>4. cid_oid_to_order_' =
            [cid_oid_to_order_ EXCEPT ![<<o.client_id, o.client_order_id>>] = INVALID]
    BY DEF RemoveOrder
  <1>5. /\ DOMAIN orders' \subseteq MarketOrderIds
        /\ orders' \in [DOMAIN orders' -> Order]
        /\ cid_oid_to_order_' \in [Clients \X ClientOrderIds ->
                                      MarketOrderIds \cup {INVALID}]
    <2>1. orders' = [j \in DOMAIN orders \ {id} |-> orders[j]]
      BY DEF RemoveOrder, Without
    <2> QED BY <1>3, <1>4, <2>1 DEF BookInv, BookType
  <1>6. MapInv'
    <2> SUFFICES ASSUME NEW co \in Clients \X ClientOrderIds,
                        cid_oid_to_order_'[co] # INVALID
                 PROVE  /\ cid_oid_to_order_'[co] \in DOMAIN orders'
                        /\ co = <<orders'[cid_oid_to_order_'[co]].client_id,
                                  orders'[cid_oid_to_order_'[co]].client_order_id>>
      BY DEF MapInv
    <2>1. co # <<o.client_id, o.client_order_id>>
          /\ cid_oid_to_order_'[co] = cid_oid_to_order_[co]
      BY <1>4 DEF BookInv, BookType
    <2>2. cid_oid_to_order_[co] # id /\ cid_oid_to_order_[co] \in DOMAIN orders
      BY <2>1 DEF BookInv, MapInv
    <2> QED BY <2>1, <2>2, <1>3 DEF BookInv, MapInv
  <1>7. NotCrossed'
    BY <1>3 DEF BookInv, NotCrossed
  <1>8. CASE Len(ring) = 1
    <2>0. RemoveOrdersAtPrice(o.side, o.price)
      BY <1>8 DEF RemoveOrder
    <2>1. /\ DOMAIN price_orders_at_price_' = DOMAIN price_orders_at_price_ \ {idx}
          /\ \A i \in DOMAIN price_orders_at_price_' :
                 /\ i \in DOMAIN price_orders_at_price_
                 /\ price_orders_at_price_'[i] = price_orders_at_price_[i]
          /\ price_orders_at_price_' \in [DOMAIN price_orders_at_price_' -> Level]
      BY <2>0 DEF RemoveOrdersAtPrice, Without, BookInv, BookType
    <2> DEFINE list == by_price[o.side]
    <2>2. PICK k \in 1 .. Len(list) :
              /\ list[k] = idx
              /\ by_price' = [by_price EXCEPT ![o.side] = RemovedAt(list, k)]
      BY <2>0 DEF RemoveOrdersAtPrice
    <2>3. list \in Seq(LevelIndices) /\ o.side \in Sides
      BY <1>1 DEF BookInv, BookType, Order
    <2> DEFINE nlist == RemovedAt(list, k)
    <2>4. nlist \in Seq(LevelIndices) /\ IsRemoval(nlist, list, k)
      BY <2>3, RemovedAtFacts
    <2> HIDE DEF nlist
    <2>5. /\ by_price' \in [Sides -> Seq(LevelIndices)]
          /\ by_price'[o.side] = nlist
          /\ \A side \in Sides : side # o.side => by_price'[side] = by_price[side]
      BY <2>2, <2>3, <2>4 DEF BookInv, BookType, nlist
    <2>6. BookType'
      BY <1>5, <2>1, <2>5 DEF BookInv, BookType
    <2>7. \A j \in DOMAIN orders' : PriceToIndex(orders'[j].price) # idx
      <3> SUFFICES ASSUME NEW j \in DOMAIN orders, j # id,
                          PriceToIndex(orders[j].price) = idx
                   PROVE  FALSE
        BY <1>3
      <3>1. PICK m \in 1 .. Len(ring) : ring[m] = j
        BY OrderInLevel
      <3> QED BY <3>1, <1>2, <1>8
    <2>8. LevelsFiled'
      BY <2>1 DEF BookInv, LevelsFiled
    <2>9. LevelsHoldTheirPrice'
      <3> SUFFICES ASSUME NEW i \in DOMAIN price_orders_at_price_',
                          NEW m \in 1 .. Len(price_orders_at_price_[i].orders)
                   PROVE  LET x == price_orders_at_price_[i].orders[m]
                          IN  /\ x \in DOMAIN orders'
                              /\ orders'[x].side = price_orders_at_price_[i].side
                              /\ orders'[x].price = price_orders_at_price_[i].price
        BY <2>1 DEF LevelsHoldTheirPrice
      <3> DEFINE x == price_orders_at_price_[i].orders[m]
      <3>1. /\ x \in DOMAIN orders
            /\ orders[x].side = price_orders_at_price_[i].side
            /\ orders[x].price = price_orders_at_price_[i].price
            /\ i # idx
        BY <2>1 DEF BookInv, LevelsHoldTheirPrice
      <3>2. x # id
        BY <3>1, <2>1 DEF BookInv, LevelsFiled
      <3> QED BY <3>1, <3>2, <1>3
    <2>10. OrdersLinked'
      BY <1>3, <2>1, <2>7 DEF BookInv, OrdersLinked
    <2>11. LevelsInArrivalOrder'
      <3> SUFFICES ASSUME NEW i \in DOMAIN price_orders_at_price_'
                   PROVE  LET r == price_orders_at_price_[i].orders
                          IN  /\ Len(r) > 0
                              /\ \A j, m \in 1 .. Len(r) :
                                   j < m => /\ r[j] < r[m]
                                            /\ orders'[r[j]].priority
                                                 < orders'[r[m]].priority
        BY <2>1 DEF LevelsInArrivalOrder
      <3>1. \A m \in 1 .. Len(price_orders_at_price_[i].orders) :
                orders'[price_orders_at_price_[i].orders[m]]
                  = orders[price_orders_at_price_[i].orders[m]]
        BY <1>3, <2>1, <2>9 DEF LevelsHoldTheirPrice
      <3> QED BY <3>1, <2>1 DEF BookInv, LevelsInArrivalOrder
    <2>12. LevelsLinked'
      <3> SUFFICES ASSUME NEW i \in DOMAIN price_orders_at_price_'
                   PROVE  \E m \in 1 .. Len(by_price'[price_orders_at_price_[i].side]) :
                              by_price'[price_orders_at_price_[i].side][m] = i
        BY <2>1 DEF LevelsLinked
      <3>1. i \in DOMAIN price_orders_at_price_ /\ i # idx
            /\ price_orders_at_price_[i].side \in Sides
        BY <2>1 DEF BookInv, BookType, Level
      <3>2. PICK m \in 1 .. Len(by_price[price_orders_at_price_[i].side]) :
                by_price[price_orders_at_price_[i].side][m] = i
        BY <3>1 DEF BookInv, LevelsLinked
      <3>3. CASE price_orders_at_price_[i].side = o.side
        <4>1. m \in 1 .. Len(list) /\ m # k /\ list[m] = i
          BY <3>1, <3>2, <3>3, <2>2
        <4>2. \E j \in 1 .. Len(nlist) : nlist[j] = i
          BY <4>1, <2>4 DEF IsRemoval
        <4> QED BY <3>3, <4>2, <2>5
      <3>4. CASE price_orders_at_price_[i].side # o.side
        BY <3>1, <3>2, <3>4, <2>5
      <3> QED BY <3>3, <3>4
    <2>13. SidesSorted'
      <3> SUFFICES ASSUME NEW side \in Sides
                   PROVE  LET l == by_price'[side]
                          IN  /\ \A m \in 1 .. Len(l) :
                                   /\ l[m] \in DOMAIN price_orders_at_price_'
                                   /\ price_orders_at_price_'[l[m]].side = side
                              /\ \A j, m \in 1 .. Len(l) : j < m =>
                                   Worse(side, price_orders_at_price_'[l[m]].price,
                                               price_orders_at_price_'[l[j]].price)
        BY DEF SidesSorted
      <3>1. /\ \A m \in 1 .. Len(by_price[side]) :
                 /\ by_price[side][m] \in DOMAIN price_orders_at_price_
                 /\ price_orders_at_price_[by_price[side][m]].side = side
            /\ \A j, m \in 1 .. Len(by_price[side]) : j < m =>
                 Worse(side, price_orders_at_price_[by_price[side][m]].price,
                             price_orders_at_price_[by_price[side][j]].price)
        BY DEF BookInv, SidesSorted
      <3>2. CASE side # o.side
        <4>1. \A m \in 1 .. Len(by_price[side]) : by_price[side][m] # idx
          BY <3>1, <3>2, <1>1
        <4> QED BY <3>1, <3>2, <4>1, <2>1, <2>5
      <3>3. CASE side = o.side
        <4>1. \A m \in 1 .. Len(list) : m # k => list[m] # idx
          <5> SUFFICES ASSUME NEW m \in 1 .. Len(list), m # k, list[m] = idx
                       PROVE  FALSE
            OBVIOUS
          <5>1. level.price \in Nat
            BY <1>1, BookAssumption DEF Level
          <5>2. m < k \/ k < m
            BY <2>3
          <5>3. Worse(side, level.price, level.price)
            BY <3>1, <3>3, <2>2, <5>2
          <5> QED BY <5>1, <5>3 DEF Worse
        <4>2. \A m \in 1 .. Len(nlist) :
                  /\ nlist[m] \in DOMAIN price_orders_at_price_'
                  /\ price_orders_at_price_'[nlist[m]].side = side
          <5> SUFFICES ASSUME NEW m \in 1 .. Len(nlist)
                       PROVE  /\ nlist[m] \in DOMAIN price_orders_at_price_'
                              /\ price_orders_at_price_'[nlist[m]].side = side
            OBVIOUS
          <5>1. PICK n \in 1 .. Len(list) : n # k /\ nlist[m] = list[n]
            BY <2>4 DEF IsRemoval
          <5> QED BY <5>1, <4>1, <3>1, <3>3, <2>1
        <4>3. \A j, m \in 1 .. Len(nlist) : j < m =>
                  Worse(side, price_orders_at_price_[nlist[m]].price,
                              price_orders_at_price_[nlist[j]].price)
          <5> SUFFICES ASSUME NEW j \in 1 .. Len(nlist), NEW m \in 1 .. Len(nlist),
                              j < m
                       PROVE  Worse(side, price_orders_at_price_[nlist[m]].price,
                                          price_orders_at_price_[nlist[j]].price)
            OBVIOUS
          <5>1. PICK a, b \in 1 .. Len(list) :
                    a < b /\ nlist[j] = list[a] /\ nlist[m] = list[b]
            BY <2>4 DEF IsRemoval
          <5> QED BY <5>1, <3>1, <3>3
        <4> QED BY <4>2, <4>3, <3>3, <2>1, <2>5
      <3> QED BY <3>2, <3>3
    <2> QED BY <1>3, <1>6, <1>7, <2>6, <2>8, <2>9, <2>10, <2>11, <2>12, <2>13
            DEF BookInv
  <1>9. CASE Len(ring) # 1
    <2>1. PICK k \in 1 .. Len(ring) :
              /\ ring[k] = id
              /\ price_orders_at_price_' =
                   [price_orders_at_price_ EXCEPT ![idx].orders = RemovedAt(ring, k)]
      BY <1>9 DEF RemoveOrder
    <2>2. by_price' = by_price /\ Len(ring) > 1
      BY <1>9 DEF RemoveOrder
    <2> DEFINE nring == RemovedAt(ring, k)
    <2>3. nring \in Seq(MarketOrderIds) /\ IsRemoval(nring, ring, k)
      BY <1>1, RemovedAtFacts
    <2> HIDE DEF nring
    <2>4. /\ DOMAIN price_orders_at_price_' = DOMAIN price_orders_at_price_
          /\ price_orders_at_price_'[idx] = [level EXCEPT !.orders = nring]
          /\ \A i \in DOMAIN price_orders_at_price_ : i # idx =>
                 price_orders_at_price_'[i] = price_orders_at_price_[i]
      BY <1>1, <2>1 DEF nring
    <2>5. /\ price_orders_at_price_'[idx].price = level.price
          /\ price_orders_at_price_'[idx].side = level.side
          /\ price_orders_at_price_'[idx].orders = nring
          /\ price_orders_at_price_'[idx] \in Level
      BY <1>1, <2>3, <2>4 DEF Level
    <2>6. \A i \in DOMAIN price_orders_at_price_ :
              /\ price_orders_at_price_'[i].price = price_orders_at_price_[i].price
              /\ price_orders_at_price_'[i].side = price_orders_at_price_[i].side
      BY <2>4, <2>5
    <2>7. BookType'
      <3>1. price_orders_at_price_' \in [DOMAIN price_orders_at_price_' -> Level]
        BY <2>1, <2>4, <2>5 DEF BookInv, BookType
      <3> QED BY <1>5, <2>2, <2>4, <3>1 DEF BookInv, BookType
    <2>8. LevelsFiled' /\ LevelsLinked'
      BY <2>2, <2>4, <2>6 DEF BookInv, LevelsFiled, LevelsLinked
    <2>9. SidesSorted'
      BY <2>2, <2>4, <2>6 DEF BookInv, SidesSorted
    <2>10. \A i \in 1 .. Len(ring) : i # k => ring[i] # id
      <3> SUFFICES ASSUME NEW i \in 1 .. Len(ring), i # k, ring[i] = id
                   PROVE  FALSE
        OBVIOUS
      <3>1. id \in Nat /\ (i < k \/ k < i)
        BY <1>1 DEF BookInv, BookType, MarketOrderIds
      <3> QED BY <3>1, <2>1, <1>1 DEF BookInv, LevelsInArrivalOrder
    <2>11. LevelsHoldTheirPrice'
      <3> SUFFICES ASSUME NEW i \in DOMAIN price_orders_at_price_,
                          NEW m \in 1 .. Len(price_orders_at_price_'[i].orders)
                   PROVE  LET x == price_orders_at_price_'[i].orders[m]
                          IN  /\ x \in DOMAIN orders'
                              /\ orders'[x].side = price_orders_at_price_[i].side
                              /\ orders'[x].price = price_orders_at_price_[i].price
        BY <2>4, <2>6 DEF LevelsHoldTheirPrice
      <3>1. CASE i = idx
        <4>1. PICK n \in 1 .. Len(ring) :
                  n # k /\ price_orders_at_price_'[i].orders[m] = ring[n]
          BY <3>1, <2>3, <2>5 DEF IsRemoval
        <4>2. /\ ring[n] \in DOMAIN orders /\ ring[n] # id
              /\ orders[ring[n]].side = level.side
              /\ orders[ring[n]].price = level.price
          BY <4>1, <2>10, <1>1 DEF BookInv, LevelsHoldTheirPrice
        <4> QED BY <3>1, <4>1, <4>2, <1>3
      <3>2. CASE i # idx
        <4> DEFINE x == price_orders_at_price_[i].orders[m]
        <4>1. /\ x \in DOMAIN orders
              /\ orders[x].side = price_orders_at_price_[i].side
              /\ orders[x].price = price_orders_at_price_[i].price
          BY <3>2, <2>4 DEF BookInv, LevelsHoldTheirPrice
        <4>2. x # id
          BY <3>2, <4>1 DEF BookInv, LevelsFiled
        <4> QED BY <3>2, <4>1, <4>2, <2>4, <1>3
      <3> QED BY <3>1, <3>2
    <2>12. OrdersLinked'
      <3> SUFFICES ASSUME NEW j \in DOMAIN orders, j # id
                   PROVE  LET i == PriceToIndex(orders[j].price)
                          IN  /\ i \in DOMAIN price_orders_at_price_
                              /\ \E m \in 1 .. Len(price_orders_at_price_'[i].orders) :
                                     price_orders_at_price_'[i].orders[m] = j
        BY <1>3, <2>4 DEF OrdersLinked
      <3> DEFINE i == PriceToIndex(orders[j].price)
      <3>1. i \in DOMAIN price_orders_at_price_
        BY OrderInLevel
      <3>2. PICK m \in 1 .. Len(price_orders_at_price_[i].orders) :
                price_orders_at_price_[i].orders[m] = j
        BY OrderInLevel
      <3>3. CASE i = idx
        <4>1. m \in 1 .. Len(ring) /\ m # k
          BY <3>2, <3>3, <2>1
        <4>2. PICK n \in 1 .. Len(nring) : nring[n] = ring[m]
          BY <4>1, <2>3 DEF IsRemoval
        <4>3. nring[n] = j
          BY <4>2, <3>2, <3>3
        <4> QED BY <3>1, <3>3, <4>3, <2>5
      <3>4. CASE i # idx
        BY <3>1, <3>2, <3>4, <2>4
      <3> QED BY <3>3, <3>4
    <2>13. LevelsInArrivalOrder'
      <3> SUFFICES ASSUME NEW i \in DOMAIN price_orders_at_price_
                   PROVE  LET r == price_orders_at_price_'[i].orders
                          IN  /\ Len(r) > 0
                              /\ \A j, m \in 1 .. Len(r) :
                                   j < m => /\ r[j] < r[m]
                                            /\ orders'[r[j]].priority
                                                 < orders'[r[m]].priority
        BY <2>4 DEF LevelsInArrivalOrder
      <3>1. \A m \in 1 .. Len(price_orders_at_price_'[i].orders) :
                orders'[price_orders_at_price_'[i].orders[m]]
                  = orders[price_orders_at_price_'[i].orders[m]]
        BY <1>3, <2>4, <2>11 DEF LevelsHoldTheirPrice
      <3>2. CASE i = idx
        <4>1. \A j, m \in 1 .. Len(ring) : j < m =>
                  ring[j] < ring[m] /\ orders[ring[j]].priority < orders[ring[m]].priority
          BY <1>1 DEF BookInv, LevelsInArrivalOrder
        <4>2. \A j, m \in 1 .. Len(nring) : j < m =>
                  nring[j] < nring[m]
                    /\ orders[nring[j]].priority < orders[nring[m]].priority
          <5> SUFFICES ASSUME NEW j \in 1 .. Len(nring), NEW m \in 1 .. Len(nring),
                              j < m
                       PROVE  /\ nring[j] < nring[m]
                              /\ orders[nring[j]].priority < orders[nring[m]].priority
            OBVIOUS
          <5>1. PICK a, b \in 1 .. Len(ring) :
                    a < b /\ nring[j] = ring[a] /\ nring[m] = ring[b]
            BY <2>3 DEF IsRemoval
          <5> QED BY <5>1, <4>1
        <4>3. Len(nring) > 0
          BY <1>1, <2>2, <2>3 DEF IsRemoval
        <4> QED BY <3>1, <3>2, <4>2, <4>3, <2>5
      <3>3. CASE i # idx
        BY <3>1, <3>3, <2>4 DEF BookInv, LevelsInArrivalOrder
      <3> QED BY <3>2, <3>3
    <2> QED BY <1>3, <1>6, <1>7, <2>7, <2>8, <2>9, <2>11, <2>12, <2>13
            DEF BookInv
  <1> QED BY <1>8, <1>9

\* An order that crosses nothing fits the level of its price: one index, one
\* price, and orders of the other side at that price would have been matched.
LEMMA LevelFits ==
    ASSUME PricesApartModLevels, BookInv, NEW o \in Order,
           \A j \in DOMAIN orders : orders[j].side = Opposite(o.side) =>
               ~Crosses(o.side, o.price, orders[j].price),
           HasOrdersAtPrice(o.price)
    PROVE  LET level == price_orders_at_price_[PriceToIndex(o.price)]
           IN  level.price = o.price /\ level.side = o.side
  <1> DEFINE idx   == PriceToIndex(o.price)
             level == price_orders_at_price_[idx]
  <1>1. idx \in DOMAIN price_orders_at_price_ /\ level \in Level
    BY DEF HasOrdersAtPrice, BookInv, BookType
  <1>2. level.price = o.price
    BY <1>1 DEF PricesApartModLevels, BookInv, LevelsFiled, Level, Order
  <1>3. /\ Len(level.orders) >= 1
        /\ level.orders[1] \in DOMAIN orders
        /\ orders[level.orders[1]].side = level.side
        /\ orders[level.orders[1]].price = level.price
    <2>1. Len(level.orders) \in Nat /\ Len(level.orders) > 0
      BY <1>1 DEF BookInv, LevelsInArrivalOrder, Level
    <2> QED BY <1>1, <2>1 DEF BookInv, LevelsHoldTheirPrice
  <1>4. Crosses(o.side, o.price, o.price)
    <2>1. o.price \in Nat
      BY BookAssumption DEF Order
    <2> QED BY <2>1 DEF Crosses
  <1>5. level.side # Opposite(o.side)
    BY <1>2, <1>3, <1>4
  <1> QED BY <1>1, <1>2, <1>5 DEF Opposite, Sides, Level, Order

\* AddOrder: an order newer than all others that crosses nothing joins the
\* end of its level, or opens one in its place among the levels of its side.
LEMMA AddOrderKeeps ==
    ASSUME PricesApartModLevels, BookInv,
           NEW id \in MarketOrderIds, NEW o \in Order,
           \A j \in DOMAIN orders : j < id,
           o.priority = GetNextPriority(o.price),
           \A j \in DOMAIN orders : orders[j].side = Opposite(o.side) =>
               ~Crosses(o.side, o.price, orders[j].price),
           AddOrder(id, o)
    PROVE  BookInv' /\ DOMAIN orders' = DOMAIN orders \cup {id}
  <1> DEFINE idx == PriceToIndex(o.price)
  <1>1. /\ id \in Nat /\ id # INVALID /\ id \notin DOMAIN orders
        /\ idx \in LevelIndices
        /\ o.side \in Sides /\ o.price \in Prices /\ o.price \in Nat
        /\ \A j \in DOMAIN orders : orders[j] \in Order /\ orders[j].price \in Nat
    BY IndexInMap, BookAssumption
    DEF MarketOrderIds, INVALID, Order, BookInv, BookType
  <1>2. orders' = [j \in DOMAIN orders \cup {id} |-> IF j = id THEN o ELSE orders[j]]
    BY DEF AddOrder, With
  <1>3. /\ DOMAIN orders' = DOMAIN orders \cup {id}
        /\ orders'[id] = o
        /\ \A j \in DOMAIN orders : orders'[j] = orders[j]
    BY <1>1, <1>2
  <1>4. cid_oid_to_order_' =
            [cid_oid_to_order_ EXCEPT ![<<o.client_id, o.client_order_id>>] = id]
    BY DEF AddOrder
  <1>5. /\ DOMAIN orders' \subseteq MarketOrderIds
        /\ orders' \in [DOMAIN orders' -> Order]
        /\ cid_oid_to_order_' \in [Clients \X ClientOrderIds ->
                                      MarketOrderIds \cup {INVALID}]
    BY <1>2, <1>3, <1>4 DEF BookInv, BookType, Order
  <1>6. MapInv'
    <2> SUFFICES ASSUME NEW co \in Clients \X ClientOrderIds,
                        cid_oid_to_order_'[co] # INVALID
                 PROVE  /\ cid_oid_to_order_'[co] \in DOMAIN orders'
                        /\ co = <<orders'[cid_oid_to_order_'[co]].client_id,
                                  orders'[cid_oid_to_order_'[co]].client_order_id>>
      BY DEF MapInv
    <2>1. CASE co = <<o.client_id, o.client_order_id>>
      BY <2>1, <1>3, <1>4 DEF BookInv, BookType
    <2>2. CASE co # <<o.client_id, o.client_order_id>>
      <3>1. cid_oid_to_order_'[co] = cid_oid_to_order_[co]
        BY <2>2, <1>4 DEF BookInv, BookType
      <3> QED BY <3>1, <1>3 DEF BookInv, MapInv
    <2> QED BY <2>1, <2>2
  <1>7. NotCrossed'
    <2> SUFFICES ASSUME NEW i \in DOMAIN orders', NEW j \in DOMAIN orders',
                        orders'[i].side = "BUY", orders'[j].side = "SELL"
                 PROVE  orders'[i].price < orders'[j].price
      BY DEF NotCrossed
    <2>1. CASE i # id /\ j # id
      BY <2>1, <1>3 DEF BookInv, NotCrossed
    <2>2. CASE i = id
      <3>1. j # id /\ o.side = "BUY"
        BY <2>2, <1>3
      <3>2. ~Crosses(o.side, o.price, orders[j].price)
        BY <3>1, <1>3 DEF Opposite
      <3> QED BY <2>2, <3>1, <3>2, <1>1, <1>3 DEF Crosses
    <2>3. CASE j = id
      <3>1. i # id /\ o.side = "SELL"
        BY <2>3, <1>3
      <3>2. ~Crosses(o.side, o.price, orders[i].price)
        BY <3>1, <1>3 DEF Opposite
      <3> QED BY <2>3, <3>1, <3>2, <1>1, <1>3 DEF Crosses
    <2> QED BY <2>1, <2>2, <2>3
  <1>8. CASE HasOrdersAtPrice(o.price)
    <2> DEFINE level == price_orders_at_price_[idx]
               ring  == level.orders
    <2>1. /\ idx \in DOMAIN price_orders_at_price_
          /\ level \in Level /\ ring \in Seq(MarketOrderIds)
          /\ level.price = o.price /\ level.side = o.side
          /\ Len(ring) \in Nat /\ Len(ring) > 0
      BY <1>8, LevelFits DEF HasOrdersAtPrice, BookInv, BookType, Level,
                             LevelsInArrivalOrder
    <2>2. /\ price_orders_at_price_' =
               [price_orders_at_price_ EXCEPT ![idx].orders = Append(ring, id)]
          /\ by_price' = by_price
      BY <1>8 DEF AddOrder
    <2> DEFINE nring == Append(ring, id)
    <2>3. /\ nring \in Seq(MarketOrderIds)
          /\ Len(nring) = Len(ring) + 1
          /\ nring[Len(ring) + 1] = id
          /\ \A i \in 1 .. Len(ring) : nring[i] = ring[i]
      BY <2>1
    <2>4. /\ DOMAIN price_orders_at_price_' = DOMAIN price_orders_at_price_
          /\ price_orders_at_price_'[idx] = [level EXCEPT !.orders = nring]
          /\ \A i \in DOMAIN price_orders_at_price_ : i # idx =>
                 price_orders_at_price_'[i] = price_orders_at_price_[i]
      BY <2>1, <2>2
    <2> HIDE DEF nring
    <2>5. /\ price_orders_at_price_'[idx].price = level.price
          /\ price_orders_at_price_'[idx].side = level.side
          /\ price_orders_at_price_'[idx].orders = nring
          /\ price_orders_at_price_'[idx] \in Level
      BY <2>1, <2>3, <2>4 DEF Level
    <2>6. \A i \in DOMAIN price_orders_at_price_ :
              /\ price_orders_at_price_'[i].price = price_orders_at_price_[i].price
              /\ price_orders_at_price_'[i].side = price_orders_at_price_[i].side
      BY <2>4, <2>5
    <2>7. BookType'
      <3>1. price_orders_at_price_' \in [DOMAIN price_orders_at_price_' -> Level]
        BY <2>2, <2>4, <2>5 DEF BookInv, BookType
      <3> QED BY <1>5, <2>2, <2>4, <3>1 DEF BookInv, BookType
    <2>8. LevelsFiled' /\ LevelsLinked'
      BY <2>2, <2>4, <2>6 DEF BookInv, LevelsFiled, LevelsLinked
    <2>9. SidesSorted'
      BY <2>2, <2>4, <2>6 DEF BookInv, SidesSorted
    <2>10. LevelsHoldTheirPrice'
      <3> SUFFICES ASSUME NEW i \in DOMAIN price_orders_at_price_,
                          NEW m \in 1 .. Len(price_orders_at_price_'[i].orders)
                   PROVE  LET x == price_orders_at_price_'[i].orders[m]
                          IN  /\ x \in DOMAIN orders'
                              /\ orders'[x].side = price_orders_at_price_[i].side
                              /\ orders'[x].price = price_orders_at_price_[i].price
        BY <2>4, <2>6 DEF LevelsHoldTheirPrice
      <3>1. CASE i = idx /\ m = Len(ring) + 1
        BY <3>1, <2>1, <2>3, <2>5, <1>3
      <3>2. CASE i = idx /\ m # Len(ring) + 1
        <4>1. m \in 1 .. Len(ring) /\ price_orders_at_price_'[i].orders[m] = ring[m]
          BY <3>2, <2>1, <2>3, <2>5
        <4> QED BY <3>2, <4>1, <2>1, <1>3 DEF BookInv, LevelsHoldTheirPrice
      <3>3. CASE i # idx
        BY <3>3, <2>4, <1>3 DEF BookInv, LevelsHoldTheirPrice
      <3> QED BY <3>1, <3>2, <3>3
    <2>11. OrdersLinked'
      <3> SUFFICES ASSUME NEW j \in DOMAIN orders'
                   PROVE  LET i == PriceToIndex(orders'[j].price)
                          IN  /\ i \in DOMAIN price_orders_at_price_
                              /\ \E m \in 1 .. Len(price_orders_at_price_'[i].orders) :
                                     price_orders_at_price_'[i].orders[m] = j
        BY <2>4 DEF OrdersLinked
      <3>1. CASE j = id
        <4>1. Len(ring) + 1 \in 1 .. Len(nring)
          BY <2>1, <2>3
        <4> QED BY <3>1, <4>1, <1>3, <2>1, <2>3, <2>5
      <3>2. CASE j # id
        <4> DEFINE i == PriceToIndex(orders[j].price)
        <4>1. i \in DOMAIN price_orders_at_price_
          BY <3>2, <1>3, OrderInLevel
        <4>2. PICK m \in 1 .. Len(price_orders_at_price_[i].orders) :
                  price_orders_at_price_[i].orders[m] = j
          BY <3>2, <1>3, OrderInLevel
        <4>3. CASE i = idx
          <5>1. m \in 1 .. Len(nring) /\ nring[m] = j
            BY <4>2, <4>3, <2>1, <2>3
          <5> QED BY <3>2, <4>1, <4>3, <5>1, <1>3, <2>5
        <4>4. CASE i # idx
          BY <3>2, <4>1, <4>2, <4>4, <1>3, <2>4
        <4> QED BY <4>3, <4>4
      <3> QED BY <3>1, <3>2
    <2>12. LevelsInArrivalOrder'
      <3> SUFFICES ASSUME NEW i \in DOMAIN price_orders_at_price_
                   PROVE  LET r == price_orders_at_price_'[i].orders
                          IN  /\ Len(r) > 0
                              /\ \A j, m \in 1 .. Len(r) :
                                   j < m => /\ r[j] < r[m]
                                            /\ orders'[r[j]].priority
                                                 < orders'[r[m]].priority
        BY <2>4 DEF LevelsInArrivalOrder
      <3>1. CASE i # idx
        <4>1. \A m \in 1 .. Len(price_orders_at_price_[i].orders) :
                  orders'[price_orders_at_price_[i].orders[m]]
                    = orders[price_orders_at_price_[i].orders[m]]
          BY <1>3 DEF BookInv, LevelsHoldTheirPrice
        <4> QED BY <3>1, <4>1, <2>4 DEF BookInv, LevelsInArrivalOrder
      <3>2. CASE i = idx
        <4>1. /\ \A m \in 1 .. Len(ring) :
                     /\ ring[m] \in DOMAIN orders
                     /\ orders[ring[m]].priority \in Nat
              /\ \A j, m \in 1 .. Len(ring) : j < m =>
                     /\ ring[j] < ring[m]
                     /\ orders[ring[j]].priority < orders[ring[m]].priority
          BY <2>1, <1>1 DEF BookInv, LevelsHoldTheirPrice, LevelsInArrivalOrder, Order
        <4>2. o.priority = orders[ring[Len(ring)]].priority + 1
          BY <1>8 DEF GetNextPriority
        <4>3. \A m \in 1 .. Len(ring) : orders[ring[m]].priority < o.priority
          <5> SUFFICES ASSUME NEW m \in 1 .. Len(ring)
                       PROVE  orders[ring[m]].priority < o.priority
            OBVIOUS
          <5>1. Len(ring) \in 1 .. Len(ring) /\ (m = Len(ring) \/ m < Len(ring))
            BY <2>1
          <5>2. /\ orders[ring[m]].priority \in Nat
                /\ orders[ring[Len(ring)]].priority \in Nat
                /\ \/ m = Len(ring)
                   \/ orders[ring[m]].priority < orders[ring[Len(ring)]].priority
            BY <4>1, <5>1
          <5> QED BY <4>2, <5>2, SMTT(30)
        <4> SUFFICES ASSUME NEW j \in 1 .. Len(nring), NEW m \in 1 .. Len(nring),
                            j < m
                     PROVE  /\ nring[j] < nring[m]
                            /\ orders'[nring[j]].priority < orders'[nring[m]].priority
          BY <3>2, <2>1, <2>3, <2>5
        <4>4. /\ j \in 1 .. Len(ring) /\ nring[j] = ring[j]
              /\ orders'[ring[j]] = orders[ring[j]]
          BY <4>1, <1>3, <2>1, <2>3
        <4>5. CASE m = Len(ring) + 1
          BY <4>1, <4>3, <4>4, <4>5, <1>3, <2>3, SMTT(30)
        <4>6. CASE m # Len(ring) + 1
          <5>1. /\ m \in 1 .. Len(ring) /\ nring[m] = ring[m]
                /\ orders'[ring[m]] = orders[ring[m]]
            BY <4>1, <4>6, <1>3, <2>1, <2>3
          <5> QED BY <4>1, <4>4, <5>1
        <4> QED BY <4>5, <4>6
      <3> QED BY <3>1, <3>2
    <2> QED BY <1>3, <1>6, <1>7, <2>7, <2>8, <2>9, <2>10, <2>11, <2>12
            DEF BookInv
  <1>9. CASE ~HasOrdersAtPrice(o.price)
    <2> DEFINE level == [side |-> o.side, price |-> o.price, orders |-> <<id>>]
               list  == by_price[o.side]
    <2>1. /\ level \in Level
          /\ level.side = o.side /\ level.price = o.price
          /\ Len(level.orders) = 1 /\ level.orders[1] = id
          /\ idx \notin DOMAIN price_orders_at_price_
          /\ list \in Seq(LevelIndices)
      BY <1>1, <1>9 DEF Level, HasOrdersAtPrice, BookInv, BookType
    <2>2. AddOrdersAtPrice(level)
      BY <1>9 DEF AddOrder
    <2> HIDE DEF level
    <2>3. price_orders_at_price_' = With(price_orders_at_price_, idx, level)
      BY <2>1, <2>2 DEF AddOrdersAtPrice
    <2>4. /\ DOMAIN price_orders_at_price_' = DOMAIN price_orders_at_price_ \cup {idx}
          /\ price_orders_at_price_'[idx] = level
          /\ \A i \in DOMAIN price_orders_at_price_ :
                 i # idx /\ price_orders_at_price_'[i] = price_orders_at_price_[i]
          /\ price_orders_at_price_' \in [DOMAIN price_orders_at_price_' -> Level]
      BY <2>1, <2>3 DEF With, BookInv, BookType
    <2>5. PICK k \in 1 .. Len(list) + 1 :
              /\ \A j \in 1 .. k - 1 :
                     Worse(o.side, o.price, price_orders_at_price_[list[j]].price)
              /\ k <= Len(list) =>
                     ~Worse(o.side, o.price, price_orders_at_price_[list[k]].price)
              /\ by_price' = [by_price EXCEPT ![o.side] = InsertedAt(list, k, idx)]
      BY <2>1, <2>2 DEF AddOrdersAtPrice
    <2> DEFINE nlist == InsertedAt(list, k, idx)
    <2>6. /\ nlist \in Seq(LevelIndices)
          /\ Len(nlist) = Len(list) + 1
          /\ \A i \in 1 .. Len(list) + 1 :
                 nlist[i] = IF i < k THEN list[i] ELSE IF i = k THEN idx ELSE list[i - 1]
      <3>1. nlist \in Seq(LevelIndices) /\ IsInsertion(nlist, list, k, idx)
        BY <1>1, <2>1, InsertedAtFacts
      <3> HIDE DEF nlist
      <3> QED BY <3>1 DEF IsInsertion
    <2> HIDE DEF nlist
    <2>7. /\ by_price' \in [Sides -> Seq(LevelIndices)]
          /\ by_price'[o.side] = nlist
          /\ \A side \in Sides : side # o.side => by_price'[side] = by_price[side]
      BY <1>1, <2>5, <2>6 DEF BookInv, BookType, nlist
    <2>8. BookType'
      BY <1>1, <1>5, <2>4, <2>7 DEF BookInv, BookType
    <2>9. LevelsFiled'
      BY <2>1, <2>4 DEF BookInv, LevelsFiled
    <2>10. LevelsHoldTheirPrice'
      BY <1>3, <2>1, <2>4 DEF BookInv, LevelsHoldTheirPrice
    <2>11. OrdersLinked'
      <3> SUFFICES ASSUME NEW j \in DOMAIN orders'
                   PROVE  LET i == PriceToIndex(orders'[j].price)
                          IN  /\ i \in DOMAIN price_orders_at_price_'
                              /\ \E m \in 1 .. Len(price_orders_at_price_'[i].orders) :
                                     price_orders_at_price_'[i].orders[m] = j
        BY DEF OrdersLinked
      <3>1. CASE j = id
        BY <3>1, <1>3, <2>1, <2>4
      <3>2. CASE j # id
        BY <3>2, <1>3, <2>4, OrderInLevel
      <3> QED BY <3>1, <3>2
    <2>12. LevelsInArrivalOrder'
      <3> SUFFICES ASSUME NEW i \in DOMAIN price_orders_at_price_'
                   PROVE  LET r == price_orders_at_price_'[i].orders
                          IN  /\ Len(r) > 0
                              /\ \A j, m \in 1 .. Len(r) :
                                   j < m => /\ r[j] < r[m]
                                            /\ orders'[r[j]].priority
                                                 < orders'[r[m]].priority
        BY DEF LevelsInArrivalOrder
      <3>1. CASE i = idx
        BY <3>1, <2>1, <2>4
      <3>2. CASE i # idx
        <4>1. \A m \in 1 .. Len(price_orders_at_price_[i].orders) :
                  orders'[price_orders_at_price_[i].orders[m]]
                    = orders[price_orders_at_price_[i].orders[m]]
          BY <3>2, <1>3, <2>4 DEF BookInv, LevelsHoldTheirPrice
        <4> QED BY <3>2, <4>1, <2>4 DEF BookInv, LevelsInArrivalOrder
      <3> QED BY <3>1, <3>2
    <2>13. LevelsLinked'
      <3> SUFFICES ASSUME NEW i \in DOMAIN price_orders_at_price_'
                   PROVE  \E m \in 1 .. Len(by_price'[price_orders_at_price_'[i].side]) :
                              by_price'[price_orders_at_price_'[i].side][m] = i
        BY DEF LevelsLinked
      <3>1. CASE i = idx
        <4>1. k \in 1 .. Len(nlist) /\ nlist[k] = idx
          BY <2>1, <2>6
        <4> QED BY <3>1, <4>1, <2>1, <2>4, <2>7
      <3>2. CASE i # idx
        <4>1. /\ i \in DOMAIN price_orders_at_price_
              /\ price_orders_at_price_'[i] = price_orders_at_price_[i]
              /\ price_orders_at_price_[i].side \in Sides
          BY <3>2, <2>4 DEF BookInv, BookType, Level
        <4>2. PICK m \in 1 .. Len(by_price[price_orders_at_price_[i].side]) :
                  by_price[price_orders_at_price_[i].side][m] = i
          BY <4>1 DEF BookInv, LevelsLinked
        <4>3. CASE price_orders_at_price_[i].side # o.side
          BY <4>1, <4>2, <4>3, <2>7
        <4>4. CASE price_orders_at_price_[i].side = o.side
          <5>1. m \in 1 .. Len(list) /\ list[m] = i
            BY <4>2, <4>4
          <5>2. CASE m < k
            <6>1. m \in 1 .. Len(nlist) /\ nlist[m] = i
              BY <5>1, <5>2, <2>1, <2>6
            <6> QED BY <6>1, <4>1, <4>4, <2>7
          <5>3. CASE ~(m < k)
            <6>1. m + 1 \in 1 .. Len(nlist) /\ nlist[m + 1] = i
              BY <5>1, <5>3, <2>1, <2>6, SMTT(30)
            <6> QED BY <6>1, <4>1, <4>4, <2>7
          <5> QED BY <5>2, <5>3
        <4> QED BY <4>3, <4>4
      <3> QED BY <3>1, <3>2
    <2>14. SidesSorted'
      <3> SUFFICES ASSUME NEW side \in Sides
                   PROVE  LET l == by_price'[side]
                          IN  /\ \A m \in 1 .. Len(l) :
                                   /\ l[m] \in DOMAIN price_orders_at_price_'
                                   /\ price_orders_at_price_'[l[m]].side = side
                              /\ \A j, m \in 1 .. Len(l) : j < m =>
                                   Worse(side, price_orders_at_price_'[l[m]].price,
                                               price_orders_at_price_'[l[j]].price)
        BY DEF SidesSorted
      <3>1. /\ \A m \in 1 .. Len(by_price[side]) :
                 /\ by_price[side][m] \in DOMAIN price_orders_at_price_
                 /\ price_orders_at_price_[by_price[side][m]].side = side
            /\ \A j, m \in 1 .. Len(by_price[side]) : j < m =>
                 Worse(side, price_orders_at_price_[by_price[side][m]].price,
                             price_orders_at_price_[by_price[side][j]].price)
        BY DEF BookInv, SidesSorted
      <3>2. CASE side # o.side
        BY <3>1, <3>2, <2>4, <2>7
      <3>3. CASE side = o.side
        <4> DEFINE price(m) == price_orders_at_price_[list[m]].price
        <4>1. \A m \in 1 .. Len(list) :
                  /\ list[m] \in DOMAIN price_orders_at_price_
                  /\ price_orders_at_price_'[list[m]] = price_orders_at_price_[list[m]]
                  /\ price_orders_at_price_[list[m]].side = side
                  /\ price(m) \in Nat /\ price(m) # o.price
          BY <3>1, <3>3, <2>1, <2>4, BookAssumption
          DEF BookInv, BookType, Level, LevelsFiled
        <4>2. \A j, m \in 1 .. Len(list) : j < m => Worse(side, price(m), price(j))
          BY <3>1, <3>3
        <4>3. \A j \in 1 .. k - 1 : Worse(side, o.price, price(j))
          BY <2>5, <3>3
        <4> HIDE DEF price
        <4>4. \A j \in k .. Len(list) : Worse(side, price(j), o.price)
          <5> SUFFICES ASSUME NEW j \in k .. Len(list)
                       PROVE  Worse(side, price(j), o.price)
            OBVIOUS
          <5>1. k \in 1 .. Len(list) /\ j \in 1 .. Len(list)
                /\ ~Worse(side, o.price, price(k)) /\ (j = k \/ k < j)
            BY <2>1, <2>5, <3>3 DEF price
          <5>2. Worse(side, price(k), o.price)
            BY <1>1, <4>1, <5>1 DEF Worse
          <5>3. j = k \/ Worse(side, price(j), price(k))
            BY <4>2, <5>1
          <5> QED BY <1>1, <4>1, <5>1, <5>2, <5>3 DEF Worse
        <4> DEFINE nprice(m) == price_orders_at_price_'[nlist[m]].price
        <4>5. \A m \in 1 .. Len(list) + 1 :
                  /\ nlist[m] \in DOMAIN price_orders_at_price_'
                  /\ price_orders_at_price_'[nlist[m]].side = side
                  /\ nprice(m) = IF m < k THEN price(m)
                                 ELSE IF m = k THEN o.price ELSE price(m - 1)
          <5> SUFFICES ASSUME NEW m \in 1 .. Len(list) + 1
                       PROVE  /\ nlist[m] \in DOMAIN price_orders_at_price_'
                              /\ price_orders_at_price_'[nlist[m]].side = side
                              /\ nprice(m) = IF m < k THEN price(m)
                                             ELSE IF m = k THEN o.price ELSE price(m - 1)
            OBVIOUS
          <5>1. CASE m < k
            <6>1. m \in 1 .. Len(list) /\ nlist[m] = list[m]
              BY <5>1, <2>1, <2>6
            <6> QED BY <5>1, <6>1, <4>1, <2>4 DEF price
          <5>2. CASE m = k
            BY <5>2, <2>1, <2>4, <2>6, <3>3
          <5>3. CASE m > k
            <6>1. m - 1 \in 1 .. Len(list) /\ nlist[m] = list[m - 1] /\ ~(m < k) /\ m # k
              BY <5>3, <2>1, <2>6
            <6> QED BY <6>1, <4>1, <2>4 DEF price
          <5> QED BY <2>1, <5>1, <5>2, <5>3
        <4> HIDE DEF nprice
        <4>6. \A j, m \in 1 .. Len(list) + 1 : j < m => Worse(side, nprice(m), nprice(j))
          <5> SUFFICES ASSUME NEW j \in 1 .. Len(list) + 1,
                              NEW m \in 1 .. Len(list) + 1, j < m
                       PROVE  Worse(side, nprice(m), nprice(j))
            OBVIOUS
          <5>0. Len(list) \in Nat
            BY <2>1
          <5>1. CASE m < k
            <6>1. j \in 1 .. Len(list) /\ m \in 1 .. Len(list) /\ j < k
              BY <5>0, <5>1
            <6> QED BY <5>1, <6>1, <4>2, <4>5
          <5>2. CASE m = k
            <6>1. j \in 1 .. k - 1 /\ j < k
              BY <5>0, <5>2
            <6> QED BY <5>2, <6>1, <4>3, <4>5
          <5>3. CASE m > k /\ j = k
            <6>1. m - 1 \in k .. Len(list) /\ ~(m < k) /\ m # k /\ ~(j < k)
              BY <5>0, <5>3
            <6> QED BY <5>3, <6>1, <4>4, <4>5
          <5>4. CASE m > k /\ j < k
            <6>1. j \in 1 .. Len(list) /\ m - 1 \in 1 .. Len(list) /\ j < m - 1
                  /\ ~(m < k) /\ m # k
              BY <5>0, <5>4
            <6> QED BY <5>4, <6>1, <4>2, <4>5
          <5>5. CASE m > k /\ j > k
            <6>1. j - 1 \in 1 .. Len(list) /\ m - 1 \in 1 .. Len(list) /\ j - 1 < m - 1
                  /\ ~(m < k) /\ m # k /\ ~(j < k) /\ j # k
              BY <5>0, <5>5
            <6> QED BY <6>1, <4>2, <4>5
          <5> QED BY <5>0, <5>1, <5>2, <5>3, <5>4, <5>5
        <4> QED BY <4>5, <4>6, <3>3, <2>6, <2>7 DEF nprice
      <3> QED BY <3>2, <3>3
    <2> QED BY <1>3, <1>6, <1>7, <2>8, <2>9, <2>10, <2>11, <2>12, <2>13, <2>14
            DEF BookInv
  <1> QED BY <1>8, <1>9

-----------------------------------------------------------------------------
(* The specification.                                                      *)

\* Match: whether it fills the resting order or a part of it.
LEMMA MatchKeeps ==
    ASSUME IInv, Match
    PROVE  IInv'
  <1> DEFINE id   == BestOpposite
             o    == orders[id]
             fill == Lesser(request.leaves_qty, o.qty)
             left == o.qty - fill
  <1>1. pc = "match" /\ pc' = "match" /\ request \in Request /\ CanMatch
    BY DEF Match, IInv, TypeOK
  <1>2. /\ id \in DOMAIN orders /\ o \in Order
        /\ o.qty \in Nat /\ request.leaves_qty \in Nat
    <2>1. Opposite(request.side) \in Sides
      BY <1>1 DEF Request, Opposite, Sides
    <2>2. id \in DOMAIN orders
      BY <1>1, <2>1, BestIsBest DEF IInv, CanMatch, BestOpposite
    <2> QED BY <1>1, <2>2 DEF IInv, BookInv, BookType, Order, Request
  <1>3. /\ fill \in Nat /\ left \in Nat
        /\ request.leaves_qty - fill \in Nat
    BY <1>2 DEF Lesser
  <1>4. request' = [request EXCEPT !.leaves_qty = @ - fill]
    BY DEF Match
  <1>5. request' \in Request /\ request'.market_order_id = request.market_order_id
    BY <1>1, <1>3, <1>4 DEF Request
  <1>6. BookInv' /\ DOMAIN orders' \subseteq DOMAIN orders
    <2>1. CASE left = 0
      <3>1. RemoveOrder(id)
        BY <2>1 DEF Match
      <3> QED BY <3>1, <1>2, RemoveOrderKeeps DEF IInv
    <2>2. CASE left # 0
      <3>1. /\ orders' = [orders EXCEPT ![id].qty = left]
            /\ UNCHANGED <<price_orders_at_price_, by_price, cid_oid_to_order_>>
        BY <2>2 DEF Match
      <3> QED BY <3>1, <1>2, <1>3, PartialFillKeeps DEF IInv
    <2> QED BY <2>1, <2>2
  <1>7. UNCHANGED <<next_market_order_id_, pc, requested>>
    BY DEF Match
  <1>8. IdInv'
    BY <1>1, <1>5, <1>6, <1>7 DEF IInv, IdInv
  <1>9. responses' \in Seq(MEClientResponse)
    <2>1. /\ request.client_id \in Clients /\ request.client_order_id \in ClientOrderIds
          /\ request.market_order_id \in Nat /\ request.side \in Sides
          /\ o.client_id \in Clients /\ o.client_order_id \in ClientOrderIds
          /\ o.side \in Sides /\ o.price \in Nat /\ id \in Nat
      BY <1>1, <1>2, BookAssumption
      DEF Request, Order, MarketOrderIds, IInv, BookInv, BookType
    <2>2. /\ Response("FILLED", request.client_id, request.client_order_id,
                      request.market_order_id, request.side, o.price, fill,
                      request.leaves_qty - fill) \in MEClientResponse
          /\ Response("FILLED", o.client_id, o.client_order_id, id, o.side,
                      o.price, fill, left) \in MEClientResponse
      BY <2>1, <1>3 DEF Response, MEClientResponse
    <2>3. responses' =
            <<Response("FILLED", request.client_id, request.client_order_id,
                       request.market_order_id, request.side, o.price, fill,
                       request.leaves_qty - fill),
              Response("FILLED", o.client_id, o.client_order_id, id, o.side,
                       o.price, fill, left)>>
      BY DEF Match
    <2> QED BY <2>2, <2>3
  <1>10. updates' \in Seq(MEMarketUpdate)
    <2>1. /\ request.side \in Sides /\ o.side \in Sides /\ o.price \in Nat
          /\ o.priority \in Nat /\ id \in Nat /\ INVALID \in Nat
      BY <1>1, <1>2, BookAssumption
      DEF Request, Order, MarketOrderIds, INVALID, IInv, BookInv, BookType
    <2>2. /\ Update("TRADE", INVALID, request.side, o.price, fill, INVALID)
               \in MEMarketUpdate
          /\ Update("CANCEL", id, o.side, o.price, o.qty, INVALID) \in MEMarketUpdate
          /\ Update("MODIFY", id, o.side, o.price, left, o.priority)
               \in MEMarketUpdate
      BY <2>1, <1>2, <1>3 DEF Update, MEMarketUpdate
    <2>3. \/ updates' = <<Update("TRADE", INVALID, request.side, o.price, fill, INVALID),
                          Update("CANCEL", id, o.side, o.price, o.qty, INVALID)>>
          \/ updates' = <<Update("TRADE", INVALID, request.side, o.price, fill, INVALID),
                          Update("MODIFY", id, o.side, o.price, left, o.priority)>>
      BY DEF Match
    <2>4. \A a, b \in MEMarketUpdate : <<a, b>> \in Seq(MEMarketUpdate)
      OBVIOUS
    <2> QED BY <2>2, <2>3, <2>4, Zenon
  <1>11. TypeOK'
    BY <1>1, <1>5, <1>6, <1>7, <1>9, <1>10 DEF IInv, TypeOK, BookInv, BookType
  <1> QED BY <1>6, <1>8, <1>11 DEF IInv

\* Rest: the unmatched remainder crosses nothing in the book it joins.
LEMMA RestKeeps ==
    ASSUME PricesApartModLevels, IInv, Rest
    PROVE  IInv'
  <1> DEFINE priority == GetNextPriority(request.price)
             o == [client_id |-> request.client_id,
                   client_order_id |-> request.client_order_id,
                   side |-> request.side, price |-> request.price,
                   qty |-> request.leaves_qty, priority |-> priority]
             id == request.market_order_id
  <1>1. /\ pc = "match" /\ pc' = "poll" /\ request \in Request
        /\ ~CanMatch /\ request.leaves_qty # 0
        /\ AddOrder(id, o)
        /\ updates' = <<Update("ADD", id, request.side, request.price,
                               request.leaves_qty, priority)>>
        /\ responses' = <<>>
        /\ UNCHANGED <<next_market_order_id_, request, requested>>
    BY DEF Rest, IInv, TypeOK
  <1>2. /\ request.side \in Sides /\ request.price \in Prices
        /\ request.price \in Nat /\ request.leaves_qty \in Nat
        /\ request.client_id \in Clients /\ request.client_order_id \in ClientOrderIds
        /\ id \in MarketOrderIds /\ id \in Nat
        /\ \A j \in DOMAIN orders : j < id
    <2>1. \A j \in DOMAIN orders : j < id
      BY <1>1 DEF IInv, IdInv
    <2>2. id \in MarketOrderIds /\ id \in Nat
      BY <1>1 DEF Request, MarketOrderIds
    <2> QED BY <1>1, <2>1, <2>2, BookAssumption DEF Request
  <1>3. priority \in Nat
    <2>1. CASE HasOrdersAtPrice(request.price)
      <3> DEFINE ring == price_orders_at_price_[PriceToIndex(request.price)].orders
      <3>1. Len(ring) \in Nat /\ Len(ring) > 0
        BY <2>1 DEF HasOrdersAtPrice, IInv, BookInv, BookType, Level,
                    LevelsInArrivalOrder
      <3>2. ring[Len(ring)] \in DOMAIN orders
        BY <2>1, <3>1 DEF HasOrdersAtPrice, IInv, BookInv, LevelsHoldTheirPrice
      <3>3. orders[ring[Len(ring)]].priority \in Nat
        BY <3>2 DEF IInv, BookInv, BookType, Order
      <3> QED BY <2>1, <3>3 DEF GetNextPriority
    <2>2. CASE ~HasOrdersAtPrice(request.price)
      BY <2>2 DEF GetNextPriority
    <2> QED BY <2>1, <2>2
  <1>4. /\ o \in Order /\ o.side = request.side /\ o.price = request.price
        /\ o.priority = GetNextPriority(o.price)
    BY <1>2, <1>3 DEF Order
  <1>5. \A j \in DOMAIN orders : orders[j].side = Opposite(request.side) =>
            ~Crosses(request.side, request.price, orders[j].price)
    <2> SUFFICES ASSUME NEW j \in DOMAIN orders,
                        orders[j].side = Opposite(request.side)
                 PROVE  ~Crosses(request.side, request.price, orders[j].price)
      OBVIOUS
    <2> DEFINE side == Opposite(request.side)
    <2>1. side \in Sides
      BY <1>2 DEF Opposite, Sides
    <2>2. by_price[side] # <<>>
      <3>1. PICK k \in 1 .. Len(by_price[side]) :
                by_price[side][k] = PriceToIndex(orders[j].price)
        BY OrderInLevel DEF IInv, BookInv, LevelsLinked
      <3> QED BY <3>1
    <2>3. ~Crosses(request.side, request.price, orders[BestOpposite].price)
      BY <1>1, <2>2 DEF CanMatch
    <2>4. /\ BestOpposite \in DOMAIN orders
          /\ \/ j = BestOpposite
             \/ Worse(side, orders[j].price, orders[BestOpposite].price)
             \/ orders[j].price = orders[BestOpposite].price
      BY <2>1, <2>2, BestIsBest DEF BestOpposite, IInv
    <2>5. orders[j].price \in Nat /\ orders[BestOpposite].price \in Nat
      BY <2>4, BookAssumption DEF IInv, BookInv, BookType, Order
    <2> QED BY <1>2, <2>3, <2>4, <2>5 DEF Crosses, Worse, Opposite, Sides
  <1> HIDE DEF o
  <1>6. BookInv' /\ DOMAIN orders' = DOMAIN orders \cup {id}
    BY <1>1, <1>2, <1>4, <1>5, AddOrderKeeps DEF IInv
  <1>7. IdInv'
    BY <1>1, <1>6 DEF IInv, IdInv
  <1>8. updates' \in Seq(MEMarketUpdate)
    <2>1. Update("ADD", id, request.side, request.price, request.leaves_qty,
                 priority) \in MEMarketUpdate
      BY <1>2, <1>3 DEF Update, MEMarketUpdate
    <2> QED BY <1>1, <2>1
  <1>9. TypeOK'
    BY <1>1, <1>6, <1>8 DEF IInv, TypeOK, BookInv, BookType
  <1> QED BY <1>6, <1>7, <1>9 DEF IInv

\* Cancel: only the client's own resting order is removed.
LEMMA CancelKeeps ==
    ASSUME IInv, NEW cid \in Clients, NEW oid \in ClientOrderIds, Cancel(cid, oid)
    PROVE  IInv'
  <1> DEFINE id == cid_oid_to_order_[<<cid, oid>>]
             o  == orders[id]
  <1>1. pc = "poll" /\ UNCHANGED <<next_market_order_id_, pc, request, requested>>
    BY DEF Cancel
  <1>2. CASE id # INVALID
    <2>1. id \in DOMAIN orders
      BY <1>2 DEF IInv, BookInv, MapInv
    <2>2. /\ RemoveOrder(id)
          /\ updates' = <<Update("CANCEL", id, o.side, o.price, 0, o.priority)>>
          /\ responses' = <<Response("CANCELED", cid, oid, id, o.side,
                                     o.price, INVALID, o.qty)>>
      BY <1>2 DEF Cancel
    <2>3. BookInv' /\ DOMAIN orders' \subseteq DOMAIN orders
      BY <2>1, <2>2, RemoveOrderKeeps DEF IInv
    <2>4. /\ o.side \in Sides /\ o.price \in Nat /\ o.priority \in Nat
          /\ o.qty \in Nat /\ id \in Nat /\ INVALID \in Nat
      BY <2>1, BookAssumption
      DEF IInv, BookInv, BookType, Order, MarketOrderIds, INVALID
    <2>5. /\ Update("CANCEL", id, o.side, o.price, 0, o.priority) \in MEMarketUpdate
          /\ Response("CANCELED", cid, oid, id, o.side, o.price, INVALID, o.qty)
               \in MEClientResponse
      BY <2>4 DEF Update, MEMarketUpdate, Response, MEClientResponse
    <2>6. updates' \in Seq(MEMarketUpdate) /\ responses' \in Seq(MEClientResponse)
      BY <2>2, <2>5
    <2> QED BY <1>1, <2>3, <2>6 DEF IInv, TypeOK, BookInv, BookType, IdInv
  <1>3. CASE id = INVALID
    <2>1. /\ UNCHANGED bookVars
          /\ updates' = <<>>
          /\ responses' = <<Response("CANCEL_REJECTED", cid, oid, INVALID,
                                     "INVALID", INVALID, INVALID, INVALID)>>
      BY <1>3 DEF Cancel
    <2>2. Response("CANCEL_REJECTED", cid, oid, INVALID, "INVALID", INVALID,
                   INVALID, INVALID) \in MEClientResponse
      BY DEF Response, MEClientResponse, INVALID
    <2>3. updates' \in Seq(MEMarketUpdate) /\ responses' \in Seq(MEClientResponse)
      BY <2>1, <2>2
    <2>4. BookInv'
      BY <2>1 DEF IInv, BookInv, BookType, LevelsFiled, LevelsHoldTheirPrice,
                  OrdersLinked, LevelsInArrivalOrder, LevelsLinked, SidesSorted,
                  MapInv, NotCrossed, bookVars
    <2> QED BY <1>1, <2>1, <2>3, <2>4 DEF IInv, TypeOK, IdInv, bookVars
  <1> QED BY <1>2, <1>3

\* The empty book satisfies the invariant.
LEMMA InitIInv == Init => IInv
  <1> SUFFICES ASSUME Init PROVE IInv
    OBVIOUS
  <1>1. /\ DOMAIN orders = {} /\ DOMAIN price_orders_at_price_ = {}
        /\ \A side \in Sides : by_price[side] = <<>>
    BY DEF Init
  <1>2. BookType
    BY <1>1 DEF Init, BookType
  <1>3. BookInv
    BY <1>1, <1>2 DEF Init, BookInv, LevelsFiled, LevelsHoldTheirPrice,
           OrdersLinked, LevelsInArrivalOrder, LevelsLinked, SidesSorted,
           MapInv, NotCrossed
  <1>4. TypeOK
    BY <1>2, BookAssumption DEF Init, TypeOK, BookType
  <1>5. IdInv
    BY <1>1 DEF Init, IdInv
  <1> QED BY <1>3, <1>4, <1>5 DEF IInv

\* Every step of the engine keeps the invariant.
LEMMA StepIInv ==
    ASSUME PricesApartModLevels, IInv, [Next]_vars
    PROVE  IInv'
  <1>1. ASSUME NEW cid \in Clients, NEW oid \in ClientOrderIds, NEW side \in Sides,
               NEW price \in Prices, NEW qty \in Qtys,
               Accept(cid, oid, side, price, qty)
        PROVE  IInv'
    <2>1. UNCHANGED bookVars
      BY <1>1 DEF Accept
    <2>2. BookInv'
      BY <2>1 DEF IInv, BookInv, BookType, LevelsFiled, LevelsHoldTheirPrice,
                  OrdersLinked, LevelsInArrivalOrder, LevelsLinked, SidesSorted,
                  MapInv, NotCrossed, bookVars
    <2>3. /\ next_market_order_id_ \in MarketOrderIds
          /\ price \in Nat /\ qty \in Nat
      BY <1>1, BookAssumption DEF Accept, IInv, TypeOK, MarketOrderIds
    <2>4. /\ request' = [market_order_id |-> next_market_order_id_,
                         client_id |-> cid, client_order_id |-> oid,
                         side |-> side, price |-> price, leaves_qty |-> qty]
          /\ next_market_order_id_' = next_market_order_id_ + 1
          /\ pc' = "match"
          /\ requested' = requested \cup {<<cid, oid>>}
          /\ updates' = <<>>
          /\ responses' = <<Response("ACCEPTED", cid, oid, next_market_order_id_,
                                     side, price, 0, qty)>>
      BY <1>1 DEF Accept
    <2>5. /\ request' \in Request
          /\ request'.market_order_id = next_market_order_id_
          /\ next_market_order_id_' \in 1 .. MaxOrders + 1
      BY <2>3, <2>4, BookAssumption DEF Request, MarketOrderIds
    <2>6. responses' \in Seq(MEClientResponse)
      <3>1. Response("ACCEPTED", cid, oid, next_market_order_id_, side, price, 0,
                     qty) \in MEClientResponse
        BY <2>3 DEF Response, MEClientResponse, MarketOrderIds
      <3> QED BY <2>4, <3>1
    <2>7. IdInv'
      BY <2>1, <2>3, <2>4, <2>5 DEF IInv, IdInv, BookInv, BookType, bookVars,
                                    MarketOrderIds
    <2>8. TypeOK'
      BY <2>2, <2>4, <2>5, <2>6 DEF IInv, TypeOK, BookInv, BookType
    <2> QED BY <2>2, <2>7, <2>8 DEF IInv
  <1>2. CASE Match
    BY <1>2, MatchKeeps
  <1>3. CASE Rest
    BY <1>3, RestKeeps
  <1>4. CASE Complete \/ UNCHANGED vars
    <2>1. /\ UNCHANGED <<bookVars, next_market_order_id_, request, requested>>
          /\ \/ pc' = "poll" /\ responses' = <<>> /\ updates' = <<>>
             \/ UNCHANGED <<pc, responses, updates>>
      BY <1>4 DEF Complete, vars
    <2>2. BookInv'
      BY <2>1 DEF IInv, BookInv, BookType, LevelsFiled, LevelsHoldTheirPrice,
                  OrdersLinked, LevelsInArrivalOrder, LevelsLinked, SidesSorted,
                  MapInv, NotCrossed, bookVars
    <2>3. responses' \in Seq(MEClientResponse) /\ updates' \in Seq(MEMarketUpdate)
      <3>1. responses \in Seq(MEClientResponse) /\ updates \in Seq(MEMarketUpdate)
        BY DEF IInv, TypeOK
      <3>2. <<>> \in Seq(MEClientResponse) /\ <<>> \in Seq(MEMarketUpdate)
        OBVIOUS
      <3> QED BY <2>1, <3>1, <3>2, Zenon
    <2>4. pc' \in {"poll", "match"} /\ (pc' = "match" => pc = "match")
      BY <2>1 DEF IInv, TypeOK
    <2>5. IdInv'
      BY <2>1, <2>4 DEF IInv, IdInv, bookVars
    <2>6. TypeOK'
      BY <2>1, <2>2, <2>3, <2>4 DEF IInv, TypeOK, BookInv, BookType
    <2> QED BY <2>2, <2>5, <2>6 DEF IInv
  <1>5. ASSUME NEW cid \in Clients, NEW oid \in ClientOrderIds, Cancel(cid, oid)
        PROVE  IInv'
    BY <1>5, CancelKeeps
  <1> QED BY <1>1, <1>2, <1>3, <1>4, <1>5 DEF Next

\* The inductive invariant holds throughout.
THEOREM Invariant ==
    ASSUME PricesApartModLevels
    PROVE  Spec => []IInv
  <1>1. IInv /\ [Next]_vars => IInv'
    BY StepIInv
  <1> QED BY InitIInv, <1>1, PTL DEF Spec

\* The book and everything it sends are well formed: no quantity goes below
\* zero, no index leaves its table.
THEOREM TypeCorrect ==
    ASSUME PricesApartModLevels
    PROVE  Spec => []TypeOK
  <1>1. IInv => TypeOK
    BY DEF IInv
  <1> QED BY Invariant, <1>1, PTL

\* No resting bid is ever priced at or above a resting ask.
THEOREM NeverCrossed ==
    ASSUME PricesApartModLevels
    PROVE  Spec => []NotCrossed
  <1>1. IInv => NotCrossed
    BY DEF IInv, BookInv
  <1> QED BY Invariant, <1>1, PTL

\* The map, the levels, their lists and the pool of orders always describe
\* the same book.
THEOREM AlwaysCoherent ==
    ASSUME PricesApartModLevels
    PROVE  Spec => []BookCoherent
  <1>1. IInv => BookCoherent
    BY DEF IInv, BookInv, BookCoherent
  <1> QED BY Invariant, <1>1, PTL

\* One price map serves both sides: a level that GetOrdersAtPrice finds holds
\* orders of its own side and price only.
THEOREM LevelsAreUnmixed ==
    ASSUME PricesApartModLevels
    PROVE  Spec => []LevelsHoldTheirPrice
  <1>1. IInv => LevelsHoldTheirPrice
    BY DEF IInv, BookInv
  <1> QED BY Invariant, <1>1, PTL

-----------------------------------------------------------------------------
(* Cancels.  The entry of a client's order id is overwritten by a second   *)
(* order with that id, so the theorem is about clients that number their   *)
(* orders.                                                                 *)

PairOf(o) == <<o.client_id, o.client_order_id>>

\* The ids a client has used.
UsedBy(cid) == {r \in requested : r[1] = cid}

\* The ids of a client's orders are the numbers from 1 on, so the next one is
\* new.
NumberedInv ==
    /\ IsFiniteSet(requested)
    /\ \A r \in requested : r[2] \in 1 .. Cardinality(UsedBy(r[1]))

\* Resting orders have ids that were used, and their client's entry; the
\* request being matched has an id of its own.
CancelInv ==
    /\ NumberedInv
    /\ \A id \in DOMAIN orders :
           /\ PairOf(orders[id]) \in requested
           /\ cid_oid_to_order_[PairOf(orders[id])] = id
    /\ pc = "match" =>
           /\ PairOf(request) \in requested
           /\ \A id \in DOMAIN orders : PairOf(orders[id]) # PairOf(request)

\* RemoveOrder, for a fill and for a cancel, leaves the entries of all other
\* orders alone.
LEMMA RemoveOrderKeepsEntries ==
    ASSUME IInv, CancelInv, NEW id \in DOMAIN orders, RemoveOrder(id)
    PROVE  \A j \in DOMAIN orders' :
               /\ j \in DOMAIN orders /\ orders'[j] = orders[j]
               /\ cid_oid_to_order_'[PairOf(orders[j])] = j
  <1> SUFFICES ASSUME NEW j \in DOMAIN orders'
               PROVE  /\ j \in DOMAIN orders /\ orders'[j] = orders[j]
                      /\ cid_oid_to_order_'[PairOf(orders[j])] = j
    OBVIOUS
  <1>1. j \in DOMAIN orders /\ j # id /\ orders'[j] = orders[j]
    BY DEF RemoveOrder, Without
  <1>2. PairOf(orders[j]) # PairOf(orders[id])
    BY <1>1 DEF CancelInv
  <1>3. PairOf(orders[j]) \in Clients \X ClientOrderIds
    BY <1>1 DEF IInv, BookInv, BookType, Order, PairOf
  <1>4. cid_oid_to_order_' =
            [cid_oid_to_order_ EXCEPT ![PairOf(orders[id])] = INVALID]
    BY DEF RemoveOrder, PairOf
  <1>5. cid_oid_to_order_'[PairOf(orders[j])] = cid_oid_to_order_[PairOf(orders[j])]
    BY <1>2, <1>3, <1>4 DEF IInv, BookInv, BookType
  <1> QED BY <1>1, <1>5 DEF CancelInv

\* Accept: the next number of a client has not been used before.
LEMMA AcceptKeepsEntries ==
    ASSUME FreshIds, IInv, CancelInv,
           NEW cid \in Clients, NEW oid \in ClientOrderIds, NEW side \in Sides,
           NEW price \in Prices, NEW qty \in Qtys,
           Accept(cid, oid, side, price, qty)
    PROVE  CancelInv'
  <1> DEFINE n == Cardinality(UsedBy(cid))
  <1>1. /\ oid = 1 + n
        /\ requested' = requested \cup {<<cid, oid>>}
        /\ UNCHANGED bookVars
        /\ PairOf(request') = <<cid, oid>>
    BY DEF Accept, UsedBy, PairOf
  <1>2. \A c : IsFiniteSet(UsedBy(c)) /\ Cardinality(UsedBy(c)) \in Nat
    BY FS_Subset, FS_CardinalityType DEF UsedBy, CancelInv, NumberedInv
  <1>3. <<cid, oid>> \notin requested
    <2> SUFFICES ASSUME <<cid, oid>> \in requested PROVE FALSE
      OBVIOUS
    <2>1. oid \in 1 .. n
      BY DEF CancelInv, NumberedInv
    <2> QED BY <1>1, <1>2, <2>1
  <1>4. /\ UsedBy(cid)' = UsedBy(cid) \cup {<<cid, oid>>}
        /\ <<cid, oid>> \notin UsedBy(cid)
        /\ \A c : c # cid => UsedBy(c)' = UsedBy(c)
    BY <1>1, <1>3 DEF UsedBy
  <1>5. Cardinality(UsedBy(cid)') = n + 1
    BY <1>2, <1>4, FS_AddElement
  <1>6. NumberedInv'
    <2>1. IsFiniteSet(requested')
      BY <1>1, FS_AddElement DEF CancelInv, NumberedInv
    <2>2. ASSUME NEW r \in requested' PROVE r[2] \in 1 .. Cardinality(UsedBy(r[1])')
      <3>1. CASE r = <<cid, oid>>
        BY <1>1, <1>2, <1>5, <3>1
      <3>2. CASE r \in requested /\ r[1] = cid
        <4>1. r[2] \in 1 .. n
          BY <3>2 DEF CancelInv, NumberedInv
        <4> QED BY <1>2, <1>5, <3>2, <4>1
      <3>3. CASE r \in requested /\ r[1] # cid
        <4>1. UsedBy(r[1])' = UsedBy(r[1])
          BY <1>4, <3>3
        <4> QED BY <3>3, <4>1 DEF CancelInv, NumberedInv
      <3> QED BY <1>1, <3>1, <3>2, <3>3
    <2>3. \A r \in requested' : r[2] \in 1 .. Cardinality(UsedBy(r[1]))'
      BY <2>2
    <2> QED BY <2>1, <2>3 DEF NumberedInv
  <1>7. UNCHANGED <<orders, cid_oid_to_order_>>
    BY <1>1 DEF bookVars
  <1>8. \A id \in DOMAIN orders : PairOf(orders[id]) # PairOf(request')
    BY <1>1, <1>3 DEF CancelInv
  <1> QED BY <1>1, <1>6, <1>7, <1>8 DEF CancelInv, PairOf

\* Every step of the engine keeps the entries of resting orders.
LEMMA StepCancelInv ==
    ASSUME FreshIds, IInv, CancelInv, [Next]_vars
    PROVE  CancelInv'
  <1>1. ASSUME NEW cid \in Clients, NEW oid \in ClientOrderIds, NEW side \in Sides,
               NEW price \in Prices, NEW qty \in Qtys,
               Accept(cid, oid, side, price, qty)
        PROVE  CancelInv'
    BY <1>1, AcceptKeepsEntries
  <1>2. CASE Match
    <2> DEFINE id   == BestOpposite
               left == orders[id].qty - Lesser(request.leaves_qty, orders[id].qty)
    <2>1. /\ UNCHANGED <<pc, requested>> /\ pc = "match"
          /\ PairOf(request') = PairOf(request)
      BY <1>2 DEF Match, PairOf, IInv, TypeOK, Request
    <2>2. id \in DOMAIN orders
      <3>1. Opposite(request.side) \in Sides
        BY <1>2 DEF Match, IInv, TypeOK, Request, Opposite, Sides
      <3> QED BY <1>2, <3>1, BestIsBest DEF Match, IInv, CanMatch, BestOpposite
    <2>3. \A j \in DOMAIN orders' :
              /\ j \in DOMAIN orders /\ PairOf(orders'[j]) = PairOf(orders[j])
              /\ cid_oid_to_order_'[PairOf(orders[j])] = j
      <3>1. CASE left = 0
        <4>1. RemoveOrder(id)
          BY <1>2, <3>1 DEF Match
        <4> QED BY <2>2, <4>1, RemoveOrderKeepsEntries
      <3>2. CASE left # 0
        <4>1. /\ orders' = [orders EXCEPT ![id].qty = left]
              /\ UNCHANGED cid_oid_to_order_
          BY <1>2, <3>2 DEF Match
        <4>2. orders \in [DOMAIN orders -> Order]
          BY DEF IInv, BookInv, BookType
        <4> QED BY <2>2, <4>1, <4>2 DEF CancelInv, PairOf, Order
      <3> QED BY <3>1, <3>2
    <2>4. NumberedInv'
      BY <2>1 DEF CancelInv, NumberedInv, UsedBy
    <2> QED BY <2>1, <2>3, <2>4 DEF CancelInv, PairOf
  <1>3. CASE Rest
    <2> DEFINE o == [client_id |-> request.client_id,
                     client_order_id |-> request.client_order_id,
                     side |-> request.side, price |-> request.price,
                     qty |-> request.leaves_qty,
                     priority |-> GetNextPriority(request.price)]
               id == request.market_order_id
    <2>1. /\ pc = "match" /\ pc' = "poll" /\ UNCHANGED <<request, requested>>
          /\ AddOrder(id, o)
          /\ PairOf(o) = PairOf(request)
      BY <1>3 DEF Rest, PairOf
    <2>2. PairOf(request) \in Clients \X ClientOrderIds
      BY <2>1 DEF IInv, TypeOK, Request, PairOf
    <2>3. /\ orders' = With(orders, id, o)
          /\ cid_oid_to_order_' = [cid_oid_to_order_ EXCEPT ![PairOf(o)] = id]
      BY <2>1 DEF AddOrder, PairOf
    <2>4. id \notin DOMAIN orders
      BY <2>1 DEF IInv, IdInv, TypeOK, Request, MarketOrderIds
    <2> HIDE DEF o
    <2>5. ASSUME NEW j \in DOMAIN orders'
          PROVE  /\ PairOf(orders'[j]) \in requested
                 /\ cid_oid_to_order_'[PairOf(orders'[j])] = j
      <3>1. CASE j = id
        <4>1. orders'[j] = o
          BY <2>3, <3>1 DEF With
        <4>2. cid_oid_to_order_'[PairOf(o)] = id
          BY <2>1, <2>2, <2>3 DEF IInv, BookInv, BookType
        <4> QED BY <2>1, <3>1, <4>1, <4>2 DEF CancelInv
      <3>2. CASE j # id
        <4>1. j \in DOMAIN orders /\ orders'[j] = orders[j]
          BY <2>3, <3>2 DEF With
        <4>2. PairOf(orders[j]) # PairOf(o)
          BY <2>1, <4>1 DEF CancelInv
        <4>3. PairOf(orders[j]) \in Clients \X ClientOrderIds
          BY <4>1 DEF IInv, BookInv, BookType, Order, PairOf
        <4>4. cid_oid_to_order_'[PairOf(orders[j])]
                 = cid_oid_to_order_[PairOf(orders[j])]
          BY <2>3, <4>2, <4>3 DEF IInv, BookInv, BookType
        <4> QED BY <4>1, <4>4 DEF CancelInv
      <3> QED BY <3>1, <3>2
    <2>6. NumberedInv'
      BY <2>1 DEF CancelInv, NumberedInv, UsedBy
    <2> QED BY <2>1, <2>5, <2>6 DEF CancelInv, PairOf
  <1>4. CASE Complete \/ UNCHANGED vars
    <2>1. /\ UNCHANGED <<orders, cid_oid_to_order_, request, requested>>
          /\ pc' = "match" => pc = "match"
      BY <1>4 DEF Complete, vars, bookVars
    <2> QED BY <2>1 DEF CancelInv, NumberedInv, UsedBy, PairOf
  <1>5. ASSUME NEW cid \in Clients, NEW oid \in ClientOrderIds, Cancel(cid, oid)
        PROVE  CancelInv'
    <2> DEFINE id == cid_oid_to_order_[<<cid, oid>>]
    <2>1. pc = "poll" /\ UNCHANGED <<pc, request, requested>>
      BY <1>5 DEF Cancel
    <2>2. NumberedInv'
      BY <2>1 DEF CancelInv, NumberedInv, UsedBy
    <2>3. CASE id # INVALID
      <3>1. id \in DOMAIN orders /\ RemoveOrder(id)
        BY <1>5, <2>3 DEF Cancel, IInv, BookInv, MapInv
      <3>2. \A j \in DOMAIN orders' :
                /\ j \in DOMAIN orders /\ orders'[j] = orders[j]
                /\ cid_oid_to_order_'[PairOf(orders[j])] = j
        BY <3>1, RemoveOrderKeepsEntries
      <3> QED BY <2>1, <2>2, <3>2 DEF CancelInv, PairOf
    <2>4. CASE id = INVALID
      <3>1. UNCHANGED <<orders, cid_oid_to_order_>>
        BY <1>5, <2>4 DEF Cancel, bookVars
      <3> QED BY <2>1, <2>2, <3>1 DEF CancelInv, PairOf
    <2> QED BY <2>3, <2>4
  <1> QED BY <1>1, <1>2, <1>3, <1>4, <1>5 DEF Next

\* Whatever was filled, canceled or added since, the owner of a resting order
\* can cancel it, and cancels no order but its own.
THEOREM AlwaysCancelable ==
    ASSUME PricesApartModLevels, FreshIds
    PROVE  Spec => []Cancelable
  <1>1. Init => CancelInv
    <2> SUFFICES ASSUME Init PROVE CancelInv
      OBVIOUS
    <2>1. IsFiniteSet(requested) /\ requested = {} /\ DOMAIN orders = {} /\ pc = "poll"
      BY FS_EmptySet DEF Init
    <2> QED BY <2>1 DEF CancelInv, NumberedInv
  <1>2. IInv /\ CancelInv /\ [Next]_vars => CancelInv'
    BY StepCancelInv
  <1>3. IInv /\ CancelInv => Cancelable
    BY DEF IInv, BookInv, BookType, MapInv, CancelInv, Cancelable, PairOf
  <1> QED BY Invariant, <1>1, <1>2, <1>3, PTL DEF Spec

-----------------------------------------------------------------------------
\* Every fill goes to the best priced resting order and, at its price, to the
\* one that came first, within the limit of the incoming order.
THEOREM FillsInPriceTimeOrder ==
    ASSUME PricesApartModLevels
    PROVE  Spec => PriceTimePriority
  <1> DEFINE A == \A id \in DOMAIN orders : Fills(id) =>
                    /\ orders[id].side = Opposite(request.side)
                    /\ Crosses(request.side, request.price, orders[id].price)
                    /\ \A j \in DOMAIN orders \ {id} :
                         orders[j].side = orders[id].side =>
                           \/ Worse(orders[j].side, orders[j].price, orders[id].price)
                           \/ orders[j].price = orders[id].price /\ id < j
  <1>1. IInv /\ [Next]_vars => [A]_vars
    <2> SUFFICES ASSUME IInv, Next, NEW id \in DOMAIN orders, Fills(id)
                 PROVE  /\ orders[id].side = Opposite(request.side)
                        /\ Crosses(request.side, request.price, orders[id].price)
                        /\ \A j \in DOMAIN orders \ {id} :
                             orders[j].side = orders[id].side =>
                               \/ Worse(orders[j].side, orders[j].price, orders[id].price)
                               \/ orders[j].price = orders[id].price /\ id < j
      OBVIOUS
    <2>1. pc = "match" /\ (id \in DOMAIN orders' => orders'[id].qty < orders[id].qty)
      BY DEF Fills
    <2>2. orders[id].qty \in Nat
      BY DEF IInv, BookInv, BookType, Order
    <2>3. Match
      <3>1. ~Complete
        BY <2>1, <2>2 DEF Complete, bookVars
      <3>2. ~Rest
        <4> SUFFICES ASSUME Rest PROVE FALSE
          OBVIOUS
        <4>1. id < request.market_order_id /\ id \in Nat
              /\ request.market_order_id \in Nat
          BY <2>1 DEF IInv, IdInv, TypeOK, Request, MarketOrderIds
        <4>2. PICK v : orders' = With(orders, request.market_order_id, v)
          BY DEF Rest, AddOrder
        <4>3. id \in DOMAIN orders' /\ orders'[id] = orders[id]
          BY <4>1, <4>2 DEF With
        <4> QED BY <2>1, <2>2, <4>3
      <3> QED BY <2>1, <3>1, <3>2 DEF Next, Accept, Cancel
    <2>4. CanMatch /\ Opposite(request.side) \in Sides
      BY <2>1, <2>3 DEF Match, IInv, TypeOK, Request, Opposite, Sides
    <2>5. id = BestOpposite
      <3>1. BestOpposite \in DOMAIN orders
        BY <2>4, BestIsBest DEF CanMatch, BestOpposite, IInv
      <3>2. CASE orders' = Without(orders, BestOpposite)
        BY <2>1, <2>2, <3>2 DEF Without
      <3>3. ASSUME NEW q, orders' = [orders EXCEPT ![BestOpposite].qty = q]
            PROVE  id = BestOpposite
        BY <2>1, <2>2, <3>1, <3>3
      <3> QED BY <2>3, <3>2, <3>3 DEF Match, RemoveOrder
    <2>6. /\ orders[id].side = Opposite(request.side)
          /\ \A j \in DOMAIN orders : orders[j].side = Opposite(request.side) =>
                 \/ j = id
                 \/ Worse(Opposite(request.side), orders[j].price, orders[id].price)
                 \/ orders[j].price = orders[id].price /\ id < j
      BY <2>4, <2>5, BestIsBest DEF CanMatch, BestOpposite, IInv
    <2>7. Crosses(request.side, request.price, orders[id].price)
      BY <2>4, <2>5 DEF CanMatch
    <2> QED BY <2>6, <2>7, Zenon
  <1> QED BY Invariant, <1>1, PTL DEF Spec, PriceTimePriority
==============================================================================
