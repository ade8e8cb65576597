---------------------------- MODULE BookFeedProofs ----------------------------
(***************************************************************************)
(* The matching engine implements BookFeed: the updates of every step tell *)
(* exactly how the book changed, so whoever applies them in order has the  *)
(* engine's book.                                                          *)
(***************************************************************************)
EXTENDS ExchangeOrderBookProofs

Entry(o) == [side |-> o.side, price |-> o.price, qty |-> o.qty,
             priority |-> o.priority]

-----------------------------------------------------------------------------
(* Which batches Batches contains.                                         *)

\* No update is sent for a book that stays as it is.
LEMMA QuietBatch ==
    ASSUME NEW b
    PROVE  <<>> \in Batches(b, b)
  BY DEF Batches

\* An ADD reports an order that comes to rest.
LEMMA AddBatch ==
    ASSUME NEW b, NEW id, NEW e, id \notin DOMAIN b
    PROVE  <<AddOf(id, e)>> \in Batches(b, With(b, id, e))
  <1> DEFINE c == With(b, id, e)
  <1>1. c[id] = e /\ id \in DOMAIN c \ DOMAIN b /\ c = With(b, id, c[id])
    BY DEF With
  <1> HIDE DEF c
  <1>2. id \in {i \in DOMAIN c \ DOMAIN b : c = With(b, i, c[i])}
    BY <1>1, Zenon
  <1>3. <<AddOf(id, c[id])>> \in Batches(b, c)
    BY <1>2, Zenon DEF Batches
  <1> QED BY <1>1, <1>3 DEF c

\* A CANCEL, or a TRADE and a CANCEL, report an order that leaves.
LEMMA RemoveBatches ==
    ASSUME NEW b, NEW id \in DOMAIN b
    PROVE  /\ <<CancelOf(id, b[id])>> \in Batches(b, Without(b, id))
           /\ <<TradeOf(b[id], b[id].qty), FilledOf(id, b[id])>>
                \in Batches(b, Without(b, id))
  <1> DEFINE c == Without(b, id)
  <1>1. id \in DOMAIN b \ DOMAIN c /\ c = Without(b, id)
    BY DEF Without
  <1> HIDE DEF c
  <1>2. id \in {i \in DOMAIN b \ DOMAIN c : c = Without(b, i)}
    BY <1>1, Zenon
  <1>3. /\ <<CancelOf(id, b[id])>> \in Batches(b, c)
        /\ <<TradeOf(b[id], b[id].qty), FilledOf(id, b[id])>> \in Batches(b, c)
    BY <1>2, Zenon DEF Batches
  <1> QED BY <1>1, <1>3 DEF c

\* A TRADE and a MODIFY report an order that loses quantity.
LEMMA ModifyBatch ==
    ASSUME NEW b, NEW c, NEW id \in DOMAIN b \cap DOMAIN c,
           c[id].qty < b[id].qty,
           c = [b EXCEPT ![id].qty = c[id].qty]
    PROVE  <<TradeOf(b[id], b[id].qty - c[id].qty), ModifyOf(id, c[id])>>
             \in Batches(b, c)
  <1>1. id \in {i \in DOMAIN b \cap DOMAIN c :
                  /\ c[i].qty < b[i].qty
                  /\ c = [b EXCEPT ![i].qty = c[i].qty]}
    OBVIOUS
  <1> QED BY <1>1, Zenon DEF Batches

-----------------------------------------------------------------------------
(* The public book after each kind of change.                              *)

LEMMA PublicAdd ==
    ASSUME NEW id, NEW o, orders' = With(orders, id, o)
    PROVE  PublicBook' = With(PublicBook, id, Entry(o))
  BY DEF PublicBook, With, Entry

LEMMA PublicRemove ==
    ASSUME NEW id, orders' = Without(orders, id)
    PROVE  PublicBook' = Without(PublicBook, id)
  BY DEF PublicBook, Without

LEMMA PublicModify ==
    ASSUME NEW id \in DOMAIN orders, NEW q, orders \in [DOMAIN orders -> Order],
           orders' = [orders EXCEPT ![id].qty = q]
    PROVE  /\ PublicBook' = [PublicBook EXCEPT ![id].qty = q]
           /\ PublicBook'[id] = [Entry(orders[id]) EXCEPT !.qty = q]
           /\ DOMAIN PublicBook' = DOMAIN PublicBook
  <1>1. DOMAIN orders' = DOMAIN orders
    OBVIOUS
  <1>2. \A j \in DOMAIN orders \ {id} : orders'[j] = orders[j]
    OBVIOUS
  <1>3. orders'[id] = [orders[id] EXCEPT !.qty = q] /\ orders[id] \in Order
    OBVIOUS
  <1>4. /\ orders'[id].qty = q /\ orders'[id].side = orders[id].side
        /\ orders'[id].price = orders[id].price
        /\ orders'[id].priority = orders[id].priority
    BY <1>3 DEF Order
  <1>5. PublicBook' = [j \in DOMAIN orders |-> Entry(orders'[j])]
    BY <1>1 DEF PublicBook, Entry
  <1>6. Entry(orders'[id]) = [Entry(orders[id]) EXCEPT !.qty = q]
    BY <1>4 DEF Entry
  <1>7. PublicBook = [j \in DOMAIN orders |-> Entry(orders[j])]
    BY DEF PublicBook, Entry
  <1>8. /\ DOMAIN PublicBook' = DOMAIN PublicBook
        /\ PublicBook'[id] = [Entry(orders[id]) EXCEPT !.qty = q]
    BY <1>5, <1>6, <1>7
  <1>9. PublicBook' = [PublicBook EXCEPT ![id].qty = q]
    BY <1>2, <1>5, <1>6, <1>7
  <1> QED BY <1>8, <1>9

\* What the public book says of an order.
LEMMA PublicEntry ==
    ASSUME NEW id \in DOMAIN orders
    PROVE  id \in DOMAIN PublicBook /\ PublicBook[id] = Entry(orders[id])
  BY DEF PublicBook, Entry

-----------------------------------------------------------------------------
(* One lemma per action that changes the book.                             *)

\* Match announces the trade and what it leaves of the resting order.
LEMMA MatchTells ==
    ASSUME IInv, Match
    PROVE  updates' \in Batches(PublicBook, PublicBook')
  <1> DEFINE id   == BestOpposite
             o    == orders[id]
             fill == Lesser(request.leaves_qty, o.qty)
             left == o.qty - fill
  <1>1. request \in Request /\ CanMatch /\ Opposite(request.side) \in Sides
    BY DEF Match, IInv, TypeOK, Request, Opposite, Sides
  <1>2. id \in DOMAIN orders /\ o.side = Opposite(request.side)
    BY <1>1, BestIsBest DEF CanMatch, BestOpposite, IInv
  <1>3. /\ o.qty \in Nat /\ request.leaves_qty \in Nat /\ request.leaves_qty # 0
        /\ orders \in [DOMAIN orders -> Order]
        /\ Opposite(o.side) = request.side
    BY <1>1, <1>2 DEF IInv, TypeOK, BookInv, BookType, Order, Request, CanMatch,
                      Opposite, Sides
  <1>4. /\ PublicBook[id] = Entry(o) /\ id \in DOMAIN PublicBook
        /\ Entry(o).qty = o.qty /\ Entry(o).side = o.side
        /\ Entry(o).price = o.price /\ Entry(o).priority = o.priority
    BY <1>2, PublicEntry DEF Entry
  <1>5. CASE left = 0
    <2>1. /\ orders' = Without(orders, id)
          /\ updates' = <<Update("TRADE", INVALID, request.side, o.price, fill, INVALID),
                          Update("CANCEL", id, o.side, o.price, o.qty, INVALID)>>
      BY <1>5 DEF Match, RemoveOrder
    <2>2. fill = o.qty
      BY <1>5, <1>3 DEF Lesser
    <2>3. updates' = <<TradeOf(Entry(o), o.qty), FilledOf(id, Entry(o))>>
      BY <2>1, <2>2, <1>3, <1>4 DEF TradeOf, FilledOf
    <2>4. PublicBook' = Without(PublicBook, id)
      BY <2>1, PublicRemove
    <2>5. <<TradeOf(PublicBook[id], PublicBook[id].qty), FilledOf(id, PublicBook[id])>>
             \in Batches(PublicBook, Without(PublicBook, id))
      BY <1>4, RemoveBatches
    <2> HIDE DEF o, id
    <2> QED BY <2>3, <2>4, <2>5, <1>4
  <1>6. CASE left # 0
    <2>1. /\ orders' = [orders EXCEPT ![id].qty = left]
          /\ updates' = <<Update("TRADE", INVALID, request.side, o.price, fill, INVALID),
                          Update("MODIFY", id, o.side, o.price, left, o.priority)>>
      BY <1>6 DEF Match
    <2>2. left < o.qty /\ fill = o.qty - left
      BY <1>3, <1>6 DEF Lesser
    <2>3. /\ PublicBook' = [PublicBook EXCEPT ![id].qty = left]
          /\ PublicBook'[id] = [Entry(o) EXCEPT !.qty = left]
          /\ id \in DOMAIN PublicBook \cap DOMAIN PublicBook'
      BY <1>2, <1>3, <1>4, <2>1, PublicModify
    <2>4. /\ PublicBook'[id].qty = left /\ PublicBook'[id].side = o.side
          /\ PublicBook'[id].price = o.price /\ PublicBook'[id].priority = o.priority
      BY <2>3 DEF Entry
    <2>5. updates' = <<TradeOf(PublicBook[id], PublicBook[id].qty - PublicBook'[id].qty),
                       ModifyOf(id, PublicBook'[id])>>
      BY <2>1, <2>2, <2>4, <1>3, <1>4 DEF TradeOf, ModifyOf
    <2>6. PublicBook'[id].qty < PublicBook[id].qty
      BY <2>2, <2>4, <1>4
    <2>7. PublicBook' = [PublicBook EXCEPT ![id].qty = PublicBook'[id].qty]
      BY <2>3, <2>4
    <2>8. <<TradeOf(PublicBook[id], PublicBook[id].qty - PublicBook'[id].qty),
            ModifyOf(id, PublicBook'[id])>> \in Batches(PublicBook, PublicBook')
      BY <2>3, <2>6, <2>7, ModifyBatch
    <2> QED BY <2>5, <2>8
  <1> QED BY <1>5, <1>6

\* Add announces the quantity and the priority the order rests with.
LEMMA RestTells ==
    ASSUME IInv, Rest
    PROVE  updates' \in Batches(PublicBook, PublicBook')
  <1> DEFINE id == request.market_order_id
             o  == [client_id |-> request.client_id,
                    client_order_id |-> request.client_order_id,
                    side |-> request.side, price |-> request.price,
                    qty |-> request.leaves_qty,
                    priority |-> GetNextPriority(request.price)]
  <1>1. /\ orders' = With(orders, id, o)
        /\ updates' = <<Update("ADD", id, request.side, request.price,
                               request.leaves_qty, GetNextPriority(request.price))>>
    BY DEF Rest, AddOrder
  <1>2. id \notin DOMAIN orders
    BY DEF Rest, IInv, IdInv, TypeOK, Request, MarketOrderIds
  <1>3. updates' = <<AddOf(id, Entry(o))>>
    BY <1>1 DEF AddOf, Entry
  <1> HIDE DEF o, id
  <1>4. PublicBook' = With(PublicBook, id, Entry(o)) /\ id \notin DOMAIN PublicBook
    BY <1>1, <1>2, PublicAdd DEF PublicBook
  <1> QED BY <1>3, <1>4, AddBatch

\* Cancel announces the order it removes, and nothing when it is rejected.
LEMMA CancelTells ==
    ASSUME IInv, NEW cid \in Clients, NEW oid \in ClientOrderIds, Cancel(cid, oid)
    PROVE  updates' \in Batches(PublicBook, PublicBook')
  <1> DEFINE id == cid_oid_to_order_[<<cid, oid>>]
             o  == orders[id]
  <1>1. CASE id # INVALID
    <2>1. id \in DOMAIN orders
      BY <1>1 DEF IInv, BookInv, MapInv
    <2>2. /\ orders' = Without(orders, id)
          /\ updates' = <<Update("CANCEL", id, o.side, o.price, 0, o.priority)>>
      BY <1>1 DEF Cancel, RemoveOrder
    <2>3. updates' = <<CancelOf(id, Entry(o))>>
      BY <2>2 DEF CancelOf, Entry
    <2> HIDE DEF o, id
    <2>4. /\ PublicBook' = Without(PublicBook, id)
          /\ id \in DOMAIN PublicBook /\ PublicBook[id] = Entry(o)
      BY <2>1, <2>2, PublicRemove, PublicEntry DEF o
    <2> QED BY <2>3, <2>4, RemoveBatches
  <1>2. CASE id = INVALID
    BY <1>2, QuietBatch DEF Cancel, bookVars, PublicBook
  <1> QED BY <1>1, <1>2

\* The engine implements BookFeed: what it announces is what happened to its
\* book, for all clients, prices, quantities and level counts.
THEOREM UpdatesTell ==
    ASSUME PricesApartModLevels
    PROVE  Spec => UpdatesTellTheBook
  <1>1. Init => Feed!Init
    BY DEF Init, Feed!Init, PublicBook
  <1>2. IInv /\ [Next]_vars => [Feed!Next]_<<PublicBook, updates>>
    <2> SUFFICES ASSUME IInv, Next
                 PROVE  \/ updates' \in Batches(PublicBook, PublicBook')
                        \/ UNCHANGED <<PublicBook, updates>>
      <3>1. UNCHANGED vars => UNCHANGED <<PublicBook, updates>>
        BY DEF vars, bookVars, PublicBook
      <3>2. Feed!Next = (updates' \in Batches(PublicBook, PublicBook'))
        BY Zenon DEF Feed!Next, Feed!Batches, Batches,
               Feed!AddOf, AddOf, Feed!CancelOf, CancelOf, Feed!TradeOf, TradeOf,
               Feed!ModifyOf, ModifyOf, Feed!FilledOf, FilledOf, Feed!Update, Update,
               Feed!With, With, Feed!Without, Without, Feed!Opposite, Opposite,
               Feed!INVALID, INVALID
      <3> QED BY <3>1, <3>2
    <2>1. CASE Complete \/ \E cid \in Clients, oid \in ClientOrderIds, side \in Sides,
                 price \in Prices, qty \in Qtys : Accept(cid, oid, side, price, qty)
      BY <2>1, QuietBatch DEF Complete, Accept, bookVars, PublicBook
    <2> QED BY <2>1, MatchTells, RestTells, CancelTells DEF Next
  <1> QED BY Invariant, <1>1, <1>2, PTL DEF Spec, UpdatesTellTheBook, Feed!Spec
==============================================================================
