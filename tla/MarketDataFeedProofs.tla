------------------------ MODULE MarketDataFeedProofs ------------------------
(***************************************************************************)
(* The synthesizer's book is the engine's; a client that is synchronized   *)
(* has the exchange's book after exactly the updates it has counted,       *)
(* whatever happened to incremental datagrams, and on an ordered network   *)
(* never an older one than before.                                         *)
(***************************************************************************)
EXTENDS MarketDataFeed, FiniteSetTheorems, WellFoundedInduction, TLAPS

AnyBook == UNION {[S -> Entry] : S \in SUBSET Nat}
IsBook(b, id) == DOMAIN b \subseteq 1 .. id - 1 /\ b \in [DOMAIN b -> Entry]

\* Update u, of the incremental stream, tells how book b became book c.
Tells(b, u, c) ==
    /\ u \in MEMarketUpdate /\ u.type \in {"ADD", "MODIFY", "CANCEL", "TRADE"}
    /\ c = Applied(b, u)

\* u is the n-th update of the engine.
IsUpdate(n, u) == Tells(books[n], u, books[n + 1])

BooksInv ==
    /\ network \in Networks
    /\ next_id \in Nat \ {0}
    /\ books \in Seq(AnyBook)
    /\ Len(books) \in 1 .. MaxUpdates[network] + 1
    /\ \A n \in 1 .. Len(books) : IsBook(books[n], next_id)

\* What the engine has sent and the publisher has not seen.
QueueInv ==
    /\ next_inc_seq_num_ \in Nat \ {0}
    /\ outgoing_md_updates_ \in Seq(MEMarketUpdate)
    /\ next_inc_seq_num_ + Len(outgoing_md_updates_) = Len(books)
    /\ \A k \in 1 .. Len(outgoing_md_updates_) :
           IsUpdate(next_inc_seq_num_ + k - 1, outgoing_md_updates_[k])

\* What the publisher has sent and the synthesizer has not seen.
SynthInv ==
    /\ last_inc_seq_num_ \in Nat
    /\ snapshot_md_updates_ \in Seq(MDPMarketUpdate)
    /\ last_inc_seq_num_ + Len(snapshot_md_updates_) = next_inc_seq_num_ - 1
    /\ \A k \in 1 .. Len(snapshot_md_updates_) :
           /\ snapshot_md_updates_[k].seq_num_ = last_inc_seq_num_ + k
           /\ IsUpdate(last_inc_seq_num_ + k, snapshot_md_updates_[k].update)
    /\ ticker_orders_ = books[last_inc_seq_num_ + 1]

\* A datagram of the incremental stream carries the update its number says.
Numbered(n, u) == n \in 1 .. next_inc_seq_num_ - 1 /\ IsUpdate(n, u)
NetInv ==
    /\ incremental_net \in Seq(MDPMarketUpdate)
    /\ \A k \in 1 .. Len(incremental_net) :
           Numbered(incremental_net[k].seq_num_, incremental_net[k].update)

ExchangeInv == BooksInv /\ QueueInv /\ SynthInv /\ NetInv

-----------------------------------------------------------------------------
(* The consumer.                                                           *)

\* The snapshot of the book b after n updates: how many messages it has, the
\* i-th of them, and the datagrams that carry it.
Orders(b) == Cardinality(DOMAIN b)
Size(b) == Orders(b) + 3
SnapshotUpdate(b, n, i) ==
    CASE i = 1 -> Marker("SNAPSHOT_START", n)
      [] i = 2 -> Marker("CLEAR", INVALID)
      [] i = Size(b) -> Marker("SNAPSHOT_END", n)
      [] OTHER -> LET id == Ascending(DOMAIN b)[i - 2] IN AddOf(id, b[id])
Msg(b, n, i) == [seq_num_ |-> i - 1, update |-> SnapshotUpdate(b, n, i)]
FirstDatagram(b, n) == [k \in 1 .. 3 |-> Msg(b, n, k)]
Datagrams(b, n) ==
    [k \in 1 .. Orders(b) + 1 |-> IF k = 1 THEN FirstDatagram(b, n)
                                  ELSE <<Msg(b, n, k + 2)>>]

\* What is left of the snapshot after n updates when a of its messages have
\* been read or dropped: of its first datagram, and of the others.
RestOfFirst(b, n, a) == [k \in 1 .. 3 - a |-> Msg(b, n, a + k)]
RestOfNet(b, n, a) == [k \in 1 .. Size(b) - a |-> <<Msg(b, n, a + k)>>]

\* The first a messages, queued.
Prefix(b, n, a) == [k \in 0 .. a - 1 |-> SnapshotUpdate(b, n, k + 1)]

\* The consumer has seen a messages of the snapshot after n updates: all of
\* them are queued, or none is.  Once the last datagram has left the network
\* a later snapshot may be on its way.
StreamAt(n, a) ==
    LET b == books[n + 1]
        r == IF a < 3 THEN 3 ELSE a
    IN  /\ n \in 0 .. last_inc_seq_num_
        /\ a \in 1 .. Size(b)
        /\ inbound_data_ = RestOfFirst(b, n, a)
        /\ \/ snapshot_net = RestOfNet(b, n, r)
           \/ /\ r = Size(b)
              /\ \E m \in n .. last_inc_seq_num_ :
                     snapshot_net = Datagrams(books[m + 1], m)
        /\ \/ snapshot_queued_msgs_ = <<>>
           \/ snapshot_queued_msgs_ = Prefix(b, n, a)
        /\ final_events # <<>> <=> snapshot_queued_msgs_ # <<>> /\ a = Size(b)

StreamInv == \E n, a \in Nat : StreamAt(n, a)

\* Queued incremental updates are what their numbers say; the queues are in
\* use in recovery only.
IncInv ==
    /\ in_recovery_ \in BOOLEAN
    /\ DOMAIN incremental_queued_msgs_ \subseteq 1 .. next_inc_seq_num_ - 1
    /\ \A n \in DOMAIN incremental_queued_msgs_ :
           IsUpdate(n, incremental_queued_msgs_[n])
    /\ ~in_recovery_ =>
           /\ inbound_data_ = <<>> /\ final_events = <<>>
           /\ snapshot_queued_msgs_ = <<>> /\ incremental_queued_msgs_ = <<>>

\* The events of a recovery from the snapshot after n updates, and the book
\* after e of them.
Event(b, n, inc, i) ==
    IF i <= Orders(b) + 1 THEN SnapshotUpdate(b, n, i + 1)
    ELSE inc[n + i - Orders(b) - 1]
Count(b, n, next) == Orders(b) + next - n
EventsAfter(b, n, inc, next, e) ==
    [k \in 1 .. Count(b, n, next) - e |-> Event(b, n, inc, e + k)]
FirstOrders(b, j) ==
    [id \in {Ascending(DOMAIN b)[k] : k \in 1 .. j} |-> b[id]]
FinalAt(n, e) ==
    LET b == books[n + 1]
    IN  /\ n \in 0 .. last_inc_seq_num_
        /\ next_exp_inc_seq_num_ > n
        /\ \A k \in n + 1 .. next_exp_inc_seq_num_ - 1 :
               k \in DOMAIN incremental_queued_msgs_
        /\ e \in 0 .. Count(b, n, next_exp_inc_seq_num_) - 1
        /\ final_events = EventsAfter(b, n, incremental_queued_msgs_,
                                      next_exp_inc_seq_num_, e)
        /\ e \in 1 .. Orders(b) + 1 => client_book = FirstOrders(b, e - 1)
        /\ e > Orders(b) + 1 => client_book = books[n + e - Orders(b)]
FinalInv ==
    final_events # <<>> =>
        \E n \in 0 .. last_inc_seq_num_ : \E e \in Nat : FinalAt(n, e)

SyncInv ==
    /\ next_exp_inc_seq_num_ \in 1 .. next_inc_seq_num_
    /\ synced \in 0 .. next_inc_seq_num_ - 1
    /\ IsBook(client_book, next_id)
    /\ SyncedBookIsExact

IInv == ExchangeInv /\ StreamInv /\ IncInv /\ FinalInv /\ SyncInv

-----------------------------------------------------------------------------
(* Time.                                                                   *)

\* The updates in the client's book once the events under way are pushed.
Target == IF final_events = <<>> THEN synced ELSE next_exp_inc_seq_num_ - 1

\* The datagrams of the incremental stream come in order and after every
\* update that is queued.
NetOrdered ==
    \A i, j \in 1 .. Len(incremental_net) :
        i < j => incremental_net[i].seq_num_ < incremental_net[j].seq_num_
NetAfter(n) == \A k \in 1 .. Len(incremental_net) : incremental_net[k].seq_num_ > n
QueuedAfter(n) == \A k \in DOMAIN incremental_queued_msgs_ : k > n
NetAfterQueued == \A n \in DOMAIN incremental_queued_msgs_ : NetAfter(n)

\* The snapshot being read, or all the incremental updates still to be seen
\* or used, are later than the first n updates.
Ahead(n) ==
    \/ \E m, a \in Nat : m >= n /\ StreamAt(m, a)
    \/ NetAfter(n) /\ (final_events = <<>> => QueuedAfter(n))

\* On an ordered network what is still to come is later than the client's
\* book.
TimeInv ==
    network = "ordered" =>
        /\ NetOrdered /\ NetAfterQueued
        /\ in_recovery_ => DOMAIN incremental_queued_msgs_ # {}
        /\ Target >= synced
        /\ Ahead(Target)

-----------------------------------------------------------------------------
(* Books.                                                                  *)

\* The empty sequence is the empty book.
LEMMA EmptyBook ==
    ASSUME NEW id \in Nat
    PROVE  DOMAIN <<>> = {} /\ <<>> \in AnyBook /\ IsBook(<<>>, id)
  <1>1. DOMAIN <<>> = {}
    OBVIOUS
  <1>2. <<>> = [x \in {} |-> {}]
    OBVIOUS
  <1>3. <<>> \in [{} -> Entry]
    BY <1>2
  <1>4. {} \in SUBSET Nat
    OBVIOUS
  <1> QED BY <1>1, <1>3, <1>4 DEF AnyBook, IsBook

\* A book with bounded ids is a book, and there are only so many orders in it.
LEMMA BookType ==
    ASSUME NEW id \in Nat, NEW b, IsBook(b, id)
    PROVE  /\ b \in AnyBook
           /\ IsFiniteSet(DOMAIN b) /\ Orders(b) \in Nat
  <1>1. DOMAIN b \subseteq Nat
    BY DEF IsBook
  <1>2. b \in AnyBook
    BY <1>1 DEF AnyBook, IsBook
  <1>3. IsFiniteSet(1 .. id - 1)
    BY FS_Interval
  <1>4. IsFiniteSet(DOMAIN b)
    BY <1>3, FS_Subset DEF IsBook
  <1> QED BY <1>2, <1>4, FS_CardinalityType DEF Orders

\* Later ids do no harm.
LEMMA BookLater ==
    ASSUME NEW id \in Nat, NEW jd \in Nat, id <= jd, NEW b, IsBook(b, id)
    PROVE  IsBook(b, jd)
  BY DEF IsBook

\* An order that comes to rest, one that leaves, one that loses quantity.
LEMMA BookChanges ==
    ASSUME NEW id \in Nat, NEW b, IsBook(b, id)
    PROVE  /\ \A x \in 1 .. id - 1, e \in Entry : IsBook(With(b, x, e), id)
           /\ \A x : IsBook(Without(b, x), id)
           /\ \A x \in DOMAIN b, q \in Nat \ {0} :
                  /\ IsBook([b EXCEPT ![x].qty = q], id)
                  /\ DOMAIN [b EXCEPT ![x].qty = q] = DOMAIN b
                  /\ [b EXCEPT ![x].qty = q][x] = [b[x] EXCEPT !.qty = q]
  <1>1. ASSUME NEW x \in 1 .. id - 1, NEW e \in Entry PROVE IsBook(With(b, x, e), id)
    BY DEF IsBook, With
  <1>2. ASSUME NEW x PROVE IsBook(Without(b, x), id)
    BY DEF IsBook, Without
  <1>3. ASSUME NEW x \in DOMAIN b, NEW q \in Nat \ {0}
        PROVE  /\ IsBook([b EXCEPT ![x].qty = q], id)
               /\ DOMAIN [b EXCEPT ![x].qty = q] = DOMAIN b
               /\ [b EXCEPT ![x].qty = q][x] = [b[x] EXCEPT !.qty = q]
    <2>1. b[x] \in Entry
      BY DEF IsBook
    <2>2. [b[x] EXCEPT !.qty = q] \in Entry
      BY <2>1 DEF Entry
    <2> QED BY <2>2 DEF IsBook
  <1> QED BY <1>1, <1>2, <1>3

-----------------------------------------------------------------------------
(* What the engine sends.                                                  *)

\* The kinds of batches.
LEMMA BatchKinds ==
    ASSUME NEW b, NEW c, NEW batch \in Batches(b, c)
    PROVE  \/ batch = <<>> /\ b = c
           \/ \E id \in DOMAIN c \ DOMAIN b :
                  c = With(b, id, c[id]) /\ batch = <<AddOf(id, c[id])>>
           \/ \E id \in DOMAIN b \ DOMAIN c :
                  /\ c = Without(b, id)
                  /\ \/ batch = <<CancelOf(id, b[id])>>
                     \/ batch = <<TradeOf(b[id], b[id].qty), FilledOf(id, b[id])>>
           \/ \E id \in DOMAIN b \cap DOMAIN c :
                  /\ c[id].qty < b[id].qty
                  /\ c = [b EXCEPT ![id].qty = c[id].qty]
                  /\ batch = <<TradeOf(b[id], b[id].qty - c[id].qty),
                               ModifyOf(id, c[id])>>
  BY Zenon DEF Batches

\* Each kind of update tells the change it is sent for.
LEMMA UpdatesTell ==
    ASSUME NEW jd \in Nat, NEW b, IsBook(b, jd), NEW id \in DOMAIN b
    PROVE  /\ Tells(b, CancelOf(id, b[id]), Without(b, id))
           /\ Tells(b, FilledOf(id, b[id]), Without(b, id))
           /\ \A q \in Nat : Tells(b, TradeOf(b[id], q), b)
  <1>1. b[id] \in Entry /\ id \in Nat
    BY DEF IsBook
  <1>2. Tells(b, CancelOf(id, b[id]), Without(b, id))
    <2>1. CancelOf(id, b[id]).type = "CANCEL" /\ CancelOf(id, b[id]).order_id = id
      BY DEF CancelOf, Update
    <2>2. CancelOf(id, b[id]) \in MEMarketUpdate
      BY <1>1 DEF CancelOf, Update, MEMarketUpdate, MarketUpdateType, Entry, Sides
    <2> QED BY <2>1, <2>2 DEF Tells, Applied
  <1>3. Tells(b, FilledOf(id, b[id]), Without(b, id))
    <2>1. FilledOf(id, b[id]).type = "CANCEL" /\ FilledOf(id, b[id]).order_id = id
      BY DEF FilledOf, Update
    <2>2. FilledOf(id, b[id]) \in MEMarketUpdate
      BY <1>1 DEF FilledOf, Update, MEMarketUpdate, MarketUpdateType, Entry, Sides, INVALID
    <2> QED BY <2>1, <2>2 DEF Tells, Applied
  <1>4. ASSUME NEW q \in Nat PROVE Tells(b, TradeOf(b[id], q), b)
    <2>1. TradeOf(b[id], q).type = "TRADE"
      BY DEF TradeOf, Update
    <2>2. TradeOf(b[id], q) \in MEMarketUpdate
      BY <1>1 DEF TradeOf, Update, MEMarketUpdate, MarketUpdateType, Entry, Sides, INVALID, Opposite
    <2> QED BY <2>1, <2>2 DEF Tells, Applied
  <1> QED BY <1>2, <1>3, <1>4

\* An ADD tells of an order that comes to rest.
LEMMA AddTells ==
    ASSUME NEW b, NEW id \in Nat, NEW e \in Entry
    PROVE  Tells(b, AddOf(id, e), With(b, id, e))
  <1>1. AddOf(id, e) \in MEMarketUpdate
    BY DEF AddOf, Update, MEMarketUpdate, MarketUpdateType, Entry, Sides
  <1>2. e = [side |-> e.side, price |-> e.price, qty |-> e.qty, priority |-> e.priority]
    BY DEF Entry
  <1>3. Applied(b, AddOf(id, e)) = With(b, id, e)
    BY <1>2 DEF Applied, AddOf, Update
  <1>4. AddOf(id, e).type = "ADD"
    BY DEF AddOf, Update
  <1> QED BY <1>1, <1>3, <1>4 DEF Tells

\* A MODIFY tells of an order that loses quantity.
LEMMA ModifyTells ==
    ASSUME NEW jd \in Nat, NEW b, IsBook(b, jd), NEW id \in DOMAIN b, NEW q \in Nat \ {0}
    PROVE  LET c == [b EXCEPT ![id].qty = q] IN Tells(b, ModifyOf(id, c[id]), c)
  <1> DEFINE c == [b EXCEPT ![id].qty = q]
             u == ModifyOf(id, c[id])
  <1>1. b[id] \in Entry /\ id \in Nat /\ c[id] = [b[id] EXCEPT !.qty = q]
    BY DEF IsBook
  <1>2. c[id] \in Entry /\ c[id].qty = q /\ c[id].price = b[id].price
    BY <1>1 DEF Entry
  <1>3. /\ u.type = "MODIFY" /\ u.order_id = id /\ u.qty = q
        /\ u.price = b[id].price /\ u \in MEMarketUpdate
    BY <1>1, <1>2 DEF ModifyOf, Update, MEMarketUpdate, MarketUpdateType, Entry, Sides
  <1> HIDE DEF u
  <1>4. Applied(b, u) = [b EXCEPT ![id].qty = q, ![id].price = b[id].price]
    BY <1>3 DEF Applied
  <1>5. [b EXCEPT ![id].qty = q, ![id].price = b[id].price] = c
    BY <1>1 DEF IsBook, Entry
  <1> QED BY <1>3, <1>4, <1>5 DEF Tells, u

\* A step of the engine leads to a book, another one than before, and sends
\* one update that tells so, or a TRADE that changes nothing and then one.
LEMMA StepTells ==
    ASSUME next_id \in Nat \ {0}, NEW b, IsBook(b, next_id),
           NEW c \in Successors(b), NEW batch \in Batches(b, c)
    PROVE  /\ IsBook(c, IF next_id \in DOMAIN c THEN next_id + 1 ELSE next_id)
           /\ batch \in Seq(MEMarketUpdate)
           /\ \/ Len(batch) = 1 /\ Tells(b, batch[1], c)
              \/ /\ Len(batch) = 2
                 /\ Tells(b, batch[1], b) /\ Tells(b, batch[2], c)
  <1> DEFINE jd == IF next_id \in DOMAIN c THEN next_id + 1 ELSE next_id
  <1>0. jd \in Nat \ {0} /\ next_id <= jd /\ IsBook(b, next_id + 1)
    BY BookLater
  <1>1. next_id \notin DOMAIN b /\ \A id \in DOMAIN b : id \in Nat /\ b[id] \in Entry
    BY DEF IsBook
  <1>2. IsBook(c, jd) /\ c # b
    <2>1. CASE \E e \in NewOrders : c = With(b, next_id, e)
      <3>1. PICK e \in NewOrders : c = With(b, next_id, e)
        BY <2>1
      <3>2. e \in Entry /\ next_id \in DOMAIN c /\ next_id \in 1 .. (next_id + 1) - 1
        BY <3>1, FeedAssumption DEF With
      <3>3. IsBook(c, next_id + 1)
        BY <3>1, <3>2, <1>0, BookChanges
      <3> QED BY <3>2, <3>3, <1>1
    <2>2. CASE \E id \in DOMAIN b : c = Without(b, id)
      <3>1. PICK id \in DOMAIN b : c = Without(b, id)
        BY <2>2
      <3>2. IsBook(c, next_id) /\ id \notin DOMAIN c /\ next_id \notin DOMAIN c
        BY <3>1, <1>1, BookChanges DEF Without
      <3> QED BY <3>2
    <2>3. CASE \E id \in DOMAIN b : \E q \in 1 .. b[id].qty - 1 :
                   c = [b EXCEPT ![id].qty = q]
      <3>1. PICK id \in DOMAIN b : \E q \in 1 .. b[id].qty - 1 :
                     c = [b EXCEPT ![id].qty = q]
        BY <2>3
      <3>2. PICK q \in 1 .. b[id].qty - 1 : c = [b EXCEPT ![id].qty = q]
        BY <3>1
      <3>3. b[id] \in Entry /\ b[id].qty \in Nat /\ q \in Nat \ {0} /\ q # b[id].qty
        BY <1>1 DEF Entry
      <3>4. /\ IsBook(c, next_id) /\ DOMAIN c = DOMAIN b
            /\ c[id] = [b[id] EXCEPT !.qty = q]
        BY <3>2, <3>3, BookChanges
      <3>5. c[id].qty = q
        BY <3>3, <3>4 DEF Entry
      <3> QED BY <3>3, <3>4, <3>5, <1>1
    <2> QED BY <2>1, <2>2, <2>3 DEF Successors
  <1>3. \A id \in DOMAIN c : id \in Nat /\ c[id] \in Entry
    BY <1>2, <1>0 DEF IsBook
  <1>4. CASE \E id \in DOMAIN c \ DOMAIN b :
                 c = With(b, id, c[id]) /\ batch = <<AddOf(id, c[id])>>
    <2>1. PICK id \in DOMAIN c \ DOMAIN b :
                 c = With(b, id, c[id]) /\ batch = <<AddOf(id, c[id])>>
      BY <1>4
    <2>2. Tells(b, AddOf(id, c[id]), c)
      BY <2>1, <1>3, AddTells
    <2>3. AddOf(id, c[id]) \in MEMarketUpdate
      BY <2>2 DEF Tells
    <2> QED BY <2>1, <2>2, <2>3, <1>2
  <1>5. CASE \E id \in DOMAIN b \ DOMAIN c :
                 /\ c = Without(b, id)
                 /\ \/ batch = <<CancelOf(id, b[id])>>
                    \/ batch = <<TradeOf(b[id], b[id].qty), FilledOf(id, b[id])>>
    <2>1. PICK id \in DOMAIN b \ DOMAIN c :
                 /\ c = Without(b, id)
                 /\ \/ batch = <<CancelOf(id, b[id])>>
                    \/ batch = <<TradeOf(b[id], b[id].qty), FilledOf(id, b[id])>>
      BY <1>5
    <2>2. b[id].qty \in Nat
      BY <1>1 DEF Entry
    <2>3. /\ Tells(b, CancelOf(id, b[id]), c) /\ Tells(b, FilledOf(id, b[id]), c)
          /\ Tells(b, TradeOf(b[id], b[id].qty), b)
      BY <2>1, <2>2, UpdatesTell
    <2>4. /\ CancelOf(id, b[id]) \in MEMarketUpdate
          /\ FilledOf(id, b[id]) \in MEMarketUpdate
          /\ TradeOf(b[id], b[id].qty) \in MEMarketUpdate
      BY <2>3 DEF Tells
    <2>5. CASE batch = <<CancelOf(id, b[id])>>
      BY <2>5, <2>3, <2>4, <1>2
    <2>6. CASE batch = <<TradeOf(b[id], b[id].qty), FilledOf(id, b[id])>>
      BY <2>6, <2>3, <2>4, <1>2
    <2> QED BY <2>1, <2>5, <2>6
  <1>6. CASE \E id \in DOMAIN b \cap DOMAIN c :
                 /\ c[id].qty < b[id].qty
                 /\ c = [b EXCEPT ![id].qty = c[id].qty]
                 /\ batch = <<TradeOf(b[id], b[id].qty - c[id].qty),
                              ModifyOf(id, c[id])>>
    <2>1. PICK id \in DOMAIN b \cap DOMAIN c :
                 /\ c[id].qty < b[id].qty
                 /\ c = [b EXCEPT ![id].qty = c[id].qty]
                 /\ batch = <<TradeOf(b[id], b[id].qty - c[id].qty),
                              ModifyOf(id, c[id])>>
      BY <1>6
    <2>2. c[id].qty \in Nat \ {0} /\ b[id].qty \in Nat
      BY <1>1, <1>3 DEF Entry
    <2>3. b[id].qty - c[id].qty \in Nat
      BY <2>1, <2>2
    <2>4. Tells(b, TradeOf(b[id], b[id].qty - c[id].qty), b)
      BY <2>3, UpdatesTell
    <2>5. Tells(b, ModifyOf(id, c[id]), c)
      BY <2>1, <2>2, ModifyTells
    <2>6. /\ TradeOf(b[id], b[id].qty - c[id].qty) \in MEMarketUpdate
          /\ ModifyOf(id, c[id]) \in MEMarketUpdate
      BY <2>4, <2>5 DEF Tells
    <2> QED BY <2>1, <2>4, <2>5, <2>6, <1>2
  <1> QED BY <1>2, <1>4, <1>5, <1>6, BatchKinds

-----------------------------------------------------------------------------
(* The exchange's steps.                                                   *)

\* At the start there is nothing but the empty book.
LEMMA ExchangeInit == Init => ExchangeInv
  <1> SUFFICES ASSUME Init PROVE ExchangeInv
    OBVIOUS
  <1>1. <<>> \in AnyBook /\ IsBook(<<>>, 1)
    BY EmptyBook
  <1>2. /\ books \in Seq(AnyBook) /\ Len(books) = 1 /\ books[1] = <<>>
        /\ network \in Networks /\ MaxUpdates[network] \in Nat
    BY <1>1, FeedAssumption DEF Init
  <1>3. BooksInv
    BY <1>1, <1>2 DEF Init, BooksInv
  <1>4. QueueInv /\ SynthInv /\ NetInv
    BY <1>2 DEF Init, QueueInv, SynthInv, NetInv
  <1> QED BY <1>3, <1>4 DEF ExchangeInv

\* What the engine's history says of its past stays.
LEMMA EngineKeepsPast ==
    ASSUME ExchangeInv, EngineStep
    PROVE  /\ BooksInv'
           /\ QueueInv'
           /\ Len(books') >= Len(books) /\ next_id' >= next_id
           /\ \A n \in 1 .. Len(books) : books'[n] = books[n]
  <1>1. PICK c \in Successors(book) : \E batch \in Batches(book, c) :
            /\ Len(books) + Len(batch) <= MaxUpdates[network] + 1
            /\ outgoing_md_updates_' = batch
            /\ books' = IF Len(batch) = 1 THEN Append(books, c)
                        ELSE Append(Append(books, book), c)
            /\ next_id' = IF next_id \in DOMAIN c THEN next_id + 1 ELSE next_id
    BY DEF EngineStep
  <1>2. PICK batch \in Batches(book, c) :
            /\ Len(books) + Len(batch) <= MaxUpdates[network] + 1
            /\ outgoing_md_updates_' = batch
            /\ books' = IF Len(batch) = 1 THEN Append(books, c)
                        ELSE Append(Append(books, book), c)
            /\ next_id' = IF next_id \in DOMAIN c THEN next_id + 1 ELSE next_id
    BY <1>1
  <1> DEFINE b == book
             L == Len(books)
  <1>3. /\ books \in Seq(AnyBook) /\ L \in Nat \ {0} /\ next_id \in Nat \ {0}
        /\ MaxUpdates[network] \in Nat /\ network \in Networks
        /\ \A n \in 1 .. L : books[n] \in AnyBook /\ IsBook(books[n], next_id)
        /\ b = books[L]
    BY FeedAssumption DEF ExchangeInv, BooksInv, book
  <1>4. /\ IsBook(b, next_id) /\ b \in AnyBook
        /\ next_id' \in Nat \ {0} /\ next_id' >= next_id
    BY <1>2, <1>3
  <1>5. /\ IsBook(c, next_id')
        /\ batch \in Seq(MEMarketUpdate)
        /\ \/ Len(batch) = 1 /\ Tells(b, batch[1], c)
           \/ /\ Len(batch) = 2
              /\ Tells(b, batch[1], b) /\ Tells(b, batch[2], c)
    BY <1>2, <1>3, <1>4, StepTells
  <1>6. c \in AnyBook
    BY <1>4, <1>5, BookType
  <1>7. network' = network /\ next_inc_seq_num_' = next_inc_seq_num_
        /\ outgoing_md_updates_ = <<>>
    BY DEF EngineStep
  <1>8. next_inc_seq_num_ = L /\ L \in Nat
    BY <1>3, <1>7 DEF ExchangeInv, QueueInv
  <1> HIDE DEF b, L
  <1>9. CASE Len(batch) = 1
    <2>1. /\ books' \in Seq(AnyBook) /\ Len(books') = L + 1
          /\ books'[L + 1] = c /\ \A n \in 1 .. L : books'[n] = books[n]
      BY <1>2, <1>3, <1>6, <1>9 DEF L
    <2>2. \A n \in 1 .. L + 1 : IsBook(books'[n], next_id')
      BY <2>1, <1>3, <1>4, <1>5, BookLater DEF L
    <2>3. BooksInv'
      BY <2>1, <2>2, <1>2, <1>3, <1>4, <1>7, <1>9 DEF BooksInv, L
    <2>4. Tells(books'[L], batch[1], books'[L + 1])
      BY <2>1, <1>3, <1>5, <1>9 DEF L
    <2>5. QueueInv'
      <3>1. \A k \in 1 .. 1 : Tells(books'[L + k - 1], batch[k], books'[(L + k - 1) + 1])
        BY <2>4, <1>8
      <3> QED BY <2>1, <3>1, <1>2, <1>3, <1>5, <1>7, <1>8, <1>9 DEF QueueInv, IsUpdate
    <2> QED BY <2>1, <2>3, <2>5, <1>3, <1>4 DEF L
  <1>10. CASE Len(batch) = 2
    <2>1. /\ books' \in Seq(AnyBook) /\ Len(books') = L + 2
          /\ books'[L + 1] = b /\ books'[L + 2] = c
          /\ \A n \in 1 .. L : books'[n] = books[n]
      BY <1>2, <1>3, <1>4, <1>6, <1>10 DEF L, b
    <2>2. ASSUME NEW n \in 1 .. L + 2 PROVE IsBook(books'[n], next_id')
      <3>1. CASE n \in 1 .. L
        BY <2>1, <3>1, <1>3, <1>4, BookLater DEF L
      <3>2. CASE n = L + 1
        BY <2>1, <3>2, <1>3, <1>4, BookLater
      <3>3. CASE n = L + 2
        BY <2>1, <3>3, <1>5
      <3> QED BY <3>1, <3>2, <3>3, <1>8
    <2>3. BooksInv'
      BY <2>1, <2>2, <1>2, <1>3, <1>4, <1>7, <1>10 DEF BooksInv, L
    <2>4. /\ Tells(books'[L], batch[1], books'[L + 1])
          /\ Tells(books'[L + 1], batch[2], books'[L + 2])
      BY <2>1, <1>3, <1>5, <1>10 DEF L, b
    <2>5. QueueInv'
      <3>1. \A k \in 1 .. 2 : Tells(books'[L + k - 1], batch[k], books'[(L + k - 1) + 1])
        BY <2>4, <1>8
      <3> QED BY <2>1, <3>1, <1>2, <1>3, <1>5, <1>7, <1>8, <1>10 DEF QueueInv, IsUpdate
    <2> QED BY <2>1, <2>3, <2>5, <1>3, <1>4 DEF L
  <1> QED BY <1>5, <1>9, <1>10

\* An update is what it was as long as the past stays.
LEMMA UpdatesStay ==
    ASSUME Len(books) \in Nat, \A n \in 1 .. Len(books) : books'[n] = books[n]
    PROVE  \A n \in 1 .. Len(books) - 1 : \A u : IsUpdate(n, u) => IsUpdate(n, u)'
  <1> SUFFICES ASSUME NEW n \in 1 .. Len(books) - 1, NEW u, IsUpdate(n, u)
               PROVE  IsUpdate(n, u)'
    OBVIOUS
  <1>1. n \in 1 .. Len(books) /\ n + 1 \in 1 .. Len(books)
    OBVIOUS
  <1> QED BY <1>1 DEF IsUpdate

\* Numbers and lengths of the exchange's queues.
LEMMA ExchangeCounts ==
    ASSUME ExchangeInv
    PROVE  /\ Len(books) \in Nat \ {0}
           /\ next_inc_seq_num_ \in 1 .. Len(books)
           /\ last_inc_seq_num_ \in 0 .. next_inc_seq_num_ - 1
           /\ next_id \in Nat \ {0}
           /\ \A n \in 1 .. Len(books) : IsBook(books[n], next_id)
  <1>1. Len(outgoing_md_updates_) \in Nat /\ Len(snapshot_md_updates_) \in Nat
    BY DEF ExchangeInv, QueueInv, SynthInv
  <1>2. Len(books) \in Nat \ {0}
    BY FeedAssumption DEF ExchangeInv, BooksInv
  <1> QED BY <1>1, <1>2 DEF ExchangeInv, BooksInv, QueueInv, SynthInv

\* The engine's step: the queue to the publisher holds its updates.
LEMMA EngineExchange ==
    ASSUME ExchangeInv, EngineStep
    PROVE  ExchangeInv'
  <1>1. /\ BooksInv' /\ QueueInv'
        /\ \A n \in 1 .. Len(books) : books'[n] = books[n]
    BY EngineKeepsPast
  <1>2. /\ Len(books) \in Nat \ {0} /\ next_inc_seq_num_ \in 1 .. Len(books)
        /\ last_inc_seq_num_ \in 0 .. next_inc_seq_num_ - 1
    BY ExchangeCounts
  <1>3. \A n \in 1 .. Len(books) - 1 : \A u : IsUpdate(n, u) => IsUpdate(n, u)'
    BY <1>1, <1>2, UpdatesStay
  <1>4. UNCHANGED <<next_inc_seq_num_, snapshot_md_updates_, ticker_orders_,
                    last_inc_seq_num_, incremental_net>>
    BY DEF EngineStep
  <1>5. SynthInv'
    <2>1. ASSUME NEW k \in 1 .. Len(snapshot_md_updates_)
          PROVE  /\ snapshot_md_updates_[k].seq_num_ = last_inc_seq_num_ + k
                 /\ Tells(books'[last_inc_seq_num_ + k], snapshot_md_updates_[k].update,
                          books'[(last_inc_seq_num_ + k) + 1])
      <3>1. /\ last_inc_seq_num_ + k \in 1 .. Len(books) - 1
            /\ last_inc_seq_num_ + k \in 1 .. Len(books)
            /\ (last_inc_seq_num_ + k) + 1 \in 1 .. Len(books)
        BY <1>2 DEF ExchangeInv, SynthInv
      <3> QED BY <3>1, <1>1 DEF ExchangeInv, SynthInv, IsUpdate
    <2>2. books'[last_inc_seq_num_ + 1] = books[last_inc_seq_num_ + 1]
      BY <1>1, <1>2
    <2> QED BY <2>1, <2>2, <1>4 DEF ExchangeInv, SynthInv, IsUpdate
  <1>6. NetInv'
    <2>1. ASSUME NEW k \in 1 .. Len(incremental_net)
          PROVE  Numbered(incremental_net[k].seq_num_, incremental_net[k].update)'
      <3> DEFINE n == incremental_net[k].seq_num_
                 u == incremental_net[k].update
      <3>1. n \in 1 .. next_inc_seq_num_ - 1 /\ IsUpdate(n, u)
        BY DEF ExchangeInv, NetInv, Numbered
      <3>2. n \in 1 .. Len(books) /\ n + 1 \in 1 .. Len(books)
        BY <3>1, <1>2
      <3>3. n' = n /\ u' = u
        BY <1>4
      <3> HIDE DEF n, u
      <3>4. Tells(books'[n], u, books'[n + 1])
        BY <3>1, <3>2, <1>1 DEF IsUpdate
      <3>5. Numbered(n, u)'
        BY <3>1, <3>3, <3>4, <1>4 DEF Numbered, IsUpdate
      <3> QED BY <3>5 DEF n, u
    <2> QED BY <2>1, <1>4 DEF ExchangeInv, NetInv
  <1> QED BY <1>1, <1>5, <1>6 DEF ExchangeInv

\* The publisher's: the update goes to the network and the synthesizer under
\* its number.
LEMMA PublishExchange ==
    ASSUME ExchangeInv, Publish
    PROVE  ExchangeInv'
  <1> DEFINE q == outgoing_md_updates_
             s == next_inc_seq_num_
             u == Head(q)
             m == [seq_num_ |-> s, update |-> u]
             net == incremental_net
             md == snapshot_md_updates_
             last == last_inc_seq_num_
  <1>1. /\ q # <<>> /\ q' = Tail(q) /\ s' = s + 1
        /\ net' = Append(net, m) /\ md' = Append(md, m)
        /\ UNCHANGED <<network, books, next_id, ticker_orders_, last_inc_seq_num_>>
    BY DEF Publish
  <1>2. /\ Len(books) \in Nat \ {0} /\ s \in 1 .. Len(books) /\ last \in 0 .. s - 1
    BY ExchangeCounts
  <1>3. /\ q \in Seq(MEMarketUpdate) /\ s + Len(q) = Len(books)
        /\ \A k \in 1 .. Len(q) : IsUpdate(s + k - 1, q[k])
    BY DEF ExchangeInv, QueueInv
  <1>4. /\ md \in Seq(MDPMarketUpdate) /\ last + Len(md) = s - 1
        /\ \A k \in 1 .. Len(md) : /\ md[k].seq_num_ = last + k
                                   /\ IsUpdate(last + k, md[k].update)
        /\ ticker_orders_ = books[last + 1]
    BY DEF ExchangeInv, SynthInv
  <1>5. /\ net \in Seq(MDPMarketUpdate)
        /\ \A k \in 1 .. Len(net) : Numbered(net[k].seq_num_, net[k].update)
    BY DEF ExchangeInv, NetInv
  <1>6. /\ u = q[1] /\ u \in MEMarketUpdate /\ Len(q) \in Nat \ {0}
        /\ Tail(q) \in Seq(MEMarketUpdate) /\ Len(Tail(q)) = Len(q) - 1
        /\ \A k \in 1 .. Len(q) - 1 : Tail(q)[k] = q[k + 1]
    BY <1>1, <1>3
  <1>7. /\ m \in MDPMarketUpdate /\ m.seq_num_ = s /\ m.update = u
        /\ IsUpdate(s, u)
    BY <1>2, <1>3, <1>6 DEF MDPMarketUpdate
  <1>8. \A n, v : IsUpdate(n, v) => IsUpdate(n, v)'
    BY <1>1 DEF IsUpdate
  <1>9. BooksInv'
    BY <1>1 DEF ExchangeInv, BooksInv
  <1>10. QueueInv'
    <2>1. ASSUME NEW k \in 1 .. Len(q) - 1
          PROVE  Tells(books[(s + 1) + k - 1], Tail(q)[k], books[((s + 1) + k - 1) + 1])
      <3>1. k + 1 \in 1 .. Len(q) /\ (s + 1) + k - 1 = s + (k + 1) - 1
        BY <1>2, <1>6
      <3>2. IsUpdate(s + (k + 1) - 1, q[k + 1])
        BY <3>1, <1>3
      <3> QED BY <3>1, <3>2, <1>6 DEF IsUpdate
    <2> QED BY <2>1, <1>1, <1>2, <1>3, <1>6 DEF QueueInv, IsUpdate
  <1>11. SynthInv'
    <2>1. /\ md' \in Seq(MDPMarketUpdate) /\ Len(md') = Len(md) + 1 /\ Len(md) \in Nat
          /\ md'[Len(md) + 1] = m /\ \A k \in 1 .. Len(md) : md'[k] = md[k]
      BY <1>1, <1>4, <1>7
    <2>2. ASSUME NEW k \in 1 .. Len(md) + 1
          PROVE  md'[k].seq_num_ = last + k /\ IsUpdate(last + k, md'[k].update)
      <3>1. CASE k \in 1 .. Len(md)
        BY <3>1, <2>1, <1>4
      <3>2. CASE k = Len(md) + 1
        <4>1. last + k = s /\ md'[k] = m
          BY <3>2, <2>1, <1>2, <1>4
        <4> QED BY <4>1, <1>7
      <3> QED BY <3>1, <3>2, <2>1
    <2>3. /\ books' = books /\ ticker_orders_' = ticker_orders_
          /\ last_inc_seq_num_' = last_inc_seq_num_ /\ s' = s + 1
          /\ last + (Len(md) + 1) = (s + 1) - 1
      BY <1>1, <1>2, <1>4, <2>1
    <2> QED BY <2>1, <2>2, <2>3, <1>2, <1>4 DEF SynthInv, IsUpdate
  <1>12. NetInv'
    <2>1. /\ net' \in Seq(MDPMarketUpdate) /\ Len(net') = Len(net) + 1 /\ Len(net) \in Nat
          /\ net'[Len(net) + 1] = m /\ \A k \in 1 .. Len(net) : net'[k] = net[k]
      BY <1>1, <1>5, <1>7
    <2>2. ASSUME NEW k \in 1 .. Len(net) + 1
          PROVE  /\ net'[k].seq_num_ \in 1 .. s'- 1
                 /\ IsUpdate(net'[k].seq_num_, net'[k].update)
      <3>1. CASE k \in 1 .. Len(net)
        <4>1. net'[k].seq_num_ \in 1 .. s - 1
          BY <3>1, <2>1, <1>5 DEF Numbered
        <4> QED BY <4>1, <3>1, <2>1, <1>1, <1>2, <1>5 DEF Numbered
      <3>2. CASE k = Len(net) + 1
        <4>1. net'[k] = m
          BY <3>2, <2>1
        <4> QED BY <4>1, <1>1, <1>2, <1>7
      <3> QED BY <3>1, <3>2, <2>1
    <2> HIDE DEF m
    <2> QED BY <2>1, <2>2, <1>1 DEF NetInv, Numbered, IsUpdate
  <1> QED BY <1>9, <1>10, <1>11, <1>12 DEF ExchangeInv

\* The synthesizer's: its book moves on by the update it has read.
LEMMA AddExchange ==
    ASSUME ExchangeInv, AddToSnapshot
    PROVE  ExchangeInv'
  <1> DEFINE md == snapshot_md_updates_
             last == last_inc_seq_num_
             m == Head(md)
  <1>1. /\ md # <<>> /\ md' = Tail(md) /\ last' = m.seq_num_
        /\ ticker_orders_' = Applied(ticker_orders_, m.update)
        /\ UNCHANGED <<network, books, next_id, outgoing_md_updates_,
                       next_inc_seq_num_, incremental_net>>
    BY DEF AddToSnapshot
  <1>2. /\ md \in Seq(MDPMarketUpdate) /\ last + Len(md) = next_inc_seq_num_ - 1
        /\ \A k \in 1 .. Len(md) : /\ md[k].seq_num_ = last + k
                                   /\ IsUpdate(last + k, md[k].update)
        /\ ticker_orders_ = books[last + 1]
        /\ last \in Nat
    BY DEF ExchangeInv, SynthInv
  <1>3. /\ m = md[1] /\ Len(md) \in Nat \ {0}
        /\ Tail(md) \in Seq(MDPMarketUpdate) /\ Len(Tail(md)) = Len(md) - 1
        /\ \A k \in 1 .. Len(md) - 1 : Tail(md)[k] = md[k + 1]
    BY <1>1, <1>2
  <1>4. m.seq_num_ = last + 1 /\ IsUpdate(last + 1, m.update)
    BY <1>2, <1>3
  <1>5. SynthInv'
    <2>1. ASSUME NEW k \in 1 .. Len(md) - 1
          PROVE  /\ Tail(md)[k].seq_num_ = (last + 1) + k
                 /\ IsUpdate((last + 1) + k, Tail(md)[k].update)
      <3>0. last \in Nat /\ Len(md) \in Nat
        BY <1>2, <1>3
      <3>1. k + 1 \in 1 .. Len(md) /\ (last + 1) + k = last + (k + 1)
        BY <3>0
      <3> QED BY <3>1, <1>2, <1>3
    <2>2. ticker_orders_' = books[(last + 1) + 1]
      BY <1>1, <1>2, <1>4 DEF IsUpdate, Tells
    <2>3. /\ books' = books /\ next_inc_seq_num_' = next_inc_seq_num_
          /\ last' = last + 1 /\ md' = Tail(md)
          /\ (last + 1) + (Len(md) - 1) = next_inc_seq_num_ - 1
      BY <1>1, <1>2, <1>3, <1>4
    <2> HIDE DEF m
    <2> QED BY <2>1, <2>2, <2>3, <1>2, <1>3 DEF SynthInv, IsUpdate
  <1>6. BooksInv' /\ QueueInv' /\ NetInv'
    BY <1>1 DEF ExchangeInv, BooksInv, QueueInv, NetInv, IsUpdate, Numbered
  <1> QED BY <1>5, <1>6 DEF ExchangeInv

\* What is left in a queue after one element is taken out was in it before.
LEMMA Removed ==
    ASSUME NEW S, NEW s \in Seq(S), NEW k \in 1 .. Len(s)
    PROVE  /\ RemovedAt(s, k) \in Seq(S)
           /\ Len(RemovedAt(s, k)) = Len(s) - 1
           /\ \A i \in 1 .. Len(s) - 1 :
                  RemovedAt(s, k)[i] = IF i < k THEN s[i] ELSE s[i + 1]
  BY DEF RemovedAt

\* Every step that leaves the exchange alone and at most takes a datagram
\* out of the network.
LEMMA OtherExchange ==
    ASSUME ExchangeInv, UNCHANGED <<network, exchangeVars>>,
           \/ UNCHANGED incremental_net
           \/ \E k \in 1 .. Len(incremental_net) :
                  incremental_net' = RemovedAt(incremental_net, k)
    PROVE  ExchangeInv'
  <1>1. BooksInv' /\ QueueInv' /\ SynthInv'
    BY DEF ExchangeInv, BooksInv, QueueInv, SynthInv, IsUpdate, exchangeVars
  <1>2. \A n, u : Numbered(n, u) => Numbered(n, u)'
    BY DEF Numbered, IsUpdate, exchangeVars
  <1>3. CASE UNCHANGED incremental_net
    BY <1>1, <1>2, <1>3 DEF ExchangeInv, NetInv, Numbered, IsUpdate, exchangeVars
  <1>4. CASE \E k \in 1 .. Len(incremental_net) :
                 incremental_net' = RemovedAt(incremental_net, k)
    <2>1. PICK k \in 1 .. Len(incremental_net) :
                 incremental_net' = RemovedAt(incremental_net, k)
      BY <1>4
    <2>2. incremental_net \in Seq(MDPMarketUpdate)
      BY DEF ExchangeInv, NetInv
    <2>3. /\ incremental_net' \in Seq(MDPMarketUpdate)
          /\ Len(incremental_net') = Len(incremental_net) - 1
          /\ \A i \in 1 .. Len(incremental_net) - 1 : incremental_net'[i] =
                 IF i < k THEN incremental_net[i] ELSE incremental_net[i + 1]
      BY <2>1, <2>2, Removed
    <2>4. ASSUME NEW i \in 1 .. Len(incremental_net) - 1
          PROVE  Numbered(incremental_net'[i].seq_num_, incremental_net'[i].update)
      <3>1. PICK j \in 1 .. Len(incremental_net) : incremental_net'[i] = incremental_net[j]
        <4>1. Len(incremental_net) \in Nat
          BY <2>2
        <4>2. i \in 1 .. Len(incremental_net) /\ i + 1 \in 1 .. Len(incremental_net)
          BY <4>1
        <4> QED BY <2>3, <4>2
      <3> QED BY <3>1 DEF ExchangeInv, NetInv
    <2>5. NetInv'
      BY <2>3, <2>4 DEF NetInv, Numbered, IsUpdate, exchangeVars
    <2> QED BY <1>1, <2>5 DEF ExchangeInv
  <1> QED BY <1>3, <1>4

\* Every step, with or without losses.
LEMMA ExchangeNext == ExchangeInv /\ [Next]_vars => ExchangeInv'
  <1> SUFFICES ASSUME ExchangeInv, [Next]_vars PROVE ExchangeInv'
    OBVIOUS
  <1>1. CASE EngineStep
    BY <1>1, EngineExchange
  <1>2. CASE Publish
    BY <1>2, PublishExchange
  <1>3. CASE AddToSnapshot
    BY <1>3, AddExchange
  <1>4. CASE PublishSnapshot
    BY <1>4, OtherExchange DEF PublishSnapshot
  <1>5. CASE RecvIncremental
    BY <1>5, OtherExchange DEF RecvIncremental
  <1>6. CASE RecvSnapshot
    BY <1>6, OtherExchange DEF RecvSnapshot
  <1>7. CASE RecvSnapshotMore
    BY <1>7, OtherExchange DEF RecvSnapshotMore
  <1>8. CASE PushEvent
    BY <1>8, OtherExchange DEF PushEvent
  <1>9. CASE LoseIncremental
    BY <1>9, OtherExchange DEF LoseIncremental
  <1>10. CASE LoseSnapshot
    BY <1>10, OtherExchange DEF LoseSnapshot
  <1>11. CASE UNCHANGED vars
    BY <1>11, OtherExchange DEF vars
  <1> QED BY <1>1, <1>2, <1>3, <1>4, <1>5, <1>6, <1>7, <1>8, <1>9, <1>10, <1>11
          DEF Next, Consumer

\* The synthesizer's copy is the engine's book after the last update that
\* AddToSnapshot has counted, whatever is lost on the way to the clients:
\* every snapshot is a book the exchange really had, under its number.
THEOREM SnapshotsAreTrue == Spec => []SnapshotMirrorsBook
  <1>1. ExchangeInv => SnapshotMirrorsBook
    BY DEF ExchangeInv, SynthInv, SnapshotMirrorsBook
  <1> QED BY <1>1, ExchangeInit, ExchangeNext, PTL DEF Spec

-----------------------------------------------------------------------------
(* Ascending and NextMissing find what they look for.                      *)

\* A set of naturals has a least element.
LEMMA Least ==
    ASSUME NEW T, T \subseteq Nat, T # {}
    PROVE  \E x \in T : \A y \in T : x <= y
  <1>1. PICK x \in T : \A y \in T : ~(<<y, x>> \in OpToRel(<, Nat))
    BY NatLessThanWellFounded, WFMin
  <1>2. \A y \in T : <<y, x>> \in OpToRel(<, Nat) <=> y < x
    BY DEF OpToRel
  <1>3. \A y \in T : ~(y < x)
    BY <1>1, <1>2
  <1> QED BY <1>3

\* How many elements of S come before x.
Rank(S, x) == Cardinality({y \in S : y < x})

\* A later element has more before it.
LEMMA RankGrows ==
    ASSUME NEW S, S \subseteq Nat, IsFiniteSet(S)
    PROVE  /\ \A x \in S : Rank(S, x) \in 0 .. Cardinality(S) - 1
           /\ \A x, z \in S : x < z => Rank(S, x) < Rank(S, z)
  <1> DEFINE B(x) == {y \in S : y < x}
  <1>0. Cardinality(S) \in Nat
    BY FS_CardinalityType
  <1>1. \A x \in S : IsFiniteSet(B(x)) /\ Cardinality(B(x)) \in Nat
    <2> TAKE x \in S
    <2>1. B(x) \in SUBSET S
      OBVIOUS
    <2>2. IsFiniteSet(B(x))
      BY <2>1, FS_Subset
    <2> QED BY <2>2, FS_CardinalityType
  <1>2. ASSUME NEW x \in S, NEW T, IsFiniteSet(T), B(x) \cup {x} \subseteq T
        PROVE  Cardinality(B(x)) < Cardinality(T)
    <2>1. x \notin B(x)
      OBVIOUS
    <2>2. Cardinality(B(x) \cup {x}) = Cardinality(B(x)) + 1
      BY <1>1, <2>1, FS_AddElement
    <2>3. Cardinality(B(x) \cup {x}) <= Cardinality(T) /\ Cardinality(T) \in Nat
      BY <1>2, FS_Subset, FS_CardinalityType
    <2> QED BY <2>2, <2>3, <1>1
  <1>3. \A x \in S : B(x) \cup {x} \subseteq S
    OBVIOUS
  <1>4. ASSUME NEW x \in S, NEW z \in S, x < z PROVE B(x) \cup {x} \subseteq B(z)
    <2>1. ASSUME NEW y \in S, y < x PROVE y < z
      BY <1>4, <2>1
    <2> QED BY <1>4, <2>1
  <1> HIDE DEF B
  <1>5. \A x \in S : Cardinality(B(x)) < Cardinality(S)
    BY <1>2, <1>3
  <1>6. \A x, z \in S : x < z => Cardinality(B(x)) < Cardinality(B(z))
    BY <1>1, <1>2, <1>4
  <1>7. \A x \in S : Rank(S, x) = Cardinality(B(x))
    BY DEF Rank, B
  <1> QED BY <1>0, <1>1, <1>5, <1>6, <1>7

\* Ascending lists the elements of a finite set, each at the place its rank
\* says.
LEMMA AscendingLists ==
    ASSUME NEW S, S \subseteq Nat, IsFiniteSet(S)
    PROVE  /\ DOMAIN Ascending(S) = 1 .. Cardinality(S)
           /\ Ascending(S) \in [1 .. Cardinality(S) -> S]
           /\ \A x \in S : /\ Rank(S, x) + 1 \in 1 .. Cardinality(S)
                           /\ Ascending(S)[Rank(S, x) + 1] = x
  <1> DEFINE N == Cardinality(S)
             A == Ascending(S)
             f == [x \in S |-> Rank(S, x)]
  <1>1. N \in Nat
    BY FS_CardinalityType
  <1>2. /\ \A x \in S : Rank(S, x) \in 0 .. N - 1
        /\ \A x, z \in S : x < z => Rank(S, x) < Rank(S, z)
    BY RankGrows
  <1>3. A = [k \in 1 .. N |-> CHOOSE x \in S : Rank(S, x) = k - 1]
    BY DEF Ascending, Rank
  <1> HIDE DEF N, A
  <1>4. \A x, z \in S : Rank(S, x) = Rank(S, z) => x = z
    <2> TAKE x, z \in S
    <2>1. x \in Nat /\ z \in Nat /\ Rank(S, x) \in Int /\ Rank(S, z) \in Int
      BY <1>1, <1>2
    <2> QED BY <2>1, <1>2
  <1>5. f \in Injection(S, 0 .. N - 1)
    BY <1>2, <1>4 DEF Injection, IsInjective
  <1>6. IsFiniteSet(0 .. N - 1) /\ Cardinality(0 .. N - 1) = N
    BY <1>1, FS_Interval
  <1>7. f \in Surjection(S, 0 .. N - 1)
    BY <1>5, <1>6, FS_Injection DEF N
  <1>8. \A i \in 0 .. N - 1 : \E x \in S : Rank(S, x) = i
    BY <1>7 DEF Surjection
  <1>9. ASSUME NEW k \in 1 .. N PROVE A[k] \in S /\ Rank(S, A[k]) = k - 1
    <2>1. k - 1 \in 0 .. N - 1
      BY <1>1
    <2>2. \E x \in S : Rank(S, x) = k - 1
      BY <2>1, <1>8
    <2>3. A[k] = CHOOSE x \in S : Rank(S, x) = k - 1
      BY <1>3
    <2> QED BY <2>2, <2>3, Zenon
  <1>10. ASSUME NEW x \in S
         PROVE  Rank(S, x) + 1 \in 1 .. N /\ A[Rank(S, x) + 1] = x
    <2>1. /\ Rank(S, x) + 1 \in 1 .. N /\ Rank(S, x) \in Int
          /\ (Rank(S, x) + 1) - 1 = Rank(S, x)
      BY <1>1, <1>2
    <2>2. A[Rank(S, x) + 1] \in S /\ Rank(S, A[Rank(S, x) + 1]) = Rank(S, x)
      BY <2>1, <1>9
    <2> QED BY <2>1, <2>2, <1>4
  <1>11. A \in [1 .. N -> S] /\ DOMAIN A = 1 .. N
    BY <1>3, <1>9
  <1> QED BY <1>10, <1>11 DEF A, N

\* There is a first number from n on without a queued update, and all before
\* it have one.
LEMMA NextMissingIs ==
    ASSUME NEW inc, NEW n \in Nat, NEW top \in Nat,
           DOMAIN inc \subseteq 1 .. top
    PROVE  LET m == NextMissing(inc, n)
           IN  /\ m \in Nat /\ m >= n /\ m \notin DOMAIN inc
               /\ \A k \in n .. m - 1 : k \in DOMAIN inc
  <1> DEFINE D == DOMAIN inc
             T == {m \in Nat : m >= n /\ m \notin D}
             P(m) == m \notin D /\ \A k \in n .. m - 1 : k \in D
  <1>1. IsFiniteSet(D) /\ Cardinality(D) \in Nat
    <2>1. IsFiniteSet(1 .. top)
      BY FS_Interval
    <2>2. IsFiniteSet(D)
      BY <2>1, FS_Subset
    <2> QED BY <2>2, FS_CardinalityType
  <1>2. T # {}
    <2>1. n + top + 1 \in Nat /\ n + top + 1 >= n /\ n + top + 1 \notin 1 .. top
      OBVIOUS
    <2> QED BY <2>1
  <1>3. PICK m \in T : \A y \in T : m <= y
    BY <1>2, Least
  <1>4. m \in Nat /\ m >= n /\ m \notin D
    BY <1>3
  <1>5. \A k \in n .. m - 1 : k \in D
    BY <1>3, <1>4
  <1>6. m \in n .. n + Cardinality(D)
    <2>1. n .. m - 1 \in SUBSET D
      BY <1>5
    <2>2. Cardinality(n .. m - 1) <= Cardinality(D)
      BY <2>1, <1>1, FS_Subset
    <2>3. Cardinality(n .. m - 1) = m - n
      BY <1>4, FS_Interval
    <2> QED BY <2>2, <2>3, <1>1, <1>4
  <1> HIDE DEF D
  <1>7. P(m)
    BY <1>4, <1>5
  <1>8. NextMissing(inc, n) = CHOOSE k \in n .. n + Cardinality(D) : P(k)
    BY DEF NextMissing, D
  <1> HIDE DEF P
  <1>9. NextMissing(inc, n) \in n .. n + Cardinality(D) /\ P(NextMissing(inc, n))
    BY <1>6, <1>7, <1>8, Zenon
  <1> QED BY <1>1, <1>9 DEF P, D

-----------------------------------------------------------------------------
(* Snapshots.                                                              *)

\* The orders of a snapshot are those of the book.
LEMMA SnapshotOrders ==
    ASSUME NEW id \in Nat, NEW b, IsBook(b, id)
    PROVE  /\ Orders(b) \in Nat
           /\ Ascending(DOMAIN b) \in [1 .. Orders(b) -> DOMAIN b]
           /\ Ascending(DOMAIN b) \in Seq(DOMAIN b)
           /\ Len(Ascending(DOMAIN b)) = Orders(b)
           /\ {Ascending(DOMAIN b)[k] : k \in 1 .. Orders(b)} = DOMAIN b
  <1> DEFINE A == Ascending(DOMAIN b)
             N == Orders(b)
  <1>1. DOMAIN b \subseteq Nat /\ IsFiniteSet(DOMAIN b) /\ N \in Nat
    BY BookType DEF IsBook
  <1>2. /\ A \in [1 .. N -> DOMAIN b]
        /\ \A x \in DOMAIN b : \E k \in 1 .. N : A[k] = x
    BY <1>1, AscendingLists DEF Orders
  <1> HIDE DEF A, N
  <1>3. A \in Seq(DOMAIN b) /\ Len(A) = N
    BY <1>1, <1>2
  <1>4. {A[k] : k \in 1 .. N} = DOMAIN b
    BY <1>2
  <1> QED BY <1>1, <1>2, <1>3, <1>4 DEF A, N

\* The messages of a snapshot, one by one.
LEMMA SnapshotUpdates ==
    ASSUME NEW id \in Nat, NEW b, IsBook(b, id), NEW n \in Nat
    PROVE  /\ Size(b) \in Nat /\ Size(b) >= 3
           /\ SnapshotUpdate(b, n, 1) = Marker("SNAPSHOT_START", n)
           /\ SnapshotUpdate(b, n, 2) = Marker("CLEAR", INVALID)
           /\ SnapshotUpdate(b, n, Size(b)) = Marker("SNAPSHOT_END", n)
           /\ \A i \in 1 .. Orders(b) :
                 LET x == Ascending(DOMAIN b)[i]
                 IN  /\ x \in DOMAIN b /\ b[x] \in Entry /\ x \in Nat
                     /\ SnapshotUpdate(b, n, i + 2) = AddOf(x, b[x])
  <1>0. Orders(b) \in Nat
    BY BookType
  <1>1. Size(b) \in Nat /\ Size(b) = Orders(b) + 3 /\ Size(b) >= 3
    BY <1>0 DEF Size
  <1>2. SnapshotUpdate(b, n, 1) = Marker("SNAPSHOT_START", n)
    BY <1>1 DEF SnapshotUpdate
  <1>3. SnapshotUpdate(b, n, 2) = Marker("CLEAR", INVALID)
    BY <1>1 DEF SnapshotUpdate
  <1>4. SnapshotUpdate(b, n, Size(b)) = Marker("SNAPSHOT_END", n)
    BY <1>1 DEF SnapshotUpdate
  <1>5. ASSUME NEW i \in 1 .. Orders(b)
        PROVE  LET x == Ascending(DOMAIN b)[i]
               IN  /\ x \in DOMAIN b /\ b[x] \in Entry /\ x \in Nat
                   /\ SnapshotUpdate(b, n, i + 2) = AddOf(x, b[x])
    <2> DEFINE x == Ascending(DOMAIN b)[i]
    <2>1. x \in DOMAIN b
      BY SnapshotOrders
    <2>2. b[x] \in Entry /\ x \in Nat
      BY <2>1 DEF IsBook
    <2>3. i + 2 # 1 /\ i + 2 # 2 /\ i + 2 # Size(b) /\ (i + 2) - 2 = i
      BY <1>0, <1>1
    <2>4. SnapshotUpdate(b, n, i + 2) = AddOf(x, b[x])
      BY <2>3 DEF SnapshotUpdate
    <2> QED BY <2>1, <2>2, <2>4
  <1> QED BY <1>1, <1>2, <1>3, <1>4, <1>5

\* They are updates; only the first starts the snapshot, only the last ends it.
LEMMA SnapshotTypes ==
    ASSUME NEW id \in Nat, NEW b, IsBook(b, id), NEW n \in Nat, NEW i \in 1 .. Size(b)
    PROVE  LET u == SnapshotUpdate(b, n, i)
           IN  /\ u \in MEMarketUpdate
               /\ u.type = "SNAPSHOT_START" <=> i = 1
               /\ u.type = "SNAPSHOT_END" <=> i = Size(b)
               /\ i = Size(b) => u.order_id = n
               /\ Msg(b, n, i) \in MDPMarketUpdate
               /\ Msg(b, n, i).seq_num_ = i - 1 /\ Msg(b, n, i).update = u
  <1> DEFINE u == SnapshotUpdate(b, n, i)
  <1>1. /\ Size(b) \in Nat /\ Size(b) >= 3 /\ Orders(b) \in Nat
        /\ Size(b) = Orders(b) + 3
    BY SnapshotUpdates, SnapshotOrders DEF Size
  <1>2. /\ u \in MEMarketUpdate
        /\ u.type = "SNAPSHOT_START" <=> i = 1
        /\ u.type = "SNAPSHOT_END" <=> i = Size(b)
        /\ i = Size(b) => u.order_id = n
    <2>1. CASE i = 1
      BY <2>1, <1>1, SnapshotUpdates
         DEF Marker, Update, MEMarketUpdate, MarketUpdateType, INVALID
    <2>2. CASE i = 2
      BY <2>2, <1>1, SnapshotUpdates
         DEF Marker, Update, MEMarketUpdate, MarketUpdateType, INVALID
    <2>3. CASE i = Size(b)
      BY <2>3, <1>1, SnapshotUpdates
         DEF Marker, Update, MEMarketUpdate, MarketUpdateType, INVALID
    <2>4. CASE i \notin {1, 2, Size(b)}
      <3>1. i - 2 \in 1 .. Orders(b) /\ (i - 2) + 2 = i
        BY <2>4, <1>1
      <3> DEFINE x == Ascending(DOMAIN b)[i - 2]
      <3>2. u = AddOf(x, b[x]) /\ b[x] \in Entry /\ x \in Nat
        BY <3>1, SnapshotUpdates
      <3> HIDE DEF x, u
      <3>3. u \in MEMarketUpdate /\ u.type = "ADD"
        BY <3>2 DEF AddOf, Update, MEMarketUpdate, MarketUpdateType, Entry, Sides
      <3> QED BY <3>3, <2>4
    <2> QED BY <2>1, <2>2, <2>3, <2>4
  <1>3. i - 1 \in Nat
    BY <1>1
  <1> HIDE DEF u
  <1>4. /\ Msg(b, n, i) \in MDPMarketUpdate
        /\ Msg(b, n, i).seq_num_ = i - 1 /\ Msg(b, n, i).update = u
    BY <1>2, <1>3 DEF Msg, MDPMarketUpdate, u
  <1> QED BY <1>2, <1>4 DEF u

\* Concatenation, place by place.
LEMMA Concatenated ==
    ASSUME NEW S, NEW s \in Seq(S), NEW t \in Seq(S)
    PROVE  /\ s \o t \in Seq(S) /\ Len(s \o t) = Len(s) + Len(t)
           /\ \A k \in 1 .. Len(s) : (s \o t)[k] = s[k]
           /\ \A k \in 1 .. Len(t) : (s \o t)[Len(s) + k] = t[k]
  OBVIOUS

\* PublishSnapshot sends the messages of the snapshot in these datagrams.
LEMMA PublishedDatagrams ==
    ASSUME next_id \in Nat, IsBook(ticker_orders_, next_id), last_inc_seq_num_ \in Nat,
           PublishSnapshot
    PROVE  snapshot_net' = Datagrams(ticker_orders_, last_inc_seq_num_)
  <1> DEFINE b == ticker_orders_
             n == last_inc_seq_num_
             N == Orders(b)
             ids == Ascending(DOMAIN b)
             s1 == <<Marker("SNAPSHOT_START", n), Marker("CLEAR", INVALID)>>
             s2 == [k \in 1 .. Len(ids) |-> AddOf(ids[k], b[ids[k]])]
             s3 == <<Marker("SNAPSHOT_END", n)>>
             updates == s1 \o s2 \o s3
             msgs == SnapshotMessages
             M(k) == Msg(b, n, k)
  <1>0. N \in Nat /\ Len(ids) = N
    BY SnapshotOrders
  <1>1. /\ N \in Nat /\ Len(ids) = N /\ Size(b) = N + 3
        /\ Size(b) \in Nat /\ Size(b) >= 3
    BY <1>0 DEF Size
  <1>2. \A i \in 1 .. Size(b) : SnapshotUpdate(b, n, i) \in MEMarketUpdate
    BY SnapshotTypes
  <1>3. s1 \in Seq(MEMarketUpdate) /\ s3 \in Seq(MEMarketUpdate)
    <2>1. /\ SnapshotUpdate(b, n, 1) = Marker("SNAPSHOT_START", n)
          /\ SnapshotUpdate(b, n, 2) = Marker("CLEAR", INVALID)
          /\ SnapshotUpdate(b, n, Size(b)) = Marker("SNAPSHOT_END", n)
      BY SnapshotUpdates
    <2> QED BY <2>1, <1>1, <1>2
  <1>4. \A k \in 1 .. N : SnapshotUpdate(b, n, k + 2) = AddOf(ids[k], b[ids[k]])
    BY SnapshotUpdates
  <1>5. /\ s2 \in Seq(MEMarketUpdate) /\ Len(s2) = N
        /\ \A k \in 1 .. N : s2[k] = SnapshotUpdate(b, n, k + 2)
    <2>1. \A k \in 1 .. N : AddOf(ids[k], b[ids[k]]) \in MEMarketUpdate
      <3> TAKE k \in 1 .. N
      <3>1. k + 2 \in 1 .. Size(b)
        BY <1>1
      <3> QED BY <3>1, <1>2, <1>4
    <2> QED BY <2>1, <1>1, <1>4
  <1>6. /\ updates \in Seq(MEMarketUpdate) /\ Len(updates) = N + 3
        /\ \A k \in 1 .. N + 3 : updates[k] = SnapshotUpdate(b, n, k)
    <2>1. /\ s1 \o s2 \in Seq(MEMarketUpdate) /\ Len(s1 \o s2) = N + 2
          /\ \A k \in 1 .. N + 2 :
                 (s1 \o s2)[k] = IF k <= 2 THEN s1[k] ELSE s2[k - 2]
      BY <1>1, <1>3, <1>5
    <2>a. /\ SnapshotUpdate(b, n, 1) = s1[1] /\ SnapshotUpdate(b, n, 2) = s1[2]
      BY SnapshotUpdates
    <2> DEFINE s12 == s1 \o s2
    <2> HIDE DEF s12, s1, s2, N
    <2>2. ASSUME NEW k \in 1 .. N + 2 PROVE s12[k] = SnapshotUpdate(b, n, k)
      <3>0. s12[k] = IF k <= 2 THEN s1[k] ELSE s2[k - 2]
        BY <2>1 DEF s12
      <3>1. CASE k = 1
        BY <3>0, <3>1, <2>a
      <3>2. CASE k = 2
        BY <3>0, <3>2, <2>a
      <3>3. CASE k > 2
        <4>1. k - 2 \in 1 .. N /\ (k - 2) + 2 = k
          BY <3>3, <1>1
        <4>2. s2[k - 2] = SnapshotUpdate(b, n, (k - 2) + 2)
          BY <4>1, <1>5
        <4>3. ~(k <= 2)
          BY <3>3
        <4> QED BY <4>1, <4>2, <4>3, <3>0
      <3>4. k = 1 \/ k = 2 \/ k > 2
        BY <1>1
      <3> QED BY <3>1, <3>2, <3>3, <3>4
    <2>3. /\ s12 \o s3 \in Seq(MEMarketUpdate) /\ Len(s12 \o s3) = N + 3
          /\ \A k \in 1 .. N + 2 : (s12 \o s3)[k] = s12[k]
          /\ (s12 \o s3)[N + 3] = Marker("SNAPSHOT_END", n)
      BY <1>1, <1>3, <2>1 DEF s12
    <2>4. SnapshotUpdate(b, n, N + 3) = Marker("SNAPSHOT_END", n)
      BY <1>1, SnapshotUpdates
    <2>5. \A k \in 1 .. N + 3 : k \in 1 .. N + 2 \/ k = N + 3
      BY <1>1
    <2> QED BY <2>2, <2>3, <2>4, <2>5 DEF s12, N
  <1>7. msgs = [k \in 1 .. N + 3 |-> M(k)]
    <2>1. msgs = [k \in 1 .. Len(updates) |-> [seq_num_ |-> k - 1, update |-> updates[k]]]
      BY DEF SnapshotMessages
    <2> HIDE DEF updates, msgs
    <2> QED BY <2>1, <1>6 DEF Msg
  <1> HIDE DEF msgs, updates, ids, s1, s2, s3
  <1>8. \A k \in 1 .. N + 3 : M(k) \in MDPMarketUpdate
    BY <1>1, SnapshotTypes
  <1> HIDE DEF M
  <1>9. msgs \in Seq(MDPMarketUpdate) /\ Len(msgs) = N + 3
    BY <1>1, <1>7, <1>8
  <1>10. SubSeq(msgs, 1, 3) = [k \in 1 .. 3 |-> M(k)]
    <2>1. SubSeq(msgs, 1, 3) = [k \in 1 .. 3 |-> msgs[k]]
      BY <1>1, <1>9
    <2> QED BY <2>1, <1>1, <1>7
  <1> DEFINE t1 == <<SubSeq(msgs, 1, 3)>>
             t2 == [k \in 1 .. Len(msgs) - 3 |-> <<msgs[k + 3]>>]
  <1>11. snapshot_net' = t1 \o t2
    BY DEF PublishSnapshot, msgs
  <1>12. t1 \in Seq(Seq(MDPMarketUpdate)) /\ Len(t1) = 1 /\ t1[1] = [k \in 1 .. 3 |-> M(k)]
    BY <1>1, <1>8, <1>10
  <1>13. /\ t2 \in Seq(Seq(MDPMarketUpdate)) /\ Len(t2) = N
         /\ \A k \in 1 .. N : t2[k] = <<M(k + 3)>>
    <2>1. Len(msgs) - 3 = N /\ \A k \in 1 .. N : k + 3 \in 1 .. N + 3
      BY <1>1, <1>9
    <2>2. \A k \in 1 .. N : msgs[k + 3] = M(k + 3) /\ M(k + 3) \in MDPMarketUpdate
      BY <2>1, <1>7, <1>8
    <2>3. t2 = [k \in 1 .. N |-> <<M(k + 3)>>]
      BY <2>1, <2>2
    <2>4. \A k \in 1 .. N : <<M(k + 3)>> \in Seq(MDPMarketUpdate)
      BY <2>2
    <2> HIDE DEF t2, N
    <2> QED BY <2>3, <2>4, <1>1
  <1> HIDE DEF t1, t2, N
  <1>14. t1 \o t2 = [k \in 1 .. N + 1 |-> IF k = 1 THEN [j \in 1 .. 3 |-> M(j)]
                                          ELSE <<M(k + 2)>>]
    <2> DEFINE c == t1 \o t2
               D(k) == IF k = 1 THEN [j \in 1 .. 3 |-> M(j)] ELSE <<M(k + 2)>>
    <2>1. /\ c \in Seq(Seq(MDPMarketUpdate)) /\ Len(c) = N + 1
          /\ c[1] = t1[1] /\ \A k \in 1 .. N : c[k + 1] = t2[k]
      <3> DEFINE SS == Seq(MDPMarketUpdate)
      <3>0. t1 \in Seq(SS) /\ t2 \in Seq(SS)
        BY <1>12, <1>13
      <3> HIDE DEF SS
      <3>1. /\ c \in Seq(SS) /\ Len(c) = Len(t1) + Len(t2)
            /\ \A k \in 1 .. Len(t1) : c[k] = t1[k]
            /\ \A k \in 1 .. Len(t2) : c[Len(t1) + k] = t2[k]
        BY <3>0, Concatenated
      <3>2. Len(t1) = 1 /\ Len(t2) = N
        BY <1>12, <1>13
      <3>3. Len(t1) + Len(t2) = N + 1 /\ \A k \in 1 .. N : Len(t1) + k = k + 1
        BY <3>2, <1>1
      <3> HIDE DEF c
      <3> QED BY <3>1, <3>2, <3>3 DEF SS
    <2> HIDE DEF c
    <2>2. ASSUME NEW k \in 1 .. N + 1 PROVE c[k] = D(k)
      <3>1. CASE k = 1
        BY <3>1, <2>1, <1>12
      <3>2. CASE k # 1
        <4>1. k - 1 \in 1 .. N /\ (k - 1) + 3 = k + 2 /\ (k - 1) + 1 = k
          BY <3>2, <1>1
        <4>2. c[(k - 1) + 1] = t2[k - 1] /\ t2[k - 1] = <<M((k - 1) + 3)>>
          BY <4>1, <2>1, <1>13
        <4> QED BY <4>1, <4>2, <3>2
      <3> QED BY <3>1, <3>2
    <2>3. c = [k \in 1 .. N + 1 |-> c[k]]
      BY <2>1
    <2>4. [k \in 1 .. N + 1 |-> c[k]] = [k \in 1 .. N + 1 |-> D(k)]
      BY <2>2, Zenon
    <2> QED BY <2>3, <2>4 DEF c
  <1> QED BY <1>11, <1>14 DEF Datagrams, FirstDatagram, M, N

\* Of messages with a marker in front and one after p others, PassedOn drops
\* these two.
LEMMA PassedOnSkips ==
    ASSUME NEW M, NEW msgs \in Seq(M), NEW p \in Nat, Len(msgs) >= p + 2,
           \A k \in 1 .. Len(msgs) : NoMarker(msgs[k]) <=> k # 1 /\ k # p + 2
    PROVE  PassedOn(msgs) = [k \in 1 .. Len(msgs) - 2 |->
                                IF k <= p THEN msgs[k + 1] ELSE msgs[k + 2]]
  <1> DEFINE L == Len(msgs)
             I == {k \in 1 .. L : NoMarker(msgs[k])}
             A == 2 .. p + 1
             B == p + 3 .. L
             At(k) == IF k <= p THEN k + 1 ELSE k + 2
  <1>0. L \in Nat /\ L >= p + 2
    OBVIOUS
  <1>1. I = A \cup B
    BY <1>0
  <1> HIDE DEF L, I
  <1>3. ASSUME NEW t \in Int, t >= p + 2
        PROVE  /\ IsFiniteSet(A \cup (p + 3 .. t))
               /\ Cardinality(A \cup (p + 3 .. t)) = t - 2
    <2>1. IsFiniteSet(A) /\ Cardinality(A) = p
      BY FS_Interval
    <2>2. IsFiniteSet(p + 3 .. t) /\ Cardinality(p + 3 .. t) = t - p - 2
      <3>1. p + 3 \in Int
        OBVIOUS
      <3>2. /\ IsFiniteSet(p + 3 .. t)
            /\ Cardinality(p + 3 .. t) = IF p + 3 > t THEN 0 ELSE t - (p + 3) + 1
        BY <3>1, FS_Interval
      <3> QED BY <3>2, <1>3
    <2>3. A \cap (p + 3 .. t) = {}
      OBVIOUS
    <2>4. Cardinality(A \cap (p + 3 .. t)) = 0
      BY <2>3, FS_EmptySet
    <2> HIDE DEF A
    <2>5. IsFiniteSet(A \cup (p + 3 .. t))
      BY <2>1, <2>2, FS_Union
    <2>6. Cardinality(A \cup (p + 3 .. t)) = Cardinality(A) + Cardinality(p + 3 .. t)
                                            - Cardinality(A \cap (p + 3 .. t))
      BY <2>1, <2>2, FS_Union
    <2>7. p + (t - p - 2) - 0 = t - 2
      BY <1>3
    <2> QED BY <2>1, <2>2, <2>4, <2>5, <2>6, <2>7
  <1>4. IsFiniteSet(I) /\ Cardinality(I) = L - 2 /\ I \subseteq Nat
    BY <1>0, <1>1, <1>3
  <1>5. ASSUME NEW k \in 1 .. L - 2
        PROVE  At(k) \in I /\ Rank(I, At(k)) + 1 = k
    <2>1. CASE k <= p
      <3>1. At(k) = k + 1 /\ k + 1 \in A /\ k + 1 \in I
        BY <2>1, <1>1
      <3>2. {y \in I : y < k + 1} = 2 .. k
        BY <2>1, <1>0, <1>1
      <3>3. Cardinality(2 .. k) = k - 1
        BY FS_Interval
      <3>4. Rank(I, k + 1) = k - 1
        BY <3>2, <3>3 DEF Rank
      <3> QED BY <3>1, <3>4
    <2>2. CASE k > p
      <3>1. At(k) = k + 2 /\ k + 2 \in B /\ k + 2 \in I
        BY <2>2, <1>0, <1>1
      <3>2. {y \in I : y < k + 2} = A \cup (p + 3 .. k + 1)
        BY <2>2, <1>0, <1>1
      <3>3. Cardinality(A \cup (p + 3 .. k + 1)) = (k + 1) - 2
        <4>1. k + 1 \in Int /\ k + 1 >= p + 2
          BY <2>2
        <4> QED BY <4>1, <1>3
      <3>4. Rank(I, k + 2) = (k + 1) - 2
        BY <3>2, <3>3 DEF Rank
      <3> QED BY <3>1, <3>4
    <2> QED BY <2>1, <2>2, <1>0
  <1> DEFINE Asc == Ascending(I)
  <1>6. /\ Asc \in [1 .. L - 2 -> I]
        /\ \A x \in I : Asc[Rank(I, x) + 1] = x
    BY <1>4, AscendingLists
  <1> HIDE DEF Asc, At
  <1>7. \A k \in 1 .. L - 2 : Asc[k] = At(k)
    BY <1>5, <1>6
  <1>8. Len(Asc) = L - 2
    <2>1. L - 2 \in Nat /\ Asc \in Seq(I)
      BY <1>0, <1>6
    <2> QED BY <2>1, <1>6
  <1>9. PassedOn(msgs) = [k \in 1 .. L - 2 |-> msgs[Asc[k]]]
    BY <1>8 DEF PassedOn, Asc, I, L
  <1>10. \A k \in 1 .. L - 2 : msgs[Asc[k]] = IF k <= p THEN msgs[k + 1] ELSE msgs[k + 2]
    BY <1>7 DEF At
  <1>11. [k \in 1 .. L - 2 |-> msgs[Asc[k]]]
            = [k \in 1 .. L - 2 |-> IF k <= p THEN msgs[k + 1] ELSE msgs[k + 2]]
    BY <1>10
  <1> QED BY <1>9, <1>11 DEF L

-----------------------------------------------------------------------------
(* CheckSnapshotSync.                                                      *)

\* A queue that holds a snapshot from its start on.
LEMMA PrefixQueue ==
    ASSUME NEW id \in Nat, NEW b, IsBook(b, id), NEW n \in Nat, NEW a \in 1 .. Size(b)
    PROVE  LET snap == Prefix(b, n, a)
           IN  /\ snap # <<>> /\ Cardinality(DOMAIN snap) = a
               /\ First(snap) = 0 /\ Last(snap) = a - 1
               /\ ~Useless(snap)
               /\ snap[Last(snap)].type = "SNAPSHOT_END" <=> a = Size(b)
               /\ a = Size(b) => SyncPoint(snap) = n + 1
  <1> DEFINE snap == Prefix(b, n, a)
  <1>1. a \in Nat \ {0} /\ Size(b) \in Nat
    BY SnapshotUpdates
  <1>2. /\ DOMAIN snap = 0 .. a - 1
        /\ \A k \in 0 .. a - 1 : snap[k] = SnapshotUpdate(b, n, k + 1)
    BY DEF Prefix
  <1> HIDE DEF snap
  <1>3. snap # <<>>
    <2>1. 0 \in DOMAIN snap
      BY <1>1, <1>2
    <2> QED BY <2>1
  <1>4. Cardinality(DOMAIN snap) = a
    BY <1>1, <1>2, FS_Interval
  <1>5. First(snap) = 0
    <2>1. 0 \in DOMAIN snap /\ \A m \in DOMAIN snap : 0 <= m
      BY <1>1, <1>2
    <2>2. /\ First(snap) \in DOMAIN snap
          /\ \A m \in DOMAIN snap : First(snap) <= m
      BY <2>1, Zenon DEF First
    <2> QED BY <2>1, <2>2, <1>1, <1>2
  <1>6. Last(snap) = a - 1
    <2>1. a - 1 \in DOMAIN snap /\ \A m \in DOMAIN snap : a - 1 >= m
      BY <1>1, <1>2
    <2>2. /\ Last(snap) \in DOMAIN snap
          /\ \A m \in DOMAIN snap : Last(snap) >= m
      BY <2>1, Zenon DEF Last
    <2>3. Last(snap) \in 0 .. a - 1 /\ Last(snap) >= a - 1
      BY <2>1, <2>2, <1>2
    <2> QED BY <2>3, <1>1
  <1>7. ~Useless(snap)
    <2>1. snap[0] = SnapshotUpdate(b, n, 1) /\ 1 \in 1 .. Size(b)
      BY <1>1, <1>2
    <2>2. snap[0].type = "SNAPSHOT_START"
      BY <2>1, SnapshotTypes
    <2> QED BY <2>2, <1>2, <1>4, <1>5 DEF Useless
  <1>8. /\ snap[Last(snap)].type = "SNAPSHOT_END" <=> a = Size(b)
        /\ a = Size(b) => snap[Last(snap)].order_id = n
    <2>1. snap[a - 1] = SnapshotUpdate(b, n, a)
      BY <1>1, <1>2
    <2> QED BY <2>1, <1>6, SnapshotTypes
  <1>9. a = Size(b) => SyncPoint(snap) = n + 1
    BY <1>8 DEF SyncPoint
  <1> QED BY <1>3, <1>4, <1>5, <1>6, <1>7, <1>8, <1>9 DEF snap

\* The next message of the snapshot is queued.
LEMMA PrefixGrows ==
    ASSUME NEW id \in Nat, NEW b, IsBook(b, id), NEW n \in Nat, NEW a \in 1 .. Size(b)
    PROVE  /\ With(<<>>, 0, SnapshotUpdate(b, n, 1)) = Prefix(b, n, 1)
           /\ a \notin DOMAIN Prefix(b, n, a)
           /\ With(Prefix(b, n, a), a, SnapshotUpdate(b, n, a + 1)) = Prefix(b, n, a + 1)
  <1>1. a \in Nat \ {0}
    BY SnapshotUpdates
  <1>2. With(<<>>, 0, SnapshotUpdate(b, n, 1)) = Prefix(b, n, 1)
    <2>1. DOMAIN <<>> \cup {0} = 0 .. 1 - 1 /\ \A k \in 0 .. 1 - 1 : k = 0
      OBVIOUS
    <2> QED BY <2>1 DEF With, Prefix
  <1>3. DOMAIN Prefix(b, n, a) = 0 .. a - 1
    BY DEF Prefix
  <1>4. a \notin 0 .. a - 1 /\ (0 .. a - 1) \cup {a} = 0 .. (a + 1) - 1
    BY <1>1
  <1>5. With(Prefix(b, n, a), a, SnapshotUpdate(b, n, a + 1)) = Prefix(b, n, a + 1)
    <2>1. \A k \in 0 .. (a + 1) - 1 :
              (IF k = a THEN SnapshotUpdate(b, n, a + 1) ELSE Prefix(b, n, a)[k])
                  = SnapshotUpdate(b, n, k + 1)
      BY <1>1 DEF Prefix
    <2> QED BY <2>1, <1>3, <1>4 DEF With, Prefix
  <1> QED BY <1>2, <1>3, <1>4, <1>5

\* A message from the middle of a snapshot does not start a queue.
LEMMA StrayUseless ==
    ASSUME NEW s, NEW u, u.type # "SNAPSHOT_START", s \in Nat
    PROVE  With(<<>>, s, u) # <<>> /\ Useless(With(<<>>, s, u))
  <1> DEFINE snap == With(<<>>, s, u)
  <1>1. DOMAIN snap = {s} /\ snap[s] = u
    BY DEF With
  <1> HIDE DEF snap
  <1>2. snap # <<>>
    BY <1>1
  <1>3. First(snap) = s
    <2>1. s \in DOMAIN snap /\ \A m \in DOMAIN snap : s <= m
      BY <1>1
    <2>2. First(snap) \in DOMAIN snap
      BY <2>1, Zenon DEF First
    <2> QED BY <2>2, <1>1
  <1> QED BY <1>1, <1>2, <1>3 DEF Useless, snap

\* The final_events of CheckSnapshotSync.
FinalEvents(snap, inc, from, next) ==
    PassedOn([k \in 1 .. Cardinality(DOMAIN snap) |-> snap[k - 1]]
             \o [k \in 1 .. next - from |-> inc[from + k - 1]])

\* The events of a recovery: the snapshot without its markers, and the queued
\* updates that follow it.
LEMMA EventsAre ==
    ASSUME NEW id \in Nat, NEW b, IsBook(b, id), NEW n \in Nat, NEW next \in Nat,
           next > n, NEW inc,
           \A k \in n + 1 .. next - 1 :
               inc[k] \in MEMarketUpdate /\ NoMarker(inc[k])
    PROVE  FinalEvents(Prefix(b, n, Size(b)), inc, n + 1, next)
             = EventsAfter(b, n, inc, next, 0)
  <1> DEFINE N == Orders(b)
             snap == Prefix(b, n, Size(b))
             S == Size(b)
             J == next - (n + 1)
             s1 == [k \in 1 .. Cardinality(DOMAIN snap) |-> snap[k - 1]]
             s2 == [k \in 1 .. J |-> inc[(n + 1) + k - 1]]
             msgs == s1 \o s2
  <1>1. N \in Nat /\ S = N + 3 /\ S \in Nat /\ J \in Nat /\ S \in 1 .. S
    <2>1. N \in Nat
      BY BookType
    <2> QED BY <2>1 DEF Size
  <1>2. Cardinality(DOMAIN snap) = S
    BY <1>1, PrefixQueue
  <1>3. \A i \in 1 .. S : SnapshotUpdate(b, n, i) \in MEMarketUpdate
    BY SnapshotTypes
  <1>4. \A i \in 1 .. S : NoMarker(SnapshotUpdate(b, n, i)) <=> i # 1 /\ i # S
    BY SnapshotTypes DEF NoMarker
  <1>5. \A k \in 1 .. S : snap[k - 1] = SnapshotUpdate(b, n, k)
    <2> TAKE k \in 1 .. S
    <2>1. k - 1 \in 0 .. S - 1 /\ (k - 1) + 1 = k
      BY <1>1
    <2> QED BY <2>1 DEF Prefix
  <1> HIDE DEF snap, N, S, J
  <1>6. /\ s1 \in Seq(MEMarketUpdate) /\ Len(s1) = S
        /\ \A k \in 1 .. S : s1[k] = SnapshotUpdate(b, n, k)
    BY <1>1, <1>2, <1>3, <1>5
  <1>7. /\ s2 \in Seq(MEMarketUpdate) /\ Len(s2) = J
        /\ \A k \in 1 .. J : s2[k] = inc[n + k] /\ NoMarker(s2[k])
    <2>1. \A k \in 1 .. J : (n + 1) + k - 1 = n + k /\ n + k \in n + 1 .. next - 1
      BY <1>1 DEF J
    <2>2. \A k \in 1 .. J : inc[n + k] \in MEMarketUpdate /\ NoMarker(inc[n + k])
      BY <2>1
    <2> QED BY <2>1, <2>2, <1>1
  <1> HIDE DEF s1, s2
  <1>8. /\ msgs \in Seq(MEMarketUpdate) /\ Len(msgs) = S + J
        /\ \A k \in 1 .. S : msgs[k] = SnapshotUpdate(b, n, k)
        /\ \A k \in 1 .. J : msgs[S + k] = inc[n + k] /\ NoMarker(inc[n + k])
    <2>1. /\ msgs \in Seq(MEMarketUpdate) /\ Len(msgs) = Len(s1) + Len(s2)
          /\ \A k \in 1 .. Len(s1) : msgs[k] = s1[k]
          /\ \A k \in 1 .. Len(s2) : msgs[Len(s1) + k] = s2[k]
      <3>1. s1 \in Seq(MEMarketUpdate) /\ s2 \in Seq(MEMarketUpdate)
        BY <1>6, <1>7
      <3> QED BY <3>1, Concatenated
    <2> HIDE DEF msgs
    <2> QED BY <2>1, <1>6, <1>7
  <1> HIDE DEF msgs
  <1>9. \A k \in 1 .. Len(msgs) : NoMarker(msgs[k]) <=> k # 1 /\ k # (N + 1) + 2
    <2> TAKE k \in 1 .. Len(msgs)
    <2>1. CASE k \in 1 .. S
      BY <2>1, <1>1, <1>4, <1>8
    <2>2. CASE k \in S + 1 .. S + J
      <3>1. k - S \in 1 .. J /\ S + (k - S) = k
        BY <2>2, <1>1
      <3>2. NoMarker(msgs[k])
        BY <3>1, <1>8
      <3> QED BY <3>2, <2>2, <1>1
    <2> QED BY <2>1, <2>2, <1>1, <1>8
  <1>10. PassedOn(msgs) = [k \in 1 .. Len(msgs) - 2 |->
                              IF k <= N + 1 THEN msgs[k + 1] ELSE msgs[k + 2]]
    <2>1. N + 1 \in Nat /\ Len(msgs) >= (N + 1) + 2
      BY <1>1, <1>8
    <2> QED BY <2>1, <1>8, <1>9, PassedOnSkips
  <1>11. Len(msgs) - 2 = N + next - n
    BY <1>1, <1>8 DEF J
  <1>12. ASSUME NEW k \in 1 .. N + next - n
         PROVE  (IF k <= N + 1 THEN msgs[k + 1] ELSE msgs[k + 2]) = Event(b, n, inc, k)
    <2>1. CASE k <= N + 1
      <3>1. k + 1 \in 1 .. S
        BY <2>1, <1>1
      <3> QED BY <3>1, <2>1, <1>8 DEF Event, N
    <2>2. CASE k > N + 1
      <3> DEFINE j == k - (N + 1)
      <3>1. j \in 1 .. J /\ S + j = k + 2 /\ n + j = n + k - N - 1 /\ ~(k <= N + 1)
        BY <2>2, <1>1 DEF J
      <3> HIDE DEF j
      <3>2. msgs[S + j] = inc[n + j]
        BY <3>1, <1>8
      <3> QED BY <3>1, <3>2 DEF Event, N
    <2> QED BY <2>1, <2>2, <1>1
  <1>13. PassedOn(msgs) = [k \in 1 .. N + next - n |-> Event(b, n, inc, k)]
    BY <1>10, <1>11, <1>12
  <1>14. EventsAfter(b, n, inc, next, 0) = [k \in 1 .. N + next - n |-> Event(b, n, inc, k)]
    <2>1. Count(b, n, next) - 0 = N + next - n
      BY <1>1 DEF Count, N
    <2> QED BY <2>1 DEF EventsAfter
  <1> QED BY <1>13, <1>14 DEF msgs, s1, s2, J, snap, FinalEvents

\* Without a snapshot message, or with a snapshot that has not ended, nothing
\* but the queues changes.
LEMMA SyncWaits ==
    ASSUME NEW id \in Nat, NEW b, IsBook(b, id), NEW n \in Nat, NEW a \in 1 .. Size(b),
           a # Size(b), NEW snap, snap = <<>> \/ snap = Prefix(b, n, a), NEW inc,
           CheckSnapshotSync(snap, inc)
    PROVE  /\ snapshot_queued_msgs_' = snap /\ incremental_queued_msgs_' = inc
           /\ UNCHANGED <<next_exp_inc_seq_num_, final_events>>
  <1>1. CASE snap = <<>>
    BY <1>1 DEF CheckSnapshotSync
  <1>2. CASE snap = Prefix(b, n, a)
    <2>1. snap # <<>> /\ ~Useless(snap) /\ snap[Last(snap)].type # "SNAPSHOT_END"
      BY <1>2, PrefixQueue
    <2> QED BY <2>1 DEF CheckSnapshotSync
  <1> QED BY <1>1, <1>2

\* A queue that starts in the middle is dropped.
LEMMA SyncDrops ==
    ASSUME NEW snap, snap # <<>>, Useless(snap), NEW inc, CheckSnapshotSync(snap, inc)
    PROVE  /\ snapshot_queued_msgs_' = <<>> /\ incremental_queued_msgs_' = inc
           /\ UNCHANGED <<next_exp_inc_seq_num_, final_events>>
  BY DEF CheckSnapshotSync

\* What becomes of the a-th message of the snapshot after n updates: it is
\* dropped, queued, in vain because of a gap, or it completes the recovery.
Outcome(b, n, a) ==
    /\ incremental_queued_msgs_' = incremental_queued_msgs_
    /\ \/ /\ \/ snapshot_queued_msgs_' = <<>>
             \/ a < Size(b) /\ snapshot_queued_msgs_' = Prefix(b, n, a)
          /\ final_events' = <<>>
          /\ \/ next_exp_inc_seq_num_' = next_exp_inc_seq_num_
             \/ next_exp_inc_seq_num_' = NextMissing(incremental_queued_msgs_, n + 1)
       \/ /\ a = Size(b) /\ snapshot_queued_msgs_' = Prefix(b, n, a)
          /\ ~HasGap(incremental_queued_msgs_, n + 1)
          /\ next_exp_inc_seq_num_' = NextMissing(incremental_queued_msgs_, n + 1)
          /\ final_events' = EventsAfter(b, n, incremental_queued_msgs_,
                                         next_exp_inc_seq_num_', 0)

\* The snapshot has ended.
LEMMA SyncEnds ==
    ASSUME NEW id \in Nat, NEW b, IsBook(b, id), NEW n \in Nat, NEW top \in Nat,
           DOMAIN incremental_queued_msgs_ \subseteq 1 .. top,
           \A k \in DOMAIN incremental_queued_msgs_ :
               /\ incremental_queued_msgs_[k] \in MEMarketUpdate
               /\ NoMarker(incremental_queued_msgs_[k]),
           final_events = <<>>,
           CheckSnapshotSync(Prefix(b, n, Size(b)), incremental_queued_msgs_)
    PROVE  Outcome(b, n, Size(b))
  <1> DEFINE inc == incremental_queued_msgs_
             snap == Prefix(b, n, Size(b))
             next == NextMissing(inc, n + 1)
  <1>1. Size(b) \in 1 .. Size(b)
    BY SnapshotUpdates
  <1>2. /\ snap # <<>> /\ ~Useless(snap)
        /\ snap[Last(snap)].type = "SNAPSHOT_END" /\ SyncPoint(snap) = n + 1
    BY <1>1, PrefixQueue
  <1>3. /\ next \in Nat /\ next >= n + 1
        /\ \A k \in n + 1 .. next - 1 : k \in DOMAIN inc
    BY NextMissingIs
  <1>4. FinalEvents(snap, inc, n + 1, next)
           = EventsAfter(b, n, inc, next, 0)
    <2>1. next > n
      BY <1>3
    <2>2. \A k \in n + 1 .. next - 1 : inc[k] \in MEMarketUpdate /\ NoMarker(inc[k])
      BY <1>3
    <2>3. next \in Nat
      BY <1>3
    <2> HIDE DEF next
    <2> QED BY <2>1, <2>2, <2>3, EventsAre
  <1> HIDE DEF snap, next
  <1>5. /\ next_exp_inc_seq_num_' = next /\ incremental_queued_msgs_' = inc
        /\ \/ /\ snapshot_queued_msgs_' = <<>> /\ final_events' = <<>>
           \/ /\ ~HasGap(inc, n + 1) /\ snapshot_queued_msgs_' = snap
              /\ final_events' = FinalEvents(snap, inc, n + 1, next)
    <2>1. CheckSnapshotSync(snap, inc)
      BY DEF snap
    <2> QED BY <2>1, <1>2 DEF CheckSnapshotSync, next, FinalEvents
  <1> QED BY <1>4, <1>5 DEF Outcome, snap, next

\* The next message of the snapshot that is being read.
LEMMA QueueNext ==
    ASSUME NEW id \in Nat, NEW b, IsBook(b, id), NEW n \in Nat, NEW a \in 1 .. Size(b),
           a # Size(b), NEW top \in Nat,
           DOMAIN incremental_queued_msgs_ \subseteq 1 .. top,
           \A k \in DOMAIN incremental_queued_msgs_ :
               /\ incremental_queued_msgs_[k] \in MEMarketUpdate
               /\ NoMarker(incremental_queued_msgs_[k]),
           final_events = <<>>, in_recovery_,
           snapshot_queued_msgs_ = <<>> \/ snapshot_queued_msgs_ = Prefix(b, n, a),
           QueueMessage(TRUE, Msg(b, n, a + 1))
    PROVE  Outcome(b, n, a + 1)
  <1> DEFINE q == snapshot_queued_msgs_
             u == SnapshotUpdate(b, n, a + 1)
             inc == incremental_queued_msgs_
  <1>1. Size(b) \in Nat /\ a \in Nat \ {0} /\ a + 1 \in 1 .. Size(b) /\ a + 1 # 1
    BY SnapshotUpdates
  <1>2. /\ Msg(b, n, a + 1).seq_num_ = a /\ Msg(b, n, a + 1).update = u
        /\ u.type # "SNAPSHOT_START"
    <2>1. (a + 1) - 1 = a
      BY <1>1
    <2> QED BY <2>1, <1>1, SnapshotTypes
  <1>3. CheckSnapshotSync(With(IF a \in DOMAIN q THEN <<>> ELSE q, a, u), inc)
    BY <1>2 DEF QueueMessage
  <1> HIDE DEF u
  <1>4. CASE q = <<>>
    <2>1. CheckSnapshotSync(With(<<>>, a, u), inc)
      BY <1>3, <1>4
    <2>2. With(<<>>, a, u) # <<>> /\ Useless(With(<<>>, a, u))
      BY <1>1, <1>2, StrayUseless
    <2>3. /\ snapshot_queued_msgs_' = <<>> /\ incremental_queued_msgs_' = inc
          /\ UNCHANGED <<next_exp_inc_seq_num_, final_events>>
      BY <2>1, <2>2, SyncDrops
    <2> QED BY <2>3 DEF Outcome
  <1>5. CASE q = Prefix(b, n, a)
    <2>1. CheckSnapshotSync(Prefix(b, n, a + 1), inc)
      <3>1. a \notin DOMAIN q /\ With(q, a, u) = Prefix(b, n, a + 1)
        BY <1>5, PrefixGrows DEF u
      <3> QED BY <3>1, <1>3
    <2>2. CASE a + 1 = Size(b)
      BY <2>1, <2>2, SyncEnds
    <2>3. CASE a + 1 # Size(b)
      <3>1. /\ snapshot_queued_msgs_' = Prefix(b, n, a + 1)
            /\ incremental_queued_msgs_' = inc
            /\ UNCHANGED <<next_exp_inc_seq_num_, final_events>>
        BY <2>1, <2>3, <1>1, SyncWaits
      <3>2. a + 1 < Size(b)
        BY <2>3, <1>1
      <3> QED BY <3>1, <3>2 DEF Outcome
    <2> QED BY <2>2, <2>3
  <1> QED BY <1>4, <1>5

\* The first message of a snapshot.
LEMMA QueueFirst ==
    ASSUME NEW id \in Nat, NEW b, IsBook(b, id), NEW n \in Nat,
           final_events = <<>>, in_recovery_, snapshot_queued_msgs_ = <<>>,
           QueueMessage(TRUE, Msg(b, n, 1))
    PROVE  Outcome(b, n, 1)
  <1> DEFINE u == SnapshotUpdate(b, n, 1)
             inc == incremental_queued_msgs_
  <1>1. Size(b) \in Nat /\ Size(b) >= 3 /\ 1 \in 1 .. Size(b) /\ 1 - 1 = 0
    BY SnapshotUpdates
  <1>2. Msg(b, n, 1).seq_num_ = 0 /\ Msg(b, n, 1).update = u
    BY <1>1, SnapshotTypes
  <1>3. CheckSnapshotSync(With(<<>>, 0, u), inc)
    BY <1>2 DEF QueueMessage
  <1>4. CheckSnapshotSync(Prefix(b, n, 1), inc)
    BY <1>1, <1>3, PrefixGrows
  <1>5. /\ snapshot_queued_msgs_' = Prefix(b, n, 1)
        /\ incremental_queued_msgs_' = inc
        /\ UNCHANGED <<next_exp_inc_seq_num_, final_events>>
    BY <1>1, <1>4, SyncWaits
  <1> QED BY <1>1, <1>5 DEF Outcome

-----------------------------------------------------------------------------
(* The snapshot stream.                                                    *)

\* The books that snapshots are made of.
LEMMA SnapshotBooks ==
    ASSUME ExchangeInv
    PROVE  /\ last_inc_seq_num_ \in Nat /\ next_id \in Nat
           /\ next_inc_seq_num_ \in Nat /\ last_inc_seq_num_ < next_inc_seq_num_
           /\ \A n \in 0 .. last_inc_seq_num_ :
                  /\ IsBook(books[n + 1], next_id)
                  /\ Orders(books[n + 1]) \in Nat
                  /\ Size(books[n + 1]) \in Nat /\ Size(books[n + 1]) >= 3
                  /\ Size(books[n + 1]) = Orders(books[n + 1]) + 3
  <1>1. /\ Len(books) \in Nat /\ next_inc_seq_num_ \in 1 .. Len(books)
        /\ last_inc_seq_num_ \in 0 .. next_inc_seq_num_ - 1
        /\ next_id \in Nat
        /\ \A n \in 1 .. Len(books) : IsBook(books[n], next_id)
    BY ExchangeCounts
  <1>2. ASSUME NEW n \in 0 .. last_inc_seq_num_
        PROVE  /\ IsBook(books[n + 1], next_id)
               /\ Orders(books[n + 1]) \in Nat
               /\ Size(books[n + 1]) \in Nat /\ Size(books[n + 1]) >= 3
               /\ Size(books[n + 1]) = Orders(books[n + 1]) + 3
    <2>1. n + 1 \in 1 .. Len(books)
      BY <1>1
    <2>2. IsBook(books[n + 1], next_id)
      BY <1>1, <2>1
    <2>3. Orders(books[n + 1]) \in Nat
      BY <1>1, <2>2, BookType
    <2> QED BY <2>2, <2>3 DEF Size
  <1> QED BY <1>1, <1>2

\* Steps that leave the stream alone.
LEMMA StreamKeeps ==
    ASSUME NEW n \in Nat, NEW a \in Nat, StreamAt(n, a),
           last_inc_seq_num_ \in Nat, last_inc_seq_num_' \in Nat,
           last_inc_seq_num_' >= last_inc_seq_num_,
           \A m \in 0 .. last_inc_seq_num_ : books'[m + 1] = books[m + 1],
           UNCHANGED <<inbound_data_, snapshot_net, snapshot_queued_msgs_>>,
           final_events' = <<>> <=> final_events = <<>>
    PROVE  StreamAt(n, a)'
  <1>1. n \in 0 .. last_inc_seq_num_
    BY DEF StreamAt
  <1>2. books'[n + 1] = books[n + 1] /\ n \in 0 .. last_inc_seq_num_'
    BY <1>1
  <1>3. ASSUME NEW m \in n .. last_inc_seq_num_
        PROVE  m \in n .. last_inc_seq_num_' /\ books'[m + 1] = books[m + 1]
    <2>1. m \in 0 .. last_inc_seq_num_
      OBVIOUS
    <2> QED BY <2>1
  <1>4. ASSUME \E m \in n .. last_inc_seq_num_ :
                   snapshot_net = Datagrams(books[m + 1], m)
        PROVE  \E m \in n .. last_inc_seq_num_' :
                   snapshot_net' = Datagrams(books'[m + 1], m)
    <2>1. PICK m \in n .. last_inc_seq_num_ : snapshot_net = Datagrams(books[m + 1], m)
      BY <1>4
    <2>2. m \in n .. last_inc_seq_num_' /\ snapshot_net' = Datagrams(books'[m + 1], m)
      BY <2>1, <1>3
    <2> QED BY <2>2
  <1> QED BY <1>2, <1>4 DEF StreamAt

\* The tail of a queue, place by place.
LEMMA TailIs ==
    ASSUME NEW S, NEW s \in Seq(S), s # <<>>, NEW L, L = Len(s) - 1
    PROVE  Tail(s) = [k \in 1 .. L |-> s[k + 1]]
  <1> DEFINE t == Tail(s)
  <1>1. t \in Seq(S) /\ Len(t) = L /\ \A k \in 1 .. L : t[k] = s[k + 1]
    OBVIOUS
  <1> HIDE DEF t
  <1>2. t = [k \in 1 .. L |-> t[k]]
    BY <1>1
  <1> QED BY <1>1, <1>2 DEF t

\* What is left of a snapshot, and what reading on leaves of it.
LEMMA RestTail ==
    ASSUME NEW id \in Nat, NEW b, IsBook(b, id), NEW n \in Nat, NEW a \in 1 .. Size(b)
    PROVE  /\ RestOfNet(b, n, a) = <<>> <=> a = Size(b)
           /\ a # Size(b) =>
                /\ Head(RestOfNet(b, n, a)) = <<Msg(b, n, a + 1)>>
                /\ Tail(RestOfNet(b, n, a)) = RestOfNet(b, n, a + 1)
           /\ RestOfFirst(b, n, a) = <<>> <=> a >= 3
           /\ a < 3 => /\ Head(RestOfFirst(b, n, a)) = Msg(b, n, a + 1)
                       /\ Tail(RestOfFirst(b, n, a)) = RestOfFirst(b, n, a + 1)
  <1>1. Size(b) \in Nat /\ Size(b) >= 3 /\ a \in Nat \ {0}
    BY SnapshotUpdates
  <1>2. \A i \in 1 .. Size(b) : Msg(b, n, i) \in MDPMarketUpdate
    BY SnapshotTypes
  <1> DEFINE r == RestOfNet(b, n, a)
             f == RestOfFirst(b, n, a)
             L == Size(b) - a
             D == Seq(MDPMarketUpdate)
  <1>3. L \in Nat /\ (L = 0 <=> a = Size(b))
    BY <1>1
  <1>4. r = [k \in 1 .. L |-> <<Msg(b, n, a + k)>>]
    BY DEF RestOfNet
  <1>5. \A k \in 1 .. L : <<Msg(b, n, a + k)>> \in D
    <2> TAKE k \in 1 .. L
    <2>1. a + k \in 1 .. Size(b)
      BY <1>1
    <2> QED BY <2>1, <1>2
  <1> HIDE DEF L, r, D
  <1>6. r \in Seq(D) /\ Len(r) = L
    BY <1>3, <1>4, <1>5
  <1>7. r = <<>> <=> a = Size(b)
    BY <1>3, <1>6
  <1>8. ASSUME a # Size(b)
        PROVE  Head(r) = <<Msg(b, n, a + 1)>> /\ Tail(r) = RestOfNet(b, n, a + 1)
    <2>1. L \in Nat \ {0} /\ r # <<>>
      BY <1>3, <1>7, <1>8
    <2>2. Head(r) = r[1] /\ r[1] = <<Msg(b, n, a + 1)>>
      BY <2>1, <1>4, <1>6
    <2>3. Tail(r) = [k \in 1 .. L - 1 |-> r[k + 1]]
      BY <2>1, <1>6, TailIs
    <2>4. \A k \in 1 .. L - 1 : r[k + 1] = <<Msg(b, n, (a + 1) + k)>>
      <3> TAKE k \in 1 .. L - 1
      <3>1. k + 1 \in 1 .. L /\ a + (k + 1) = (a + 1) + k
        BY <2>1, <1>1
      <3> QED BY <3>1, <1>4
    <2>5. Size(b) - (a + 1) = L - 1
      BY <1>1 DEF L
    <2>6. Tail(r) = RestOfNet(b, n, a + 1)
      BY <2>3, <2>4, <2>5 DEF RestOfNet
    <2> QED BY <2>2, <2>6
  <1>9. f \in Seq(MDPMarketUpdate) /\ Len(f) = IF a < 3 THEN 3 - a ELSE 0
    <2>1. \A k \in 1 .. 3 - a : Msg(b, n, a + k) \in MDPMarketUpdate
      <3> TAKE k \in 1 .. 3 - a
      <3>1. a + k \in 1 .. Size(b)
        BY <1>1
      <3> QED BY <3>1, <1>2
    <2>2. CASE a < 3
      BY <2>1, <2>2, <1>1 DEF RestOfFirst
    <2>3. CASE ~(a < 3)
      <3>1. 1 .. 3 - a = {}
        BY <2>3, <1>1
      <3>2. f = <<>>
        BY <3>1 DEF RestOfFirst
      <3> HIDE DEF f
      <3> QED BY <3>2, <2>3
    <2> QED BY <2>2, <2>3
  <1>10. f = <<>> <=> a >= 3
    <2> HIDE DEF f
    <2> QED BY <1>1, <1>9
  <1>11. ASSUME a < 3
         PROVE  Head(f) = Msg(b, n, a + 1) /\ Tail(f) = RestOfFirst(b, n, a + 1)
    <2>1. f = [k \in 1 .. 3 - a |-> Msg(b, n, a + k)]
      BY DEF RestOfFirst
    <2> HIDE DEF f
    <2>2. f # <<>> /\ Len(f) = 3 - a /\ 3 - a \in Nat \ {0} /\ 1 \in 1 .. 3 - a
      BY <1>9, <1>10, <1>11, <1>1
    <2>3. Head(f) = f[1] /\ f[1] = Msg(b, n, a + 1)
      BY <2>1, <2>2, <1>9
    <2>4. Tail(f) = [k \in 1 .. (3 - a) - 1 |-> f[k + 1]]
      BY <2>2, <1>9, TailIs
    <2>5. \A k \in 1 .. (3 - a) - 1 : f[k + 1] = Msg(b, n, (a + 1) + k)
      <3> TAKE k \in 1 .. (3 - a) - 1
      <3>1. k + 1 \in 1 .. 3 - a /\ a + (k + 1) = (a + 1) + k
        BY <1>1
      <3> QED BY <3>1, <2>1
    <2>6. 3 - (a + 1) = (3 - a) - 1
      BY <1>1
    <2>7. Tail(f) = RestOfFirst(b, n, a + 1)
      BY <2>4, <2>5, <2>6 DEF RestOfFirst
    <2> QED BY <2>3, <2>7
  <1> QED BY <1>7, <1>8, <1>10, <1>11 DEF r

\* A whole snapshot in the network.
LEMMA DatagramsTail ==
    ASSUME NEW id \in Nat, NEW b, IsBook(b, id), NEW n \in Nat
    PROVE  /\ Datagrams(b, n) # <<>>
           /\ Head(Datagrams(b, n)) = FirstDatagram(b, n)
           /\ Tail(Datagrams(b, n)) = RestOfNet(b, n, 3)
           /\ Head(FirstDatagram(b, n)) = Msg(b, n, 1)
           /\ Tail(FirstDatagram(b, n)) = RestOfFirst(b, n, 1)
  <1>1. /\ Size(b) \in Nat /\ Size(b) >= 3 /\ Orders(b) \in Nat
        /\ Size(b) - 3 = Orders(b)
    <2>1. Orders(b) \in Nat
      BY BookType
    <2> QED BY <2>1 DEF Size
  <1>2. \A i \in 1 .. Size(b) : Msg(b, n, i) \in MDPMarketUpdate
    BY SnapshotTypes
  <1> DEFINE f == FirstDatagram(b, n)
             d == Datagrams(b, n)
             N == Orders(b)
             D == Seq(MDPMarketUpdate)
             E(k) == IF k = 1 THEN f ELSE <<Msg(b, n, k + 2)>>
  <1>3. f = [k \in 1 .. 3 |-> Msg(b, n, k)]
    BY DEF FirstDatagram
  <1>4. \A k \in 1 .. 3 : k \in 1 .. Size(b)
    BY <1>1
  <1> HIDE DEF f
  <1>5. f \in Seq(MDPMarketUpdate) /\ Len(f) = 3
    BY <1>2, <1>3, <1>4
  <1>6. Head(f) = Msg(b, n, 1)
    BY <1>3, <1>5
  <1>7. Tail(f) = RestOfFirst(b, n, 1)
    <2>1. Tail(f) = [k \in 1 .. 2 |-> f[k + 1]]
      <3>0. 1 \in DOMAIN f
        BY <1>3
      <3>1. f # <<>>
        BY <3>0
      <3>2. 2 = Len(f) - 1
        BY <1>5
      <3> QED BY <3>1, <3>2, <1>5, TailIs
    <2>2. \A k \in 1 .. 2 : f[k + 1] = Msg(b, n, 1 + k)
      BY <1>3
    <2>3. 3 - 1 = 2
      OBVIOUS
    <2> QED BY <2>1, <2>2, <2>3 DEF RestOfFirst
  <1>8. d = [k \in 1 .. N + 1 |-> E(k)]
    BY DEF Datagrams, f
  <1>9. \A k \in 1 .. N + 1 : E(k) \in D
    <2> TAKE k \in 1 .. N + 1
    <2>1. k # 1 => k + 2 \in 1 .. Size(b)
      BY <1>1
    <2> QED BY <2>1, <1>2, <1>5
  <1>10. E(1) = f /\ \A k \in 1 .. N : E(k + 1) = <<Msg(b, n, 3 + k)>>
    <2>1. \A k \in 1 .. N : k + 1 # 1 /\ (k + 1) + 2 = 3 + k
      BY <1>1
    <2> QED BY <2>1
  <1> HIDE DEF D, E, d, N
  <1>11. d \in Seq(D) /\ Len(d) = N + 1 /\ N \in Nat
    BY <1>1, <1>8, <1>9 DEF N
  <1>12. d # <<>> /\ Head(d) = f
    BY <1>8, <1>10, <1>11
  <1>13. Tail(d) = [k \in 1 .. N |-> d[k + 1]]
    <2>1. N = Len(d) - 1
      BY <1>11
    <2> QED BY <2>1, <1>11, <1>12, TailIs
  <1>14. \A k \in 1 .. N : d[k + 1] = <<Msg(b, n, 3 + k)>>
    <2> TAKE k \in 1 .. N
    <2>1. k + 1 \in 1 .. N + 1
      BY <1>11
    <2> QED BY <2>1, <1>8, <1>10
  <1>15. Tail(d) = RestOfNet(b, n, 3)
    BY <1>1, <1>13, <1>14 DEF RestOfNet, N
  <1> QED BY <1>6, <1>7, <1>12, <1>15 DEF f, d

\* The queued incremental updates are no markers.
LEMMA QueuedTypes ==
    ASSUME IncInv
    PROVE  \A k \in DOMAIN incremental_queued_msgs_ :
               /\ incremental_queued_msgs_[k] \in MEMarketUpdate
               /\ NoMarker(incremental_queued_msgs_[k])
  BY DEF IncInv, IsUpdate, Tells, NoMarker

\* The number the consumer arrives at is that of an update that was sent, or
\* of the next one.
LEMMA NextIsSent ==
    ASSUME ExchangeInv, IncInv, NEW n \in 0 .. last_inc_seq_num_
    PROVE  LET next == NextMissing(incremental_queued_msgs_, n + 1)
           IN  /\ next \in n + 1 .. next_inc_seq_num_
               /\ next \notin DOMAIN incremental_queued_msgs_
               /\ \A k \in n + 1 .. next - 1 : k \in DOMAIN incremental_queued_msgs_
  <1> DEFINE next == NextMissing(incremental_queued_msgs_, n + 1)
             top == next_inc_seq_num_ - 1
  <1>1. /\ last_inc_seq_num_ \in Nat /\ next_inc_seq_num_ \in Nat
        /\ last_inc_seq_num_ < next_inc_seq_num_
    BY SnapshotBooks
  <1>2. n + 1 \in Nat /\ top \in Nat /\ DOMAIN incremental_queued_msgs_ \subseteq 1 .. top
    BY <1>1 DEF IncInv
  <1>3. /\ next \in Nat /\ next >= n + 1 /\ next \notin DOMAIN incremental_queued_msgs_
        /\ \A k \in n + 1 .. next - 1 : k \in DOMAIN incremental_queued_msgs_
    BY <1>2, NextMissingIs
  <1> HIDE DEF next
  <1>4. next <= next_inc_seq_num_
    <2>1. CASE next = n + 1
      BY <2>1, <1>1
    <2>2. CASE next # n + 1
      <3>1. next - 1 \in n + 1 .. next - 1
        BY <2>2, <1>3
      <3>2. next - 1 \in 1 .. top
        BY <3>1, <1>2, <1>3
      <3> QED BY <3>2, <1>1, <1>3
    <2> QED BY <2>1, <2>2
  <1>5. next \in n + 1 .. next_inc_seq_num_
    BY <1>1, <1>3, <1>4
  <1> QED BY <1>3, <1>5 DEF next

\* There is always something to push: the CLEAR.
LEMMA EventsNotEmpty ==
    ASSUME NEW b, Orders(b) \in Nat, NEW n \in Nat, NEW next \in Nat, NEW inc,
           NEW e \in 0 .. Count(b, n, next)
    PROVE  /\ EventsAfter(b, n, inc, next, e) = <<>> <=> e = Count(b, n, next)
           /\ Count(b, n, next) \in Int
  <1> DEFINE N == Count(b, n, next) - e
             s == EventsAfter(b, n, inc, next, e)
  <1>1. Count(b, n, next) \in Int
    BY DEF Count
  <1>2. N \in Nat /\ (N = 0 <=> e = Count(b, n, next))
    BY <1>1
  <1>3. DOMAIN s = 1 .. N
    BY DEF EventsAfter
  <1> HIDE DEF N
  <1>4. CASE N = 0
    <2>1. s = [k \in 1 .. 0 |-> Event(b, n, inc, e + k)]
      BY <1>4 DEF EventsAfter, N
    <2>2. s = <<>>
      BY <2>1
    <2> QED BY <2>2, <1>1, <1>2, <1>4
  <1>5. CASE N # 0
    <2>1. 1 \in DOMAIN s
      BY <1>2, <1>3, <1>5
    <2> HIDE DEF s
    <2>2. s # <<>>
      BY <2>1
    <2> QED BY <2>2, <1>1, <1>2, <1>5 DEF s
  <1> QED BY <1>4, <1>5

\* After a message was read the consumer is one message further.
LEMMA OutcomeStream ==
    ASSUME ExchangeInv, IncInv, UNCHANGED exchangeVars,
           NEW n \in 0 .. last_inc_seq_num_, NEW c \in 1 .. Size(books[n + 1]),
           Outcome(books[n + 1], n, c),
           inbound_data_' = RestOfFirst(books[n + 1], n, c),
           LET b == books[n + 1]
               r == IF c < 3 THEN 3 ELSE c
           IN  \/ snapshot_net' = RestOfNet(b, n, r)
               \/ /\ r = Size(b)
                  /\ \E m \in n .. last_inc_seq_num_ :
                         snapshot_net' = Datagrams(books[m + 1], m)
    PROVE  StreamAt(n, c)'
  <1> DEFINE b == books[n + 1]
  <1>1. books' = books /\ last_inc_seq_num_' = last_inc_seq_num_
    BY DEF exchangeVars
  <1>2. /\ n \in Nat /\ last_inc_seq_num_ \in Nat /\ next_id \in Nat
        /\ IsBook(b, next_id) /\ Orders(b) \in Nat /\ Size(b) \in Nat
        /\ next_inc_seq_num_ \in Nat
    BY SnapshotBooks
  <1>3. Prefix(b, n, c) # <<>>
    BY <1>2, PrefixQueue
  <1>4. /\ \/ snapshot_queued_msgs_' = <<>>
           \/ snapshot_queued_msgs_' = Prefix(b, n, c)
        /\ final_events' # <<>> <=> snapshot_queued_msgs_' # <<>> /\ c = Size(b)
    <2>1. CASE /\ \/ snapshot_queued_msgs_' = <<>>
                  \/ c < Size(b) /\ snapshot_queued_msgs_' = Prefix(b, n, c)
               /\ final_events' = <<>>
      BY <2>1, <1>2
    <2>2. CASE /\ c = Size(b) /\ snapshot_queued_msgs_' = Prefix(b, n, c)
               /\ next_exp_inc_seq_num_' = NextMissing(incremental_queued_msgs_, n + 1)
               /\ final_events' = EventsAfter(b, n, incremental_queued_msgs_,
                                              next_exp_inc_seq_num_', 0)
      <3>1. next_exp_inc_seq_num_' \in n + 1 .. next_inc_seq_num_
        BY <2>2, NextIsSent
      <3>2. next_exp_inc_seq_num_' \in Nat /\ Count(b, n, next_exp_inc_seq_num_') > 0
            /\ Count(b, n, next_exp_inc_seq_num_') \in Nat
        BY <3>1, <1>2 DEF Count
      <3>3. final_events' # <<>>
        BY <3>2, <2>2, <1>2, EventsNotEmpty
      <3> QED BY <3>3, <2>2, <1>3
    <2> QED BY <2>1, <2>2 DEF Outcome
  <1> QED BY <1>1, <1>4 DEF StreamAt

\* A new snapshot is sent once the last one has left the network.
LEMMA PublishStream ==
    ASSUME ExchangeInv, PublishSnapshot, NEW n \in Nat, NEW a \in Nat, StreamAt(n, a)
    PROVE  StreamAt(n, a)'
  <1> DEFINE b == books[n + 1]
             r == IF a < 3 THEN 3 ELSE a
             last == last_inc_seq_num_
  <1>1. n \in 0 .. last /\ a \in 1 .. Size(b)
    BY DEF StreamAt
  <1>2. /\ last \in Nat /\ next_id \in Nat /\ IsBook(b, next_id)
        /\ Size(b) \in Nat /\ Size(b) >= 3
        /\ IsBook(books[last + 1], next_id) /\ ticker_orders_ = books[last + 1]
    BY <1>1, SnapshotBooks DEF ExchangeInv, SynthInv
  <1>3. snapshot_net' = Datagrams(books[last + 1], last)
    BY <1>2, PublishedDatagrams
  <1>4. r \in 1 .. Size(b)
    BY <1>1, <1>2
  <1>5. r = Size(b)
    <2>1. CASE snapshot_net = RestOfNet(b, n, r)
      BY <2>1, <1>2, <1>4, RestTail DEF PublishSnapshot
    <2> QED BY <2>1 DEF StreamAt
  <1>6. UNCHANGED <<books, last_inc_seq_num_, inbound_data_, snapshot_queued_msgs_,
                    final_events>>
    BY DEF PublishSnapshot, exchangeVars, consumerVars
  <1>7. last \in n .. last
    BY <1>1, <1>2
  <1>8. \E m \in n .. last : snapshot_net' = Datagrams(books[m + 1], m)
    BY <1>3, <1>7
  <1> QED BY <1>5, <1>6, <1>8 DEF StreamAt

\* A snapshot nobody has joined goes by.
LEMMA LoseStream ==
    ASSUME ExchangeInv, IncInv, LoseSnapshot, ~SnapshotLoss,
           NEW n \in Nat, NEW a \in Nat, StreamAt(n, a)
    PROVE  \E m, c \in Nat : m >= n /\ StreamAt(m, c)'
  <1> DEFINE b == books[n + 1]
             last == last_inc_seq_num_
  <1>1. n \in 0 .. last /\ a \in 1 .. Size(b)
    BY DEF StreamAt
  <1>2. /\ last \in Nat /\ next_id \in Nat /\ IsBook(b, next_id)
        /\ Size(b) \in Nat /\ Size(b) >= 3
    BY <1>1, SnapshotBooks
  <1>3. /\ inbound_data_ = <<>> /\ final_events = <<>> /\ snapshot_queued_msgs_ = <<>>
        /\ snapshot_net # <<>> /\ snapshot_net' = Tail(snapshot_net)
        /\ UNCHANGED <<books, last_inc_seq_num_, inbound_data_, snapshot_queued_msgs_,
                       final_events>>
    BY DEF LoseSnapshot, IncInv, exchangeVars, consumerVars
  <1>4. a >= 3
    <2>1. RestOfFirst(b, n, a) = <<>>
      BY <1>3 DEF StreamAt
    <2> QED BY <2>1, <1>1, <1>2, RestTail
  <1>5. CASE snapshot_net = RestOfNet(b, n, a)
    <2>a. RestOfNet(b, n, a) # <<>> /\ snapshot_net' = Tail(RestOfNet(b, n, a))
      BY <1>3, <1>5
    <2>1. a # Size(b) /\ snapshot_net' = RestOfNet(b, n, a + 1)
      BY <2>a, <1>1, <1>2, RestTail
    <2>2. a + 1 \in 1 .. Size(b) /\ a + 1 >= 3 /\ ~(a + 1 < 3)
      BY <2>1, <1>1, <1>2, <1>4
    <2>3. RestOfFirst(b, n, a + 1) = <<>>
      BY <2>2, <1>2, RestTail
    <2>4. StreamAt(n, a + 1)'
      BY <2>1, <2>2, <2>3, <1>1, <1>3 DEF StreamAt
    <2> QED BY <2>2, <2>4
  <1>6. CASE \E m \in n .. last : snapshot_net = Datagrams(books[m + 1], m)
    <2>1. PICK m \in n .. last : snapshot_net = Datagrams(books[m + 1], m)
      BY <1>6
    <2>2. m \in 0 .. last /\ m \in Nat /\ m >= n
      BY <1>1, <1>2
    <2>3. IsBook(books[m + 1], next_id) /\ Size(books[m + 1]) \in Nat
          /\ Size(books[m + 1]) >= 3
      BY <2>2, SnapshotBooks
    <2>4. snapshot_net' = RestOfNet(books[m + 1], m, 3)
      BY <2>1, <2>2, <2>3, <1>2, <1>3, DatagramsTail
    <2>5. 3 \in 1 .. Size(books[m + 1])
      BY <2>3
    <2>6. RestOfFirst(books[m + 1], m, 3) = <<>>
      BY <2>2, <2>3, <2>5, <1>2, RestTail
    <2>7. StreamAt(m, 3)'
      BY <2>2, <2>4, <2>5, <2>6, <1>3 DEF StreamAt
    <2> QED BY <2>2, <2>7
  <1> QED BY <1>4, <1>5, <1>6 DEF StreamAt

\* The consumer reads the next message of a snapshot: the one that is being
\* read, or the first one of a later one.
LEMMA ReadSnapshot ==
    ASSUME ExchangeInv, IncInv, RecvSnapshot \/ RecvSnapshotMore,
           NEW n \in Nat, NEW a \in Nat, StreamAt(n, a)
    PROVE  \E m, c \in Nat : /\ m \in n .. last_inc_seq_num_
                             /\ c \in 1 .. Size(books[m + 1])
                             /\ Outcome(books[m + 1], m, c)
                             /\ StreamAt(m, c)'
  <1> DEFINE b == books[n + 1]
             last == last_inc_seq_num_
             top == next_inc_seq_num_ - 1
             r == IF a < 3 THEN 3 ELSE a
  <1>1. n \in 0 .. last /\ a \in 1 .. Size(b)
    BY DEF StreamAt
  <1>2. /\ last \in Nat /\ next_id \in Nat /\ IsBook(b, next_id)
        /\ Size(b) \in Nat /\ Size(b) >= 3
        /\ next_inc_seq_num_ \in Nat /\ top \in Nat
    BY <1>1, SnapshotBooks
  <1>3. /\ DOMAIN incremental_queued_msgs_ \subseteq 1 .. top
        /\ \A k \in DOMAIN incremental_queued_msgs_ :
               /\ incremental_queued_msgs_[k] \in MEMarketUpdate
               /\ NoMarker(incremental_queued_msgs_[k])
    BY QueuedTypes DEF IncInv
  <1>4. final_events = <<>> /\ UNCHANGED exchangeVars
    BY DEF RecvSnapshot, RecvSnapshotMore, Idle
  <1>5. /\ snapshot_queued_msgs_ = <<>> \/ snapshot_queued_msgs_ = Prefix(b, n, a)
        /\ a = Size(b) => snapshot_queued_msgs_ = <<>>
        /\ inbound_data_ = RestOfFirst(b, n, a)
        /\ \/ snapshot_net = RestOfNet(b, n, r)
           \/ /\ r = Size(b)
              /\ \E m \in n .. last : snapshot_net = Datagrams(books[m + 1], m)
    BY <1>4 DEF StreamAt
  <1>6. in_recovery_
    BY DEF RecvSnapshot, RecvSnapshotMore, IncInv
  <1>7. (a >= 3 <=> RestOfFirst(b, n, a) = <<>>) /\ a \in Nat
    BY <1>1, <1>2, RestTail
  <1>8. CASE RecvSnapshotMore
    <2>1. a < 3
      BY <1>5, <1>7, <1>8 DEF RecvSnapshotMore
    <2>2. /\ a + 1 \in 1 .. Size(b) /\ a # Size(b) /\ a + 1 \in Nat
          /\ (IF a + 1 < 3 THEN 3 ELSE a + 1) = 3 /\ r = 3
      BY <2>1, <1>1, <1>2
    <2>3. /\ Head(inbound_data_) = Msg(b, n, a + 1)
          /\ Tail(inbound_data_) = RestOfFirst(b, n, a + 1)
      <3>1. /\ Head(RestOfFirst(b, n, a)) = Msg(b, n, a + 1)
            /\ Tail(RestOfFirst(b, n, a)) = RestOfFirst(b, n, a + 1)
        BY <2>1, <1>1, <1>2, RestTail
      <3>2. inbound_data_ = RestOfFirst(b, n, a)
        BY <1>5
      <3> QED BY <3>1, <3>2
    <2>4. Outcome(b, n, a + 1)
      BY <2>2, <2>3, <1>1, <1>2, <1>3, <1>4, <1>5, <1>6, <1>8, QueueNext
         DEF RecvSnapshotMore
    <2>5. inbound_data_' = RestOfFirst(b, n, a + 1) /\ snapshot_net' = snapshot_net
      BY <2>3, <1>8 DEF RecvSnapshotMore
    <2>6. StreamAt(n, a + 1)'
      BY <2>2, <2>4, <2>5, <1>1, <1>4, <1>5, OutcomeStream
    <2>7. n \in n .. last
      BY <1>1, <1>2
    <2> QED BY <2>2, <2>4, <2>6, <2>7
  <1>9. CASE RecvSnapshot
    <2>1. /\ inbound_data_ = <<>> /\ snapshot_net # <<>>
          /\ QueueMessage(TRUE, Head(Head(snapshot_net)))
          /\ inbound_data_' = Tail(Head(snapshot_net))
          /\ snapshot_net' = Tail(snapshot_net)
      BY <1>9 DEF RecvSnapshot, Idle
    <2>2. a >= 3 /\ r = a
      BY <2>1, <1>5, <1>7
    <2>3. CASE snapshot_net = RestOfNet(b, n, a)
      <3>1. a # Size(b)
        BY <2>1, <2>3, <1>1, <1>2, RestTail
      <3>2. /\ a + 1 \in 1 .. Size(b) /\ a + 1 >= 3 /\ a + 1 \in Nat
            /\ (IF a + 1 < 3 THEN 3 ELSE a + 1) = a + 1
        BY <3>1, <2>2, <1>1, <1>2
      <3>3. /\ Head(snapshot_net) = <<Msg(b, n, a + 1)>>
            /\ snapshot_net' = RestOfNet(b, n, a + 1)
        <4>1. /\ Head(RestOfNet(b, n, a)) = <<Msg(b, n, a + 1)>>
              /\ Tail(RestOfNet(b, n, a)) = RestOfNet(b, n, a + 1)
          <5>1. next_id \in Nat /\ IsBook(b, next_id) /\ a \in 1 .. Size(b)
            BY <1>1, <1>2
          <5> QED BY <5>1, <3>1, RestTail, Zenon
        <4>2. snapshot_net' = Tail(snapshot_net)
          BY <2>1
        <4> QED BY <4>1, <4>2, <2>3
      <3>4. /\ Head(Head(snapshot_net)) = Msg(b, n, a + 1)
            /\ Tail(Head(snapshot_net)) = <<>>
        <4>1. \A x : Head(<<x>>) = x /\ Tail(<<x>>) = <<>>
          OBVIOUS
        <4> QED BY <3>3, <4>1
      <3>5. inbound_data_' = RestOfFirst(b, n, a + 1)
        <4>1. RestOfFirst(b, n, a + 1) = <<>>
          BY <3>2, <1>1, <1>2, RestTail
        <4>2. inbound_data_' = Tail(Head(snapshot_net))
          BY <2>1
        <4> QED BY <4>1, <4>2, <3>4
      <3>6. QueueMessage(TRUE, Msg(b, n, a + 1))
        BY <3>4, <2>1
      <3>7. Outcome(b, n, a + 1)
        BY <3>1, <3>6, <1>1, <1>2, <1>3, <1>4, <1>5, <1>6, QueueNext
      <3>8. StreamAt(n, a + 1)'
        BY <3>2, <3>3, <3>5, <3>7, <1>1, <1>4, OutcomeStream
      <3>9. n \in n .. last
        BY <1>1, <1>2
      <3> QED BY <3>2, <3>7, <3>8, <3>9
    <2>4. CASE a = Size(b) /\ \E m \in n .. last : snapshot_net = Datagrams(books[m + 1], m)
      <3>1. PICK m \in n .. last : snapshot_net = Datagrams(books[m + 1], m)
        BY <2>4
      <3> DEFINE bm == books[m + 1]
      <3>2. m \in 0 .. last /\ m \in Nat
        BY <1>1, <1>2
      <3>3. /\ IsBook(bm, next_id) /\ Size(bm) \in Nat /\ Size(bm) >= 3
            /\ 1 \in 1 .. Size(bm)
        BY <3>2, SnapshotBooks
      <3>4. /\ Head(Head(snapshot_net)) = Msg(bm, m, 1)
            /\ inbound_data_' = RestOfFirst(bm, m, 1)
            /\ snapshot_net' = RestOfNet(bm, m, 3)
        BY <3>1, <3>2, <3>3, <2>1, <1>2, DatagramsTail
      <3>5. QueueMessage(TRUE, Msg(bm, m, 1)) /\ snapshot_queued_msgs_ = <<>>
        BY <3>4, <2>1, <2>4, <1>5
      <3>6. Outcome(bm, m, 1)
        BY <3>2, <3>3, <3>5, <1>2, <1>4, <1>6, QueueFirst
      <3>7. (IF 1 < 3 THEN 3 ELSE 1) = 3
        OBVIOUS
      <3>8. StreamAt(m, 1)'
        BY <3>2, <3>3, <3>4, <3>6, <3>7, <1>4, OutcomeStream
      <3>9. m \in n .. last /\ 1 \in Nat
        OBVIOUS
      <3> QED BY <3>2, <3>3, <3>6, <3>8, <3>9
    <2> QED BY <2>2, <2>3, <2>4, <1>5
  <1> QED BY <1>8, <1>9

-----------------------------------------------------------------------------
(* Incremental updates.                                                    *)

\* An update that cannot be applied is queued, and that is all.
LEMMA IncrementalQueued ==
    ASSUME ExchangeInv, IncInv, NEW n \in Nat, NEW a \in Nat, StreamAt(n, a),
           final_events = <<>>, NEW m, QueueMessage(FALSE, m)
    PROVE  /\ incremental_queued_msgs_' = With(incremental_queued_msgs_, m.seq_num_, m.update)
           /\ UNCHANGED <<snapshot_queued_msgs_, next_exp_inc_seq_num_, final_events>>
  <1> DEFINE b == books[n + 1]
             q == snapshot_queued_msgs_
             inc == With(incremental_queued_msgs_, m.seq_num_, m.update)
  <1>1. /\ q = (IF in_recovery_ THEN q ELSE <<>>)
        /\ incremental_queued_msgs_ = (IF in_recovery_ THEN incremental_queued_msgs_
                                       ELSE <<>>)
    BY DEF IncInv
  <1>2. CheckSnapshotSync(q, inc)
    BY <1>1, Zenon DEF QueueMessage
  <1> HIDE DEF inc
  <1>3. CASE q = <<>>
    <2>1. CheckSnapshotSync(<<>>, inc)
      BY <1>2, <1>3
    <2> QED BY <2>1, <1>3 DEF CheckSnapshotSync, inc
  <1>4. CASE q # <<>>
    <2>1. n \in 0 .. last_inc_seq_num_ /\ a \in 1 .. Size(b)
          /\ q = Prefix(b, n, a) /\ a # Size(b)
      BY <1>4 DEF StreamAt
    <2>2. next_id \in Nat /\ IsBook(b, next_id)
      BY <2>1, SnapshotBooks
    <2>3. /\ snapshot_queued_msgs_' = q /\ incremental_queued_msgs_' = inc
          /\ UNCHANGED <<next_exp_inc_seq_num_, final_events>>
      BY <2>1, <2>2, <1>2, SyncWaits
    <2> QED BY <2>3 DEF inc
  <1> QED BY <1>3, <1>4

\* What a queue and the network hold when an update has been queued.
LEMMA QueuedInv ==
    ASSUME ExchangeInv, IncInv, UNCHANGED exchangeVars,
           NEW m, Numbered(m.seq_num_, m.update),
           incremental_queued_msgs_' = With(incremental_queued_msgs_, m.seq_num_, m.update),
           in_recovery_' = TRUE
    PROVE  IncInv'
  <1> DEFINE inc == incremental_queued_msgs_
             s == m.seq_num_
  <1>1. /\ DOMAIN inc' = DOMAIN inc \cup {s}
        /\ \A k \in DOMAIN inc' : inc'[k] = IF k = s THEN m.update ELSE inc[k]
    BY DEF With
  <1>2. DOMAIN inc \subseteq 1 .. next_inc_seq_num_ - 1 /\ s \in 1 .. next_inc_seq_num_ - 1
    BY DEF IncInv, Numbered
  <1>3. \A k \in DOMAIN inc' : IsUpdate(k, inc'[k])
    BY <1>1 DEF IncInv, Numbered
  <1>4. UNCHANGED <<books, next_inc_seq_num_>>
    BY DEF exchangeVars
  <1> QED BY <1>1, <1>2, <1>3, <1>4 DEF IncInv, IsUpdate

-----------------------------------------------------------------------------
(* The events of a recovery.                                               *)

\* After the clear the book is empty, after the last order it is the
\* snapshot's.
LEMMA FirstOrdersAre ==
    ASSUME NEW id \in Nat, NEW b, IsBook(b, id)
    PROVE  /\ FirstOrders(b, 0) = <<>>
           /\ FirstOrders(b, Orders(b)) = b
           /\ \A j \in 0 .. Orders(b) : IsBook(FirstOrders(b, j), id)
           /\ \A j \in 1 .. Orders(b) :
                 LET x == Ascending(DOMAIN b)[j]
                 IN  With(FirstOrders(b, j - 1), x, b[x]) = FirstOrders(b, j)
  <1> DEFINE A == Ascending(DOMAIN b)
             N == Orders(b)
             X(j) == {A[k] : k \in 1 .. j}
  <1>1. /\ N \in Nat /\ A \in [1 .. N -> DOMAIN b] /\ X(N) = DOMAIN b
    BY SnapshotOrders
  <1>2. b = [i \in DOMAIN b |-> b[i]] /\ b \in [DOMAIN b -> Entry]
        /\ DOMAIN b \subseteq 1 .. id - 1
    BY DEF IsBook
  <1>3. \A j : FirstOrders(b, j) = [i \in X(j) |-> b[i]]
    BY DEF FirstOrders
  <1> HIDE DEF A, N
  <1>4. FirstOrders(b, 0) = <<>>
    <2>1. X(0) = {}
      OBVIOUS
    <2>2. FirstOrders(b, 0) = [i \in {} |-> b[i]]
      BY <2>1, <1>3
    <2> QED BY <2>2
  <1>5. FirstOrders(b, N) = b
    <2>1. FirstOrders(b, N) = [i \in DOMAIN b |-> b[i]]
      BY <1>1, <1>3
    <2> QED BY <2>1, <1>2
  <1>6. ASSUME NEW j \in 0 .. N PROVE IsBook(FirstOrders(b, j), id)
    <2>1. X(j) \subseteq DOMAIN b
      BY <1>1
    <2> HIDE DEF X
    <2>2. [i \in X(j) |-> b[i]] \in [X(j) -> Entry]
      BY <2>1, <1>2
    <2> QED BY <2>1, <2>2, <1>2, <1>3 DEF IsBook
  <1>7. ASSUME NEW j \in 1 .. N
        PROVE  With(FirstOrders(b, j - 1), A[j], b[A[j]]) = FirstOrders(b, j)
    <2>1. X(j) = X(j - 1) \cup {A[j]}
      <3>1. 1 .. j = (1 .. j - 1) \cup {j}
        BY <1>1
      <3> QED BY <3>1
    <2> HIDE DEF X
    <2>2. With([i \in X(j - 1) |-> b[i]], A[j], b[A[j]]) = [i \in X(j) |-> b[i]]
      BY <2>1 DEF With
    <2> QED BY <2>2, <1>3
  <1> QED BY <1>4, <1>5, <1>6, <1>7 DEF A, N

\* The book after e events, from the CLEAR on.
BookAfter(n, e) ==
    LET b == books[n + 1]
    IN  IF e <= Orders(b) + 1 THEN FirstOrders(b, e - 1) ELSE books[n + e - Orders(b)]

\* Each event leads to the book that the events so far describe.
LEMMA EventApplied ==
    ASSUME ExchangeInv, IncInv, NEW n \in Nat, NEW e \in Nat, FinalAt(n, e),
           next_exp_inc_seq_num_ \in 1 .. next_inc_seq_num_
    PROVE  /\ Applied(client_book, Event(books[n + 1], n, incremental_queued_msgs_, e + 1))
                = BookAfter(n, e + 1)
           /\ IsBook(BookAfter(n, e + 1), next_id)
           /\ e + 1 = Count(books[n + 1], n, next_exp_inc_seq_num_)
                => BookAfter(n, e + 1) = books[next_exp_inc_seq_num_]
  <1> DEFINE b == books[n + 1]
             N == Orders(b)
             next == next_exp_inc_seq_num_
             inc == incremental_queued_msgs_
             u == Event(b, n, inc, e + 1)
  <1>1. /\ n \in 0 .. last_inc_seq_num_ /\ next > n
        /\ \A k \in n + 1 .. next - 1 : k \in DOMAIN inc
        /\ e \in 0 .. Count(b, n, next) - 1
        /\ e \in 1 .. N + 1 => client_book = FirstOrders(b, e - 1)
        /\ e > N + 1 => client_book = books[n + e - N]
    BY DEF FinalAt
  <1>2. /\ N \in Nat /\ IsBook(b, next_id) /\ next_id \in Nat
    BY <1>1, SnapshotBooks
  <1>3. Count(b, n, next) = N + next - n /\ next \in Nat
        /\ Len(books) \in Nat /\ next <= Len(books)
        /\ \A i \in 1 .. Len(books) : IsBook(books[i], next_id)
    BY ExchangeCounts DEF Count
  <1>4. /\ FirstOrders(b, 0) = <<>> /\ FirstOrders(b, N) = b
        /\ \A j \in 0 .. N : IsBook(FirstOrders(b, j), next_id)
    BY <1>2, FirstOrdersAre
  <1> HIDE DEF N, u
  <1>5. CASE e = 0
    <2>1. e + 1 <= N + 1 /\ (e + 1) + 1 = 2 /\ (e + 1) - 1 = 0
      BY <1>2, <1>5
    <2>2. u = Marker("CLEAR", INVALID)
      BY <2>1, <1>2, SnapshotUpdates DEF Event, u, N
    <2>3. u.type = "CLEAR"
      BY <2>2 DEF Marker, Update
    <2>4. Applied(client_book, u) = <<>>
      BY <2>3 DEF Applied
    <2>5. BookAfter(n, e + 1) = FirstOrders(b, 0)
      BY <2>1 DEF BookAfter, N
    <2>6. e + 1 = Count(b, n, next) => N = 0 /\ next = n + 1
      BY <1>1, <1>2, <1>3, <1>5
    <2>7. 0 \in 0 .. N
      BY <1>2
    <2> QED BY <2>4, <2>5, <2>6, <2>7, <1>4 DEF u
  <1>6. CASE e \in 1 .. N
    <2> DEFINE x == Ascending(DOMAIN b)[e]
    <2>1. e + 1 <= N + 1 /\ (e + 1) + 1 = e + 2 /\ (e + 1) - 1 = e /\ e \in 1 .. N + 1
          /\ e \in 0 .. N
      BY <1>2, <1>6
    <2>2. u = AddOf(x, b[x]) /\ b[x] \in Entry /\ x \in Nat
      BY <2>1, <1>2, <1>6, SnapshotUpdates DEF Event, u, N
    <2>3. With(FirstOrders(b, e - 1), x, b[x]) = FirstOrders(b, e)
      BY <1>2, <1>6, FirstOrdersAre DEF N
    <2> HIDE DEF x
    <2>4. Applied(client_book, u) = With(client_book, x, b[x])
      BY <2>2, AddTells DEF Tells
    <2>5. BookAfter(n, e + 1) = FirstOrders(b, e)
      BY <2>1 DEF BookAfter, N
    <2>6. e + 1 = Count(b, n, next) => e = N /\ next = n + 1
      BY <1>1, <1>2, <1>3, <1>6
    <2>7. client_book = FirstOrders(b, e - 1)
      BY <2>1, <1>1
    <2> QED BY <2>1, <2>3, <2>4, <2>5, <2>6, <2>7, <1>4 DEF u
  <1>7. CASE e > N
    <2> DEFINE i == n + e - N
    <2>1. /\ ~(e + 1 <= N + 1) /\ n + (e + 1) - N - 1 = i /\ n + (e + 1) - N = i + 1
          /\ i \in n + 1 .. next - 1 /\ i + 1 \in 1 .. Len(books) /\ i \in Nat
      BY <1>1, <1>2, <1>3, <1>7
    <2>2. client_book = books[i]
      <3>1. CASE e = N + 1
        <4>1. e \in 1 .. N + 1 /\ e - 1 = N /\ i = n + 1
          BY <3>1, <1>2
        <4> QED BY <4>1, <1>1, <1>4
      <3>2. CASE e # N + 1
        <4>1. e > N + 1
          BY <3>2, <1>2, <1>7
        <4> QED BY <4>1, <1>1
      <3> QED BY <3>1, <3>2
    <2>3. u = inc[i] /\ BookAfter(n, e + 1) = books[i + 1]
      BY <2>1 DEF u, Event, BookAfter, N
    <2> HIDE DEF i
    <2>4. i \in DOMAIN inc
      BY <2>1, <1>1
    <2>5. books[i + 1] = Applied(books[i], inc[i])
      BY <2>4 DEF IncInv, IsUpdate, Tells
    <2>6. e + 1 = Count(b, n, next) => i + 1 = next
      BY <1>2, <1>3 DEF i
    <2> QED BY <2>1, <2>2, <2>3, <2>5, <2>6, <1>3 DEF u
  <1>8. e = 0 \/ e \in 1 .. N \/ e > N
    BY <1>2
  <1> QED BY <1>5, <1>6, <1>7, <1>8

-----------------------------------------------------------------------------
(* The steps.                                                              *)

\* The exchange's history and counters only grow.
Grows ==
    /\ next_inc_seq_num_' >= next_inc_seq_num_
    /\ last_inc_seq_num_' >= last_inc_seq_num_
    /\ next_id' >= next_id
    /\ Len(books') >= Len(books)
    /\ \A n \in 1 .. Len(books) : books'[n] = books[n]

\* Every step keeps what the exchange's part says, and the past.
LEMMA ExchangeGrows ==
    ASSUME ExchangeInv, [Next]_vars
    PROVE  ExchangeInv' /\ Grows
  <1>1. ExchangeInv'
    BY ExchangeNext
  <1>2. /\ next_inc_seq_num_ \in Nat /\ last_inc_seq_num_ \in Nat /\ next_id \in Nat
        /\ Len(books) \in Nat
    BY ExchangeCounts
  <1>3. CASE UNCHANGED exchangeVars
    BY <1>1, <1>2, <1>3 DEF exchangeVars, Grows
  <1>4. CASE EngineStep
    <2>1. next_inc_seq_num_' = next_inc_seq_num_ /\ last_inc_seq_num_' = last_inc_seq_num_
      BY <1>4 DEF EngineStep
    <2> QED BY <1>1, <1>2, <1>4, <2>1, EngineKeepsPast DEF Grows
  <1>5. CASE Publish
    <2>1. /\ next_inc_seq_num_' = next_inc_seq_num_ + 1
          /\ UNCHANGED <<books, next_id, last_inc_seq_num_>>
      BY <1>5 DEF Publish
    <2> QED BY <1>1, <1>2, <2>1 DEF Grows
  <1>6. CASE AddToSnapshot
    <2>1. /\ snapshot_md_updates_ # <<>>
          /\ last_inc_seq_num_' = Head(snapshot_md_updates_).seq_num_
          /\ UNCHANGED <<books, next_id, next_inc_seq_num_>>
      BY <1>6 DEF AddToSnapshot
    <2>2. /\ snapshot_md_updates_ \in Seq(MDPMarketUpdate)
          /\ \A k \in 1 .. Len(snapshot_md_updates_) :
                 snapshot_md_updates_[k].seq_num_ = last_inc_seq_num_ + k
      BY DEF ExchangeInv, SynthInv
    <2>3. /\ Head(snapshot_md_updates_) = snapshot_md_updates_[1]
          /\ 1 \in 1 .. Len(snapshot_md_updates_)
      BY <2>1, <2>2
    <2>4. last_inc_seq_num_' = last_inc_seq_num_ + 1
      BY <2>1, <2>2, <2>3
    <2> QED BY <1>1, <1>2, <2>1, <2>4 DEF Grows
  <1>7. UNCHANGED exchangeVars \/ EngineStep \/ Publish \/ AddToSnapshot
    BY DEF Next, Consumer, vars, PublishSnapshot, RecvIncremental, RecvSnapshot,
           RecvSnapshotMore, PushEvent, LoseIncremental, LoseSnapshot
  <1> QED BY <1>3, <1>4, <1>5, <1>6, <1>7

\* What the consumer's state says of the exchange's history stays as the
\* history grows.
LEMMA UpdatesLater ==
    ASSUME ExchangeInv, Grows
    PROVE  /\ \A n \in 1 .. next_inc_seq_num_ - 1 : \A u : IsUpdate(n, u) => IsUpdate(n, u)'
           /\ \A n \in 0 .. last_inc_seq_num_ : books'[n + 1] = books[n + 1]
           /\ \A n \in 1 .. next_inc_seq_num_ : books'[n] = books[n]
  <1>1. /\ Len(books) \in Nat /\ next_inc_seq_num_ \in 1 .. Len(books)
        /\ last_inc_seq_num_ \in 0 .. next_inc_seq_num_ - 1
    BY ExchangeCounts
  <1>2. \A n \in 1 .. Len(books) : books'[n] = books[n]
    BY DEF Grows
  <1>3. \A n \in 1 .. Len(books) - 1 : \A u : IsUpdate(n, u) => IsUpdate(n, u)'
    BY <1>1, <1>2, UpdatesStay
  <1> QED BY <1>1, <1>2, <1>3

\* Arithmetic.
LEMMA Below ==
    ASSUME NEW x \in Nat, NEW y \in Nat, x < y
    PROVE  x \in 0 .. y - 1
  OBVIOUS

\* Steps that leave the consumer alone.
LEMMA ConsumerKeeps ==
    ASSUME ExchangeInv, ExchangeInv', Grows, UNCHANGED consumerVars,
           IncInv, FinalInv, SyncInv
    PROVE  IncInv' /\ FinalInv' /\ SyncInv'
  <1>1. /\ Len(books) \in Nat /\ next_inc_seq_num_ \in 1 .. Len(books)
        /\ last_inc_seq_num_ \in 0 .. next_inc_seq_num_ - 1 /\ next_id \in Nat
    BY ExchangeCounts
  <1>2. /\ next_inc_seq_num_' \in Nat /\ last_inc_seq_num_' \in Nat /\ next_id' \in Nat
    BY DEF ExchangeInv, BooksInv, QueueInv, SynthInv
  <1>3. /\ next_inc_seq_num_' >= next_inc_seq_num_
        /\ last_inc_seq_num_' >= last_inc_seq_num_ /\ next_id' >= next_id
    BY DEF Grows
  <1>4. /\ \A n \in 1 .. next_inc_seq_num_ - 1 : \A u : IsUpdate(n, u) => IsUpdate(n, u)'
        /\ \A n \in 0 .. last_inc_seq_num_ : books'[n + 1] = books[n + 1]
        /\ \A n \in 1 .. next_inc_seq_num_ : books'[n] = books[n]
    BY UpdatesLater
  <1>5. UNCHANGED <<inbound_data_, next_exp_inc_seq_num_, in_recovery_,
                    snapshot_queued_msgs_, incremental_queued_msgs_, final_events,
                    client_book, synced>>
    BY DEF consumerVars
  <1>6. IncInv'
    <2>1. /\ in_recovery_' \in BOOLEAN
          /\ DOMAIN incremental_queued_msgs_' \subseteq 1 .. next_inc_seq_num_' - 1
          /\ ~in_recovery_' =>
                /\ inbound_data_' = <<>> /\ final_events' = <<>>
                /\ snapshot_queued_msgs_' = <<>> /\ incremental_queued_msgs_' = <<>>
      BY <1>1, <1>2, <1>3, <1>5 DEF IncInv
    <2>2. ASSUME NEW n \in DOMAIN incremental_queued_msgs_'
          PROVE  IsUpdate(n, incremental_queued_msgs_[n])'
      <3>1. n \in DOMAIN incremental_queued_msgs_
        BY <1>5
      <3>2. n \in 1 .. next_inc_seq_num_ - 1 /\ IsUpdate(n, incremental_queued_msgs_[n])
        BY <3>1 DEF IncInv
      <3>3. PICK u : u = incremental_queued_msgs_[n]
        OBVIOUS
      <3>4. IsUpdate(n, u)'
        BY <1>4, <3>2, <3>3
      <3> QED BY <1>5, <3>3, <3>4 DEF IsUpdate
    <2> QED BY <2>1, <2>2 DEF IncInv
  <1>7. FinalInv'
    <2> SUFFICES ASSUME final_events' # <<>>
                 PROVE  \E n \in 0 .. last_inc_seq_num_' : \E e \in Nat : FinalAt(n, e)'
      BY DEF FinalInv
    <2>1. PICK n \in 0 .. last_inc_seq_num_ : \E e \in Nat : FinalAt(n, e)
      BY <1>5 DEF FinalInv
    <2>2. PICK e \in Nat : FinalAt(n, e)
      BY <2>1
    <2>3. FinalAt(n, e)'
      <3> DEFINE next == next_exp_inc_seq_num_
      <3>1. books'[n + 1] = books[n + 1] /\ n \in 0 .. last_inc_seq_num_'
        BY <1>1, <1>2, <1>3, <1>4
      <3>2. Orders(books[n + 1]) \in Nat /\ next \in 1 .. next_inc_seq_num_
        BY SnapshotBooks DEF SyncInv
      <3>3. /\ n \in 0 .. last_inc_seq_num_ /\ next > n
            /\ e \in 0 .. Count(books[n + 1], n, next) - 1
        BY <2>2 DEF FinalAt
      <3>4. e > Orders(books[n + 1]) + 1 =>
                books'[n + e - Orders(books[n + 1])] = books[n + e - Orders(books[n + 1])]
        <4> DEFINE o == Orders(books[n + 1])
        <4>1. e \in 0 .. (o + next - n) - 1
          BY <3>3 DEF Count
        <4> HIDE DEF o, next
        <4>2. e > o + 1 => n + e - o \in 1 .. next_inc_seq_num_
          BY <4>1, <3>2, <3>3, <1>1 DEF o
        <4> QED BY <4>2, <1>4 DEF o
      <3> QED BY <1>5, <2>2, <3>1, <3>4 DEF FinalAt
    <2> QED BY <1>1, <1>2, <1>3, <2>3
  <1>8. SyncInv'
    <2>1. IsBook(client_book, next_id')
      BY <1>1, <1>2, <1>3, BookLater DEF SyncInv
    <2>2. books'[synced + 1] = books[synced + 1]
      BY <1>1, <1>4 DEF SyncInv
    <2>3. IsBook(client_book, next_id)'
      BY <1>5, <2>1
    <2>4. SyncedBookIsExact'
      BY <1>5, <2>2 DEF SyncInv, SyncedBookIsExact
    <2>5. /\ next_exp_inc_seq_num_ \in 1 .. next_inc_seq_num_
          /\ synced \in 0 .. next_inc_seq_num_ - 1
      BY DEF SyncInv
    <2>6. /\ next_exp_inc_seq_num_ \in 1 .. next_inc_seq_num_'
          /\ synced \in 0 .. next_inc_seq_num_' - 1
      <3>1. /\ next_inc_seq_num_ \in Nat /\ next_inc_seq_num_' \in Nat
            /\ next_inc_seq_num_' >= next_inc_seq_num_
        BY <1>1, <1>2, <1>3
      <3>2. next_exp_inc_seq_num_ \in 1 .. next_inc_seq_num_'
        BY <3>1, <2>5
      <3>3. synced \in Nat /\ synced < next_inc_seq_num_'
        BY <3>1, <2>5
      <3> QED BY <3>1, <3>2, <3>3, Below
    <2> QED BY <1>5, <2>3, <2>4, <2>6 DEF SyncInv
  <1> QED BY <1>6, <1>7, <1>8

\* Nothing has been sent: the consumer is where the snapshot of the empty
\* book would have left it.
LEMMA InitInv == Init => IInv
  <1> SUFFICES ASSUME Init PROVE IInv
    OBVIOUS
  <1>1. ExchangeInv
    BY ExchangeInit
  <1>2. books[1] = <<>> /\ IsBook(<<>>, 1) /\ DOMAIN <<>> = {} /\ next_id = 1
    BY EmptyBook DEF Init
  <1>3. Orders(<<>>) = 0 /\ Size(<<>>) = 3
    BY <1>2, FS_EmptySet DEF Orders, Size
  <1>4. RestOfFirst(<<>>, 0, 3) = <<>> /\ RestOfNet(<<>>, 0, 3) = <<>>
    BY <1>2, <1>3, RestTail
  <1>5. StreamAt(0, 3)
    <2>1. books[0 + 1] = <<>>
      BY <1>2
    <2> QED BY <2>1, <1>3, <1>4 DEF StreamAt, Init
  <1>6. StreamInv
    BY <1>5 DEF StreamInv
  <1>7. IncInv
    BY <1>2 DEF IncInv, Init
  <1>8. FinalInv
    BY DEF FinalInv, Init
  <1>9. SyncInv
    BY <1>2 DEF SyncInv, SyncedBookIsExact, Init
  <1> QED BY <1>1, <1>6, <1>7, <1>8, <1>9 DEF IInv

\* An incremental update is applied in its turn, or queued.
LEMMA IncrementalStep ==
    ASSUME ExchangeInv, IncInv, SyncInv, RecvIncremental,
           NEW n \in Nat, NEW a \in Nat, StreamAt(n, a)
    PROVE  StreamAt(n, a)' /\ IncInv' /\ FinalInv' /\ SyncInv'
  <1>1. /\ final_events = <<>> /\ inbound_data_ = <<>>
        /\ UNCHANGED <<exchangeVars, snapshot_net, inbound_data_>>
    BY DEF RecvIncremental, Idle
  <1>2. UNCHANGED <<books, next_id, next_inc_seq_num_, last_inc_seq_num_>>
    BY <1>1 DEF exchangeVars
  <1>3. PICK k \in 1 .. Len(incremental_net) : ProcessIncremental(incremental_net[k])
    BY DEF RecvIncremental
  <1>4. PICK m : m = incremental_net[k]
    OBVIOUS
  <1>5. Numbered(m.seq_num_, m.update) /\ ProcessIncremental(m)
    BY <1>3, <1>4 DEF ExchangeInv, NetInv
  <1>6. last_inc_seq_num_ \in Nat
    BY SnapshotBooks
  <1>7. UNCHANGED <<snapshot_queued_msgs_, final_events>> => StreamAt(n, a)'
    BY <1>1, <1>2, <1>6, StreamKeeps
  <1>8. final_events' = <<>> => FinalInv'
    BY DEF FinalInv
  <1>9. CASE ~in_recovery_ /\ m.seq_num_ = next_exp_inc_seq_num_
    <2>1. /\ next_exp_inc_seq_num_' = next_exp_inc_seq_num_ + 1
          /\ client_book' = Applied(client_book, m.update)
          /\ synced' = next_exp_inc_seq_num_
          /\ UNCHANGED <<in_recovery_, snapshot_queued_msgs_,
                         incremental_queued_msgs_, final_events>>
      BY <1>5, <1>9 DEF ProcessIncremental
    <2>2. IncInv'
      BY <1>1, <1>2, <2>1 DEF IncInv, IsUpdate
    <2> DEFINE s == next_exp_inc_seq_num_
    <2>3. s \in 1 .. next_inc_seq_num_ - 1 /\ next_inc_seq_num_ \in 1 .. Len(books)
      BY <1>5, <1>9, ExchangeCounts DEF Numbered
    <2>4. synced = s - 1 /\ client_book = books[synced + 1]
      BY <1>1, <1>9 DEF SyncInv, SyncedBookIsExact
    <2>5. client_book = books[s]
      BY <2>3, <2>4
    <2>6. client_book' = books[s + 1]
      BY <1>5, <1>9, <2>1, <2>5 DEF Numbered, IsUpdate, Tells
    <2>7. IsBook(books[s + 1], next_id)
      BY <2>3, ExchangeCounts
    <2>8. next_exp_inc_seq_num_' = s + 1 /\ synced' = s
      BY <2>1
    <2> HIDE DEF s
    <2>9. SyncInv'
      <3>1. s + 1 \in 1 .. next_inc_seq_num_ /\ s \in 0 .. next_inc_seq_num_ - 1
        BY <2>3, ExchangeCounts
      <3>2. synced' = next_exp_inc_seq_num_' - 1
        BY <2>3, <2>8
      <3>3. client_book' = books'[synced' + 1]
        BY <1>2, <2>6, <2>8
      <3>4. IsBook(client_book', next_id')
        BY <1>2, <2>6, <2>7
      <3>5. /\ next_exp_inc_seq_num_' \in 1 .. next_inc_seq_num_'
            /\ synced' \in 0 .. next_inc_seq_num_' - 1
        BY <1>2, <2>8, <3>1
      <3> QED BY <3>2, <3>3, <3>4, <3>5 DEF SyncInv, SyncedBookIsExact
    <2> QED BY <1>1, <1>7, <1>8, <2>1, <2>2, <2>9
  <1>10. CASE in_recovery_ \/ m.seq_num_ # next_exp_inc_seq_num_
    <2>1. in_recovery_' = TRUE /\ QueueMessage(FALSE, m) /\ UNCHANGED <<client_book, synced>>
      BY <1>5, <1>10, ~(~in_recovery_ /\ m.seq_num_ = next_exp_inc_seq_num_)
      DEF ProcessIncremental
    <2>2. /\ incremental_queued_msgs_' = With(incremental_queued_msgs_, m.seq_num_, m.update)
          /\ UNCHANGED <<snapshot_queued_msgs_, next_exp_inc_seq_num_, final_events>>
      BY <1>1, <2>1, IncrementalQueued
    <2>3. IncInv'
      BY <1>1, <1>5, <2>1, <2>2, QueuedInv
    <2>4. SyncInv'
      BY <1>2, <2>1, <2>2 DEF SyncInv, SyncedBookIsExact
    <2> QED BY <1>1, <1>7, <1>8, <2>2, <2>3, <2>4
  <1> QED BY <1>9, <1>10

\* A message of a snapshot is queued, and the last one may start the events.
LEMMA SnapshotStep ==
    ASSUME ExchangeInv, IncInv, SyncInv, RecvSnapshot \/ RecvSnapshotMore,
           NEW n \in Nat, NEW c \in Nat, n \in 0 .. last_inc_seq_num_,
           Outcome(books[n + 1], n, c)
    PROVE  IncInv' /\ FinalInv' /\ SyncInv'
  <1>1. /\ final_events = <<>>
        /\ UNCHANGED <<exchangeVars, in_recovery_, client_book, synced>>
    BY DEF RecvSnapshot, RecvSnapshotMore, Idle
  <1>2. UNCHANGED <<books, next_id, next_inc_seq_num_, last_inc_seq_num_>>
    BY <1>1 DEF exchangeVars
  <1>3. in_recovery_
    BY DEF RecvSnapshot, RecvSnapshotMore, IncInv
  <1> DEFINE inc == incremental_queued_msgs_
             next == NextMissing(inc, n + 1)
  <1>4. inc' = inc
    BY DEF Outcome
  <1>5. IncInv'
    BY <1>1, <1>2, <1>3, <1>4 DEF IncInv, IsUpdate
  <1>6. /\ next \in n + 1 .. next_inc_seq_num_
        /\ \A k \in n + 1 .. next - 1 : k \in DOMAIN inc
    BY NextIsSent
  <1>7. next_inc_seq_num_ \in Nat /\ Orders(books[n + 1]) \in Nat
    BY SnapshotBooks
  <1>8. next_exp_inc_seq_num_' \in {next_exp_inc_seq_num_, next}
    BY DEF Outcome
  <1> HIDE DEF next
  <1>9. next_exp_inc_seq_num_' \in 1 .. next_inc_seq_num_
    BY <1>6, <1>7, <1>8 DEF SyncInv
  <1>10. SyncInv'
    BY <1>1, <1>2, <1>3, <1>9 DEF SyncInv, SyncedBookIsExact
  <1>11. FinalInv'
    <2> SUFFICES ASSUME final_events' # <<>>
                 PROVE  \E i \in 0 .. last_inc_seq_num_' : \E e \in Nat : FinalAt(i, e)'
      BY DEF FinalInv
    <2>1. /\ next_exp_inc_seq_num_' = next
          /\ final_events' = EventsAfter(books[n + 1], n, inc, next_exp_inc_seq_num_', 0)
      BY DEF Outcome, next
    <2>2. next > n /\ Count(books[n + 1], n, next) >= 1 /\ Count(books[n + 1], n, next) \in Int
      BY <1>6, <1>7 DEF Count
    <2>3. 0 \in 0 .. Count(books[n + 1], n, next) - 1
      BY <2>2
    <2>4. FinalAt(n, 0)'
      <3>1. ~(0 > Orders(books[n + 1]) + 1) /\ 0 \notin 1 .. Orders(books[n + 1]) + 1
        BY <1>7
      <3> QED BY <1>2, <1>4, <1>6, <2>1, <2>2, <2>3, <3>1 DEF FinalAt
    <2> QED BY <1>2, <2>4
  <1> QED BY <1>5, <1>10, <1>11

\* The events that are left, when one is pushed.
LEMMA EventsTail ==
    ASSUME NEW b, Orders(b) \in Nat, NEW n \in Nat, NEW next \in Nat, NEW inc,
           NEW e \in Nat, e < Count(b, n, next)
    PROVE  LET s == EventsAfter(b, n, inc, next, e)
           IN  /\ s # <<>> /\ Len(s) = Count(b, n, next) - e
               /\ Head(s) = Event(b, n, inc, e + 1)
               /\ Tail(s) = EventsAfter(b, n, inc, next, e + 1)
  <1> DEFINE L == Count(b, n, next)
             s == EventsAfter(b, n, inc, next, e)
             E == {Event(b, n, inc, e + k) : k \in 1 .. L - e}
  <1>1. L \in Int
    BY DEF Count
  <1> HIDE DEF L
  <1>2. s = [k \in 1 .. L - e |-> Event(b, n, inc, e + k)]
    BY DEF EventsAfter, L
  <1>3. L - e \in Nat /\ L - e >= 1 /\ e < L
    BY <1>1 DEF L
  <1>13. \A k \in 1 .. L - e : Event(b, n, inc, e + k) \in E
    OBVIOUS
  <1> HIDE DEF E
  <1>4. s \in Seq(E) /\ Len(s) = L - e /\ DOMAIN s = 1 .. L - e
    BY <1>2, <1>3, <1>13
  <1>5. 1 \in DOMAIN s
    BY <1>3, <1>4
  <1>6. s # <<>>
    BY <1>5
  <1>7. Head(s) = s[1] /\ s[1] = Event(b, n, inc, e + 1)
    BY <1>2, <1>3, <1>4, <1>6
  <1>8. L - (e + 1) = Len(s) - 1
    BY <1>1, <1>4
  <1> HIDE DEF s
  <1>9. Tail(s) = [k \in 1 .. L - (e + 1) |-> s[k + 1]]
    BY <1>4, <1>6, <1>8, TailIs
  <1>10. \A k \in 1 .. L - (e + 1) : s[k + 1] = Event(b, n, inc, (e + 1) + k)
    <2> TAKE k \in 1 .. L - (e + 1)
    <2>1. k + 1 \in 1 .. L - e /\ e + (k + 1) = (e + 1) + k
      BY <1>1
    <2>2. s[k + 1] = Event(b, n, inc, e + (k + 1))
      BY <1>2, <2>1
    <2> QED BY <2>1, <2>2
  <1>11. Tail(s) = EventsAfter(b, n, inc, next, e + 1)
    BY <1>9, <1>10 DEF EventsAfter, L
  <1> QED BY <1>4, <1>6, <1>7, <1>11 DEF s, L

\* An event is pushed; the last one leaves the consumer with the exchange's
\* book after all the updates it has counted.
LEMMA PushStep ==
    ASSUME ExchangeInv, IncInv, FinalInv, SyncInv, PushEvent,
           NEW n \in Nat, NEW a \in Nat, StreamAt(n, a)
    PROVE  StreamAt(n, a)' /\ IncInv' /\ FinalInv' /\ SyncInv'
  <1>1. /\ final_events # <<>>
        /\ client_book' = Applied(client_book, Head(final_events))
        /\ final_events' = Tail(final_events)
        /\ UNCHANGED <<exchangeVars, snapshot_net, inbound_data_, next_exp_inc_seq_num_>>
    BY DEF PushEvent
  <1>2. UNCHANGED <<books, next_id, next_inc_seq_num_, last_inc_seq_num_>>
    BY <1>1 DEF exchangeVars
  <1>3. PICK m \in 0 .. last_inc_seq_num_ : \E e \in Nat : FinalAt(m, e)
    BY <1>1 DEF FinalInv
  <1>4. PICK e \in Nat : FinalAt(m, e)
    BY <1>3
  <1> DEFINE b == books[m + 1]
             inc == incremental_queued_msgs_
             next == next_exp_inc_seq_num_
             L == Count(b, m, next)
  <1>5. /\ last_inc_seq_num_ \in Nat /\ Orders(b) \in Nat /\ m \in Nat
        /\ next \in 1 .. next_inc_seq_num_ /\ next_inc_seq_num_ \in Nat
    BY SnapshotBooks DEF SyncInv
  <1>6. /\ e \in 0 .. L - 1 /\ final_events = EventsAfter(b, m, inc, next, e) /\ next > m
        /\ \A k \in m + 1 .. next - 1 : k \in DOMAIN inc
    BY <1>4 DEF FinalAt
  <1>7. L \in Int /\ e < L /\ next \in Nat
    BY <1>5, <1>6 DEF Count
  <1> HIDE DEF L
  <1>8. /\ Len(final_events) = L - e
        /\ Head(final_events) = Event(b, m, inc, e + 1)
        /\ Tail(final_events) = EventsAfter(b, m, inc, next, e + 1)
    BY <1>5, <1>6, <1>7, EventsTail DEF L
  <1>9. /\ client_book' = BookAfter(m, e + 1) /\ IsBook(BookAfter(m, e + 1), next_id)
        /\ e + 1 = L => BookAfter(m, e + 1) = books[next]
    BY <1>1, <1>4, <1>5, <1>8, EventApplied DEF L
  <1>10. in_recovery_
    BY <1>1 DEF IncInv
  <1>11. CASE Len(final_events) > 1
    <2>1. UNCHANGED <<in_recovery_, snapshot_queued_msgs_, incremental_queued_msgs_, synced>>
      BY <1>11, <1>7, <1>8 DEF PushEvent
    <2>2. /\ e + 1 \in 0 .. L - 1 /\ e + 1 \in Nat /\ e + 1 # L
          /\ e + 1 \in 0 .. L
      BY <1>7, <1>8, <1>11
    <2>3. final_events' # <<>>
      <3>1. EventsAfter(b, m, inc, next, e + 1) = <<>> <=> e + 1 = Count(b, m, next)
        BY <1>5, <1>7, <2>2, EventsNotEmpty DEF L
      <3> QED BY <1>1, <1>8, <2>2, <3>1 DEF L
    <2>4. StreamAt(n, a)'
      BY <1>1, <1>2, <1>5, <2>1, <2>3, StreamKeeps
    <2>5. IncInv'
      BY <1>1, <1>2, <1>10, <2>1 DEF IncInv, IsUpdate
    <2>6. FinalInv'
      <3>1. FinalAt(m, e + 1)'
        <4> DEFINE f == e + 1
        <4>1. f \in Nat /\ f >= 1
          OBVIOUS
        <4>2. /\ client_book' = BookAfter(m, f) /\ f \in 0 .. L - 1
              /\ final_events' = EventsAfter(b, m, inc, next, f)
          BY <1>1, <1>8, <1>9, <2>2
        <4> HIDE DEF f
        <4>3. /\ f \in 1 .. Orders(b) + 1 => client_book' = FirstOrders(b, f - 1)
              /\ f > Orders(b) + 1 => client_book' = books[m + f - Orders(b)]
          BY <1>5, <4>1, <4>2 DEF BookAfter
        <4>4. FinalAt(m, f)'
          BY <1>1, <1>2, <1>6, <2>1, <4>2, <4>3 DEF FinalAt, L
        <4> QED BY <4>4 DEF f
      <3> QED BY <1>2, <2>2, <3>1 DEF FinalInv
    <2>7. SyncInv'
      <3>1. IsBook(client_book', next_id')
        BY <1>2, <1>9
      <3> QED BY <1>1, <1>2, <1>10, <2>1, <2>3, <3>1 DEF SyncInv, SyncedBookIsExact
    <2> QED BY <2>4, <2>5, <2>6, <2>7
  <1>12. CASE Len(final_events) = 1
    <2>1. /\ in_recovery_' = FALSE /\ synced' = next - 1
          /\ snapshot_queued_msgs_' = <<>> /\ incremental_queued_msgs_' = <<>>
      BY <1>12 DEF PushEvent
    <2>13. L - e = 1
      BY <1>8, <1>12
    <2>14. e + 1 = L
      BY ONLY <2>13, <1>7, e \in Nat
    <2>2. e + 1 = L /\ e + 1 \in 0 .. L
      BY <2>14, <1>7
    <2>3. final_events' = <<>>
      BY <1>1, <1>5, <1>7, <1>8, <2>2, EventsNotEmpty DEF L
    <2>4. n \in 0 .. last_inc_seq_num_ /\ a \in 1 .. Size(books[n + 1])
      BY DEF StreamAt
    <2>5. a = Size(books[n + 1]) /\ inbound_data_ = RestOfFirst(books[n + 1], n, a)
      BY <1>1 DEF StreamAt
    <2>6. inbound_data_ = <<>>
      BY <2>4, <2>5, SnapshotBooks, RestTail
    <2>7. StreamAt(n, a)'
      BY <1>1, <1>2, <2>1, <2>3 DEF StreamAt
    <2>8. IncInv'
      BY <1>1, <2>1, <2>3, <2>6, EmptyBook DEF IncInv
    <2>9. FinalInv'
      BY <2>3 DEF FinalInv
    <2>10. SyncInv'
      <3>1. IsBook(client_book', next_id')
        BY <1>2, <1>9
      <3>2. client_book' = books[next] /\ (next - 1) + 1 = next /\ next - 1 \in 0 .. next_inc_seq_num_ - 1
        BY <1>5, <1>9, <2>2
      <3>3. client_book' = books'[synced' + 1]
        BY <1>2, <2>1, <3>2
      <3> QED BY <1>1, <1>2, <1>5, <2>1, <3>1, <3>2, <3>3 DEF SyncInv, SyncedBookIsExact
    <2> QED BY <2>7, <2>8, <2>9, <2>10
  <1> QED BY <1>7, <1>8, <1>11, <1>12

\* Every step keeps the invariant when snapshot datagrams get through to a
\* consumer that has joined their stream.
LEMMA NextInv ==
    ASSUME ~SnapshotLoss, IInv, [Next]_vars
    PROVE  IInv'
  <1> USE DEF IInv
  <1>1. ExchangeInv' /\ Grows
    BY ExchangeGrows
  <1>2. PICK n \in Nat, a \in Nat : StreamAt(n, a)
    BY DEF StreamInv
  <1>3. /\ \A m \in 0 .. last_inc_seq_num_ : books'[m + 1] = books[m + 1]
        /\ last_inc_seq_num_ \in Nat /\ last_inc_seq_num_' \in Nat
        /\ last_inc_seq_num_' >= last_inc_seq_num_
    BY <1>1, UpdatesLater DEF Grows, ExchangeInv, SynthInv
  <1>4. UNCHANGED consumerVars => IncInv' /\ FinalInv' /\ SyncInv'
    BY <1>1, ConsumerKeeps
  <1>5. UNCHANGED <<consumerVars, snapshot_net>> => StreamAt(n, a)'
    BY <1>2, <1>3, StreamKeeps DEF consumerVars
  <1>6. CASE UNCHANGED <<consumerVars, snapshot_net>>
    <2>1. UNCHANGED consumerVars
      BY <1>6
    <2> QED BY <1>1, <1>4, <1>5, <1>6, <2>1 DEF StreamInv
  <1>7. CASE PublishSnapshot
    <2>1. UNCHANGED consumerVars
      BY <1>7 DEF PublishSnapshot
    <2>2. StreamAt(n, a)'
      BY <1>2, <1>7, PublishStream
    <2> QED BY <1>1, <1>4, <2>1, <2>2 DEF StreamInv
  <1>8. CASE LoseSnapshot
    <2>1. UNCHANGED consumerVars
      BY <1>8 DEF LoseSnapshot
    <2>2. \E m, c \in Nat : m >= n /\ StreamAt(m, c)'
      BY <1>2, <1>8, LoseStream
    <2> QED BY <1>1, <1>4, <2>1, <2>2 DEF StreamInv
  <1>9. CASE RecvIncremental
    <2>1. StreamAt(n, a)' /\ IncInv' /\ FinalInv' /\ SyncInv'
      BY <1>2, <1>9, IncrementalStep
    <2> QED BY <1>1, <2>1 DEF StreamInv
  <1>10. CASE RecvSnapshot \/ RecvSnapshotMore
    <2>1. PICK m \in Nat, c \in Nat : /\ m \in n .. last_inc_seq_num_
                                      /\ c \in 1 .. Size(books[m + 1])
                                      /\ Outcome(books[m + 1], m, c)
                                      /\ StreamAt(m, c)'
      BY <1>2, <1>10, ReadSnapshot
    <2>2. m \in 0 .. last_inc_seq_num_
      BY <1>3, <2>1
    <2>3. IncInv' /\ FinalInv' /\ SyncInv'
      BY <1>10, <2>1, <2>2, SnapshotStep
    <2> QED BY <1>1, <2>1, <2>3 DEF StreamInv
  <1>11. CASE PushEvent
    <2>1. StreamAt(n, a)' /\ IncInv' /\ FinalInv' /\ SyncInv'
      BY <1>2, <1>11, PushStep
    <2> QED BY <1>1, <2>1 DEF StreamInv
  <1>12. \/ UNCHANGED <<consumerVars, snapshot_net>> \/ PublishSnapshot \/ LoseSnapshot
         \/ RecvIncremental \/ RecvSnapshot \/ RecvSnapshotMore \/ PushEvent
    BY DEF Next, Consumer, vars, EngineStep, Publish, AddToSnapshot, LoseIncremental
  <1> QED BY <1>6, <1>7, <1>8, <1>9, <1>10, <1>11, <1>12

\* The invariant of the whole feed.
THEOREM Invariant == ASSUME ~SnapshotLoss PROVE Spec => []IInv
  <1>1. Init => IInv
    BY InitInv
  <1>2. IInv /\ [Next]_vars => IInv'
    BY NextInv
  <1> QED BY <1>1, <1>2, PTL DEF Spec

\* Whatever was lost, delayed, repeated or reordered on the incremental
\* stream, the events that RecvCallback and CheckSnapshotSync have pushed to
\* the trading engine describe the exchange's book after exactly the updates
\* the client is synchronized to, provided that no datagram of a snapshot is
\* lost while the consumer reads that stream.
THEOREM SyncedIsExact == ASSUME ~SnapshotLoss PROVE Spec => []SyncedBookIsExact
  <1>1. IInv => SyncedBookIsExact
    BY DEF IInv, SyncInv
  <1> QED BY <1>1, Invariant, PTL

\* The messages that are left in a snapshot datagram have the type of their
\* messages.
LEMMA InboundType ==
    ASSUME ExchangeInv, NEW n \in Nat, NEW a \in Nat, StreamAt(n, a)
    PROVE  \A k \in 1 .. Len(inbound_data_) : inbound_data_[k] \in MDPMarketUpdate
  <1> DEFINE b == books[n + 1]
  <1>1. n \in 0 .. last_inc_seq_num_ /\ a \in 1 .. Size(b) /\ inbound_data_ = RestOfFirst(b, n, a)
    BY DEF StreamAt
  <1>2. IsBook(b, next_id) /\ next_id \in Nat /\ Size(b) \in Nat /\ Size(b) >= 3
    BY <1>1, SnapshotBooks
  <1> HIDE DEF b
  <1>3. CASE a >= 3
    <2>1. RestOfFirst(b, n, a) = <<>>
      BY <1>1, <1>2, <1>3, RestTail
    <2> QED BY <1>1, <2>1
  <1>4. CASE a < 3
    <2>1. 3 - a \in Nat /\ inbound_data_ = [k \in 1 .. 3 - a |-> Msg(b, n, a + k)]
      BY <1>1, <1>2, <1>4 DEF RestOfFirst
    <2>2. ASSUME NEW k \in 1 .. 3 - a PROVE Msg(b, n, a + k) \in MDPMarketUpdate
      <3>1. a + k \in 1 .. Size(b)
        BY <1>1, <1>2, <1>4
      <3> QED BY <1>2, <3>1, SnapshotTypes
    <2>3. Len(inbound_data_) = 3 - a
      BY <2>1, <2>2
    <2> QED BY <2>1, <2>2, <2>3
  <1> QED BY <1>1, <1>2, <1>3, <1>4

\* Every sequence number, queue and book of publisher, synthesizer and
\* consumer stays in its range, and a datagram ends with the message that
\* ends the recovery.
THEOREM TypeCorrect == ASSUME ~SnapshotLoss PROVE Spec => []TypeOK
  <1>1. IInv => TypeOK
    <2> SUFFICES ASSUME IInv PROVE TypeOK
      OBVIOUS
    <2> USE DEF IInv
    <2>1. PICK n \in Nat, a \in Nat : StreamAt(n, a)
      BY DEF StreamInv
    <2>2. \A k \in 1 .. Len(inbound_data_) : inbound_data_[k] \in MDPMarketUpdate
      BY <2>1, InboundType
    <2>3. /\ \A k \in 1 .. Len(snapshot_md_updates_) : snapshot_md_updates_[k] \in MDPMarketUpdate
          /\ \A k \in 1 .. Len(incremental_net) : incremental_net[k] \in MDPMarketUpdate
      BY DEF ExchangeInv, SynthInv, NetInv
    <2>4. \A q \in {snapshot_md_updates_, incremental_net, inbound_data_} :
              \A k \in 1 .. Len(q) : q[k] \in MDPMarketUpdate
      BY <2>2, <2>3
    <2>5. /\ Len(books) \in Nat \ {0} /\ next_inc_seq_num_ \in 1 .. Len(books)
          /\ last_inc_seq_num_ \in 0 .. next_inc_seq_num_ - 1 /\ next_id \in Nat
          /\ \A k \in 1 .. Len(books) : IsBook(books[k], next_id)
      BY ExchangeCounts
    <2>6. IsBook(ticker_orders_, next_id) /\ IsBook(client_book, next_id)
      <3>1. last_inc_seq_num_ + 1 \in 1 .. Len(books)
        BY <2>5
      <3>2. ticker_orders_ = books[last_inc_seq_num_ + 1]
        BY DEF ExchangeInv, SynthInv
      <3>3. IsBook(client_book, next_id)
        BY DEF SyncInv
      <3> QED BY <2>5, <3>1, <3>2, <3>3
    <2>7. \A b \in {books[k] : k \in 1 .. Len(books)} \cup {ticker_orders_, client_book} :
              IsBook(b, next_id)
      BY <2>5, <2>6
    <2>8. network \in Networks /\ Len(books) \in 1 .. MaxUpdates[network] + 1
      BY DEF ExchangeInv, BooksInv
    <2>9. /\ next_exp_inc_seq_num_ \in 1 .. next_inc_seq_num_
          /\ synced \in 0 .. next_inc_seq_num_ - 1
      BY DEF SyncInv
    <2>10. /\ in_recovery_ \in BOOLEAN
           /\ DOMAIN incremental_queued_msgs_ \subseteq 1 .. next_inc_seq_num_ - 1
           /\ inbound_data_ # <<>> => in_recovery_
      BY DEF IncInv
    <2> QED BY <2>4, <2>5, <2>7, <2>8, <2>9, <2>10 DEF TypeOK, IsBook
  <1> QED BY <1>1, Invariant, PTL

-----------------------------------------------------------------------------
(* The client's book never goes back.                                      *)

\* Numbers and types the argument uses.
LEMMA TimeTypes ==
    ASSUME IInv
    PROVE  /\ next_inc_seq_num_ \in Nat /\ synced \in Nat /\ Target \in Nat
           /\ next_exp_inc_seq_num_ \in Nat \ {0}
           /\ Target < next_inc_seq_num_
           /\ incremental_net \in Seq(MDPMarketUpdate)
           /\ \A k \in 1 .. Len(incremental_net) :
                  /\ incremental_net[k].seq_num_ \in Nat
                  /\ incremental_net[k].seq_num_ < next_inc_seq_num_
           /\ \A k \in DOMAIN incremental_queued_msgs_ : k \in Nat /\ k < next_inc_seq_num_
  <1> USE DEF IInv
  <1>1. next_inc_seq_num_ \in Nat
    BY ExchangeCounts
  <1>2. /\ next_exp_inc_seq_num_ \in 1 .. next_inc_seq_num_
        /\ synced \in 0 .. next_inc_seq_num_ - 1
    BY DEF SyncInv
  <1>3. Target \in Nat /\ Target < next_inc_seq_num_
    BY <1>1, <1>2 DEF Target
  <1>4. /\ incremental_net \in Seq(MDPMarketUpdate)
        /\ \A k \in 1 .. Len(incremental_net) :
               incremental_net[k].seq_num_ \in 1 .. next_inc_seq_num_ - 1
    BY DEF ExchangeInv, NetInv, Numbered
  <1>5. DOMAIN incremental_queued_msgs_ \subseteq 1 .. next_inc_seq_num_ - 1
    BY DEF IncInv
  <1> QED BY <1>1, <1>2, <1>3, <1>4, <1>5

\* What is left of the network when a datagram is read or lost.
LEMMA NetRemoved ==
    ASSUME IInv, NetOrdered, NEW k \in 1 .. Len(incremental_net),
           incremental_net' = RemovedAt(incremental_net, k)
    PROVE  /\ NetOrdered'
           /\ \A n \in Nat : NetAfter(n) => NetAfter(n)'
           /\ k = 1 => \A n \in Nat : n = incremental_net[1].seq_num_ => NetAfter(n)'
  <1> DEFINE s == incremental_net
             t == RemovedAt(incremental_net, k)
  <1>1. /\ s \in Seq(MDPMarketUpdate)
        /\ \A i \in 1 .. Len(s) : s[i].seq_num_ \in Nat
    BY TimeTypes
  <1>2. /\ t \in Seq(MDPMarketUpdate) /\ Len(t) = Len(s) - 1
        /\ \A i \in 1 .. Len(s) - 1 : t[i] = IF i < k THEN s[i] ELSE s[i + 1]
    BY <1>1, Removed
  <1>3. s' = t /\ Len(s) \in Nat
    BY <1>1
  <1> HIDE DEF t
  <1>4. ASSUME NEW i \in 1 .. Len(s)', NEW j \in 1 .. Len(s)', i < j
        PROVE  s'[i].seq_num_ < s'[j].seq_num_
    <2> DEFINE i1 == IF i < k THEN i ELSE i + 1
               j1 == IF j < k THEN j ELSE j + 1
    <2>1. i1 \in 1 .. Len(s) /\ j1 \in 1 .. Len(s) /\ i1 < j1
      BY <1>2, <1>3, <1>4
    <2>2. s'[i] = s[i1] /\ s'[j] = s[j1]
      BY <1>2, <1>3
    <2> HIDE DEF i1, j1
    <2> QED BY <2>1, <2>2 DEF NetOrdered
  <1>5. ASSUME NEW n \in Nat, NetAfter(n)
        PROVE  NetAfter(n)'
    <2> SUFFICES ASSUME NEW i \in 1 .. Len(s)' PROVE s'[i].seq_num_ > n
      BY DEF NetAfter
    <2> DEFINE i1 == IF i < k THEN i ELSE i + 1
    <2>1. i1 \in 1 .. Len(s) /\ s'[i] = s[i1]
      BY <1>2, <1>3
    <2> HIDE DEF i1
    <2> QED BY <1>5, <2>1 DEF NetAfter
  <1>6. ASSUME k = 1, NEW n \in Nat, n = s[1].seq_num_
        PROVE  NetAfter(n)'
    <2> SUFFICES ASSUME NEW i \in 1 .. Len(s)' PROVE s'[i].seq_num_ > n
      BY DEF NetAfter
    <2>1. i + 1 \in 1 .. Len(s) /\ s'[i] = s[i + 1] /\ 1 \in 1 .. Len(s) /\ 1 < i + 1
      BY <1>2, <1>3, <1>6
    <2>2. s[1].seq_num_ < s[i + 1].seq_num_
      BY <2>1 DEF NetOrdered
    <2> QED BY <1>1, <1>6, <2>1, <2>2
  <1> QED BY <1>4, <1>5, <1>6 DEF NetOrdered

\* A new datagram carries the largest number.
LEMMA NetPublished ==
    ASSUME IInv, NetOrdered, Publish
    PROVE  /\ NetOrdered'
           /\ \A n \in Nat : n < next_inc_seq_num_ /\ NetAfter(n) => NetAfter(n)'
  <1> DEFINE s == incremental_net
             m == [seq_num_ |-> next_inc_seq_num_, update |-> Head(outgoing_md_updates_)]
  <1>1. /\ s \in Seq(MDPMarketUpdate) /\ next_inc_seq_num_ \in Nat
        /\ \A i \in 1 .. Len(s) : s[i].seq_num_ \in Nat /\ s[i].seq_num_ < next_inc_seq_num_
    BY TimeTypes
  <1>2. s' = Append(s, m) /\ m.seq_num_ = next_inc_seq_num_
    BY DEF Publish
  <1> HIDE DEF m
  <1>3. /\ Len(s') = Len(s) + 1 /\ Len(s) \in Nat
        /\ \A i \in 1 .. Len(s) : s'[i] = s[i]
        /\ s'[Len(s) + 1] = m
    BY <1>1, <1>2
  <1>4. ASSUME NEW i \in 1 .. Len(s)', NEW j \in 1 .. Len(s)', i < j
        PROVE  s'[i].seq_num_ < s'[j].seq_num_
    <2>1. i \in 1 .. Len(s) /\ s'[i] = s[i]
      BY <1>3, <1>4
    <2>2. CASE j \in 1 .. Len(s)
      BY <1>3, <1>4, <2>1, <2>2 DEF NetOrdered
    <2>3. CASE j = Len(s) + 1
      BY <1>1, <1>2, <1>3, <2>1, <2>3
    <2> QED BY <1>3, <2>2, <2>3
  <1>5. ASSUME NEW n \in Nat, n < next_inc_seq_num_, NetAfter(n), NEW i \in 1 .. Len(s)'
        PROVE  s'[i].seq_num_ > n
    <2>1. CASE i \in 1 .. Len(s)
      BY <1>3, <1>5, <2>1 DEF NetAfter
    <2>2. CASE i = Len(s) + 1
      BY <1>1, <1>2, <1>3, <1>5, <2>2
    <2> QED BY <1>3, <2>1, <2>2
  <1> QED BY <1>4, <1>5 DEF NetOrdered, NetAfter

\* Steps that leave the consumer alone.
LEMMA TimeKeeps ==
    ASSUME ~SnapshotLoss, IInv, [Next]_vars, UNCHANGED consumerVars,
           network = "ordered", TimeInv
    PROVE  TimeInv'
  <1> USE DEF IInv
  <1>1. PICK T \in Nat : T = Target
    BY TimeTypes
  <1>2. /\ NetOrdered /\ NetAfterQueued /\ Ahead(T) /\ T >= synced
        /\ in_recovery_ => DOMAIN incremental_queued_msgs_ # {}
    BY <1>1 DEF TimeInv
  <1>3. UNCHANGED <<inbound_data_, next_exp_inc_seq_num_, in_recovery_,
                    snapshot_queued_msgs_, incremental_queued_msgs_, final_events,
                    client_book, synced>>
    BY DEF consumerVars
  <1>4. Target' = T
    BY <1>1, <1>3 DEF Target
  <1>5. /\ next_inc_seq_num_ \in Nat /\ T < next_inc_seq_num_
        /\ \A k \in DOMAIN incremental_queued_msgs_ : k \in Nat /\ k < next_inc_seq_num_
    BY <1>1, TimeTypes
  <1>6. \/ UNCHANGED incremental_net
        \/ Publish
        \/ \E k \in 1 .. Len(incremental_net) :
               incremental_net' = RemovedAt(incremental_net, k)
    <2>1. RecvIncremental => \E k \in 1 .. Len(incremental_net) :
                                 incremental_net' = RemovedAt(incremental_net, k)
      BY DEF RecvIncremental
    <2> QED BY <2>1 DEF Next, Consumer, vars, EngineStep, AddToSnapshot, PublishSnapshot,
               RecvSnapshot, RecvSnapshotMore, PushEvent, LoseIncremental, LoseSnapshot
  <1>7. /\ NetOrdered'
        /\ \A n \in Nat : n < next_inc_seq_num_ /\ NetAfter(n) => NetAfter(n)'
    <2>1. CASE UNCHANGED incremental_net
      BY <1>2, <2>1 DEF NetOrdered, NetAfter
    <2>2. CASE Publish
      BY <1>2, <2>2, NetPublished
    <2>3. CASE \E k \in 1 .. Len(incremental_net) :
                   incremental_net' = RemovedAt(incremental_net, k)
      BY <1>2, <2>3, NetRemoved
    <2> QED BY <1>6, <2>1, <2>2, <2>3
  <1>8. NetAfterQueued'
    BY <1>2, <1>3, <1>5, <1>7 DEF NetAfterQueued
  <1>9. Ahead(T)'
    <2>1. CASE \E m, a \in Nat : m >= T /\ StreamAt(m, a)
      <3>1. PICK m \in Nat, a \in Nat : m >= T /\ StreamAt(m, a)
        BY <2>1
      <3>2. PICK l \in Nat, c \in Nat : l >= m /\ StreamAt(l, c)'
        <4>1. CASE LoseSnapshot
          BY <3>1, <4>1, LoseStream
        <4>2. CASE PublishSnapshot
          BY <3>1, <4>2, PublishStream
        <4>3. CASE UNCHANGED snapshot_net
          <5>1. ExchangeInv' /\ Grows
            BY ExchangeGrows
          <5>2. /\ \A i \in 0 .. last_inc_seq_num_ : books'[i + 1] = books[i + 1]
                /\ last_inc_seq_num_ \in Nat /\ last_inc_seq_num_' \in Nat
                /\ last_inc_seq_num_' >= last_inc_seq_num_
            BY <5>1, UpdatesLater DEF Grows, ExchangeInv, SynthInv
          <5>3. StreamAt(m, a)'
            BY <1>3, <3>1, <4>3, <5>2, StreamKeeps
          <5> QED BY <5>3
        <4>4. CASE RecvSnapshot
          <5>1. PICK l \in Nat, c \in Nat : l \in m .. last_inc_seq_num_ /\ StreamAt(l, c)'
            BY <3>1, <4>4, ReadSnapshot
          <5> QED BY <5>1, SnapshotBooks
        <4> QED BY <4>1, <4>2, <4>3, <4>4 DEF Next, Consumer, vars, EngineStep, Publish,
                   AddToSnapshot, RecvIncremental, RecvSnapshotMore, PushEvent, LoseIncremental
      <3>3. l >= T
        BY <3>1, <3>2
      <3> QED BY <3>2, <3>3 DEF Ahead
    <2>2. CASE NetAfter(T) /\ (final_events = <<>> => QueuedAfter(T))
      BY <1>3, <1>5, <1>7, <2>2 DEF Ahead, QueuedAfter
    <2> QED BY <1>2, <2>1, <2>2 DEF Ahead
  <1>10. Ahead(Target)'
    BY <1>4, <1>9 DEF Ahead, NetAfter, QueuedAfter
  <1> QED BY <1>1, <1>2, <1>3, <1>4, <1>7, <1>8, <1>10 DEF TimeInv

\* An incremental update is the next one, or is queued before all that come.
LEMMA TimeIncremental ==
    ASSUME ~SnapshotLoss, IInv, RecvIncremental, network = "ordered", TimeInv
    PROVE  TimeInv' /\ synced' >= synced
  <1> USE DEF IInv
  <1> DEFINE m == incremental_net[1]
             s == m.seq_num_
  <1>1. /\ final_events = <<>> /\ synced \in Nat
        /\ NetOrdered /\ NetAfterQueued /\ Ahead(synced)
    BY TimeTypes DEF RecvIncremental, Idle, TimeInv, Target
  <1>2. /\ ProcessIncremental(m) /\ 1 \in 1 .. Len(incremental_net)
        /\ incremental_net' = RemovedAt(incremental_net, 1)
    BY DEF RecvIncremental
  <1>6. PICK q \in Nat : q = s
    BY <1>2, TimeTypes
  <1>3. /\ s \in Nat /\ NetOrdered' /\ NetAfter(q)'
        /\ \A n \in Nat : NetAfter(n) => NetAfter(n)'
    BY <1>1, <1>2, <1>6, NetRemoved
  <1>4. CASE ~in_recovery_ /\ s = next_exp_inc_seq_num_
    <2>1. /\ synced' = s
          /\ UNCHANGED <<in_recovery_, incremental_queued_msgs_, final_events>>
      BY <1>2, <1>4 DEF ProcessIncremental
    <2>2. incremental_queued_msgs_ = <<>> /\ synced = s - 1
      BY <1>4 DEF IncInv, SyncInv, SyncedBookIsExact
    <2>3. synced' >= synced
      BY <1>3, <2>1, <2>2
    <2> HIDE DEF s
    <2>4. PICK T \in Nat : T = s /\ T = q
      BY <1>6
    <2>5. Ahead(T)'
      BY <1>3, <2>1, <2>2, <2>4, EmptyBook DEF Ahead, QueuedAfter
    <2>6. Target' = T /\ synced' = T
      BY <1>1, <2>1, <2>4 DEF Target
    <2>7. Ahead(Target)'
      BY <2>5, <2>6 DEF Ahead, NetAfter, QueuedAfter
    <2>8. NetAfterQueued'
      BY <2>1, <2>2, EmptyBook DEF NetAfterQueued
    <2> QED BY <1>3, <1>4, <2>1, <2>3, <2>6, <2>7, <2>8 DEF TimeInv
  <1>5. CASE in_recovery_ \/ s # next_exp_inc_seq_num_
    <2>1. QueueMessage(FALSE, m) /\ in_recovery_' = TRUE /\ UNCHANGED synced
      BY <1>2, <1>5 DEF ProcessIncremental
    <2>2. PICK n \in Nat, a \in Nat : StreamAt(n, a)
      BY DEF StreamInv
    <2>3. /\ incremental_queued_msgs_' = With(incremental_queued_msgs_, s, m.update)
          /\ final_events' = final_events
      BY <1>1, <2>1, <2>2, IncrementalQueued
    <2>4. DOMAIN incremental_queued_msgs_' = DOMAIN incremental_queued_msgs_ \cup {s}
      BY <2>3 DEF With
    <2>5. PICK T \in Nat : T = synced
      BY <1>1
    <2>6. Target' = T /\ synced' = T
      BY <1>1, <2>1, <2>3, <2>5 DEF Target
    <2> HIDE DEF s, m
    <2>7. NetAfterQueued'
      <3>1. \A i \in DOMAIN incremental_queued_msgs_ : NetAfter(i)'
        BY <1>1, <1>3, TimeTypes DEF NetAfterQueued
      <3> QED BY <1>3, <1>6, <2>4, <3>1 DEF NetAfterQueued
    <2>8. Ahead(T)'
      <3>1. CASE \E i, c \in Nat : i >= T /\ StreamAt(i, c)
        <4>1. PICK i \in Nat, c \in Nat : i >= T /\ StreamAt(i, c)
          BY <3>1
        <4>2. StreamAt(i, c)'
          BY <4>1, IncrementalStep
        <4> QED BY <4>1, <4>2 DEF Ahead
      <3>2. CASE NetAfter(T) /\ (final_events = <<>> => QueuedAfter(T))
        <4>1. s > T
          BY <1>2, <3>2 DEF NetAfter, s, m
        <4> QED BY <1>1, <1>3, <2>4, <3>2, <4>1 DEF Ahead, QueuedAfter
      <3> QED BY <1>1, <2>5, <3>1, <3>2 DEF Ahead
    <2>9. Ahead(Target)'
      BY <2>6, <2>8 DEF Ahead, NetAfter, QueuedAfter
    <2>10. DOMAIN incremental_queued_msgs_' # {}
      BY <2>4
    <2> QED BY <1>3, <2>1, <2>5, <2>6, <2>7, <2>9, <2>10 DEF TimeInv
  <1> QED BY <1>4, <1>5

\* A snapshot that completes a recovery brings the client forward: it is
\* later than the client's book itself, or an update that is queued is, and
\* there is no gap in front of that.
LEMMA TimeSnapshot ==
    ASSUME ~SnapshotLoss, IInv, RecvSnapshot \/ RecvSnapshotMore,
           network = "ordered", TimeInv
    PROVE  TimeInv'
  <1> USE DEF IInv
  <1> DEFINE inc == incremental_queued_msgs_
  <1>1. /\ final_events = <<>> /\ synced \in Nat /\ Target = synced
        /\ NetOrdered /\ NetAfterQueued /\ Ahead(synced)
    BY TimeTypes DEF RecvSnapshot, RecvSnapshotMore, Idle, TimeInv, Target
  <1>2. in_recovery_ /\ DOMAIN inc # {}
    BY DEF RecvSnapshot, RecvSnapshotMore, IncInv, TimeInv
  <1>3. UNCHANGED <<network, exchangeVars, incremental_net, in_recovery_, synced>>
    BY DEF RecvSnapshot, RecvSnapshotMore
  <1>4. PICK n \in Nat, a \in Nat :
            /\ StreamAt(n, a)
            /\ \/ n >= synced
               \/ NetAfter(synced) /\ QueuedAfter(synced)
    <2>1. CASE \E i, c \in Nat : i >= synced /\ StreamAt(i, c)
      BY <2>1
    <2>2. CASE NetAfter(synced) /\ QueuedAfter(synced)
      BY <2>2 DEF StreamInv
    <2> QED BY <1>1, <2>1, <2>2 DEF Ahead
  <1>5. PICK m \in Nat, c \in Nat : /\ m \in n .. last_inc_seq_num_
                                    /\ Outcome(books[m + 1], m, c)
                                    /\ StreamAt(m, c)'
    BY <1>4, ReadSnapshot
  <1>6. /\ inc' = inc /\ m >= n /\ m \in 0 .. last_inc_seq_num_
        /\ \A k \in DOMAIN inc : k \in Nat
    BY <1>5, SnapshotBooks, TimeTypes DEF Outcome
  <1>7. NetOrdered' /\ NetAfterQueued' /\ \A i : NetAfter(i) => NetAfter(i)'
    BY <1>1, <1>3, <1>6 DEF NetOrdered, NetAfterQueued, NetAfter
  <1>8. CASE final_events' = <<>>
    <2>1. PICK T \in Nat : T = synced
      BY <1>1
    <2>2. Target' = T /\ synced' = T
      BY <1>3, <1>8, <2>1 DEF Target
    <2>3. Ahead(T)'
      BY <1>4, <1>5, <1>6, <1>7, <2>1 DEF Ahead, QueuedAfter
    <2>4. Ahead(Target)'
      BY <2>2, <2>3 DEF Ahead, NetAfter, QueuedAfter
    <2> QED BY <1>2, <1>3, <1>6, <1>7, <2>2, <2>4 DEF TimeInv
  <1>9. CASE final_events' # <<>>
    <2> DEFINE next == NextMissing(inc, m + 1)
    <2>1. ~HasGap(inc, m + 1) /\ next_exp_inc_seq_num_' = next
      BY <1>5, <1>9 DEF Outcome
    <2>2. /\ next \in m + 1 .. next_inc_seq_num_ /\ next \notin DOMAIN inc
          /\ \A k \in m + 1 .. next - 1 : k \in DOMAIN inc
      BY <1>6, NextIsSent
    <2>3. \A k \in DOMAIN inc : ~(k > next)
      BY <2>1 DEF HasGap
    <2> HIDE DEF next
    <2>4. next \in Nat /\ next >= m + 1
      BY <2>2, SnapshotBooks
    <2>5. \A k \in DOMAIN inc : k < next
      BY <1>6, <2>2, <2>3, <2>4
    <2>6. PICK T \in Nat : T = next - 1
      BY <2>4
    <2>7. Target' = T
      BY <1>9, <2>1, <2>6 DEF Target
    <2>8. T >= synced
      <3>1. CASE n >= synced
        BY <1>1, <1>6, <2>4, <2>6, <3>1
      <3>2. CASE QueuedAfter(synced)
        <4>1. PICK k \in DOMAIN inc : TRUE
          BY <1>2
        <4>2. k > synced /\ k < next /\ k \in Nat
          BY <1>6, <2>5, <3>2 DEF QueuedAfter
        <4> QED BY <1>1, <2>4, <2>6, <4>2
      <3> QED BY <1>4, <3>1, <3>2
    <2>9. Ahead(T)'
      <3>1. CASE T = m
        BY <1>5, <3>1 DEF Ahead
      <3>2. CASE T # m
        <4>1. T \in m + 1 .. next - 1
          BY <2>4, <2>6, <3>2
        <4>2. NetAfter(T)
          BY <1>1, <2>2, <4>1 DEF NetAfterQueued
        <4> QED BY <1>7, <1>9, <4>2 DEF Ahead
      <3> QED BY <3>1, <3>2
    <2>10. Ahead(Target)'
      BY <2>7, <2>9 DEF Ahead, NetAfter, QueuedAfter
    <2> QED BY <1>2, <1>3, <1>6, <1>7, <2>7, <2>8, <2>10 DEF TimeInv
  <1> QED BY <1>8, <1>9

\* Pushing an event changes nothing but, at the end, that the client's book
\* is the one that was aimed at.
LEMMA TimePush ==
    ASSUME ~SnapshotLoss, IInv, PushEvent, network = "ordered", TimeInv
    PROVE  TimeInv' /\ synced' >= synced
  <1> USE DEF IInv
  <1>1. PICK T \in Nat : T = Target
    BY TimeTypes
  <1>2. /\ final_events # <<>> /\ T = next_exp_inc_seq_num_ - 1 /\ synced \in Nat
        /\ NetOrdered /\ NetAfterQueued /\ Ahead(T) /\ T >= synced
        /\ in_recovery_ => DOMAIN incremental_queued_msgs_ # {}
    BY <1>1, TimeTypes DEF PushEvent, TimeInv, Target
  <1>3. UNCHANGED <<network, incremental_net, next_exp_inc_seq_num_>>
    BY DEF PushEvent
  <1>4. \/ /\ final_events' # <<>>
           /\ UNCHANGED <<in_recovery_, incremental_queued_msgs_, synced>>
        \/ /\ final_events' = <<>> /\ in_recovery_' = FALSE
           /\ incremental_queued_msgs_' = <<>> /\ synced' = T
    <2>1. PICK m \in Nat, e \in Nat : FinalAt(m, e)
      BY <1>2, SnapshotBooks DEF FinalInv
    <2> DEFINE b == books[m + 1]
               L == Count(b, m, next_exp_inc_seq_num_)
    <2>2. /\ m \in 0 .. last_inc_seq_num_ /\ e \in 0 .. L - 1
          /\ final_events = EventsAfter(b, m, incremental_queued_msgs_,
                                        next_exp_inc_seq_num_, e)
      BY <2>1 DEF FinalAt
    <2>3. Orders(b) \in Nat /\ next_exp_inc_seq_num_ \in Nat
      BY <2>2, SnapshotBooks, TimeTypes
    <2>4. L \in Int /\ e < L
      BY <2>2, <2>3 DEF Count
    <2> HIDE DEF L
    <2>5. /\ Len(final_events) = L - e
          /\ Tail(final_events) = EventsAfter(b, m, incremental_queued_msgs_,
                                              next_exp_inc_seq_num_, e + 1)
      BY <2>2, <2>3, <2>4, EventsTail DEF L
    <2>6. e + 1 \in 0 .. L
      BY <2>4
    <2>7. Tail(final_events) = <<>> <=> e + 1 = L
      <3>1. e + 1 \in 0 .. Count(b, m, next_exp_inc_seq_num_)
        BY <2>6 DEF L
      <3>2. EventsAfter(b, m, incremental_queued_msgs_, next_exp_inc_seq_num_, e + 1) = <<>>
              <=> e + 1 = Count(b, m, next_exp_inc_seq_num_)
        BY <2>3, <3>1, EventsNotEmpty
      <3> QED BY <2>5, <3>2 DEF L
    <2>8. L - e = 1 <=> e + 1 = L
      BY ONLY <2>4, e \in Nat
    <2>9. CASE L - e = 1
      <3>1. Len(final_events) = 1 /\ ~(Len(final_events) > 1) /\ Tail(final_events) = <<>>
        BY <2>5, <2>7, <2>8, <2>9
      <3> QED BY <1>2, <3>1 DEF PushEvent
    <2>10. CASE L - e # 1
      <3>1. Len(final_events) # 1 /\ Tail(final_events) # <<>>
        BY <2>5, <2>7, <2>8, <2>10
      <3> QED BY <3>1 DEF PushEvent
    <2> QED BY <2>9, <2>10
  <1>5. NetOrdered' /\ NetAfterQueued' /\ \A i : NetAfter(i) => NetAfter(i)'
    BY <1>2, <1>3, <1>4, EmptyBook DEF NetOrdered, NetAfterQueued, NetAfter
  <1>6. Target' = T
    BY <1>2, <1>3, <1>4 DEF Target
  <1>7. Ahead(T)'
    <2>1. CASE \E i, c \in Nat : i >= T /\ StreamAt(i, c)
      <3>1. PICK i \in Nat, c \in Nat : i >= T /\ StreamAt(i, c)
        BY <2>1
      <3>2. StreamAt(i, c)'
        BY <3>1, PushStep
      <3> QED BY <3>1, <3>2 DEF Ahead
    <2>2. CASE NetAfter(T)
      <3>1. final_events' = <<>> => DOMAIN incremental_queued_msgs_' = {}
        BY <1>4, EmptyBook
      <3> QED BY <1>5, <2>2, <3>1 DEF Ahead, QueuedAfter
    <2> QED BY <1>2, <2>1, <2>2 DEF Ahead
  <1>8. Ahead(Target)'
    BY <1>6, <1>7 DEF Ahead, NetAfter, QueuedAfter
  <1>9. T >= synced' /\ synced' >= synced
    BY <1>2, <1>4
  <1>10. in_recovery_' => DOMAIN incremental_queued_msgs_' # {}
    BY <1>2, <1>4
  <1> QED BY <1>5, <1>6, <1>8, <1>9, <1>10 DEF TimeInv

\* At the start nothing is to come.
LEMMA TimeInit == Init => TimeInv
  <1> SUFFICES ASSUME Init PROVE TimeInv
    OBVIOUS
  <1>1. /\ NetOrdered /\ NetAfterQueued /\ in_recovery_ = FALSE
        /\ Target = 0 /\ synced = 0
    BY EmptyBook DEF Init, NetOrdered, NetAfterQueued, Target
  <1>2. Ahead(0)
    BY EmptyBook DEF Init, Ahead, NetAfter, QueuedAfter
  <1> QED BY <1>1, <1>2 DEF TimeInv

\* Every step keeps it, and no step takes the client back.
LEMMA TimeNext ==
    ASSUME ~SnapshotLoss, IInv, TimeInv, [Next]_vars
    PROVE  TimeInv' /\ (network = "ordered" => synced' >= synced)
  <1>1. network' = network
    BY DEF Next, Consumer, vars, EngineStep, Publish, AddToSnapshot, PublishSnapshot,
           RecvIncremental, RecvSnapshot, RecvSnapshotMore, PushEvent, LoseIncremental,
           LoseSnapshot
  <1>2. CASE network # "ordered"
    BY <1>1, <1>2 DEF TimeInv
  <1>3. CASE network = "ordered"
    <2>1. synced \in Nat
      BY TimeTypes
    <2>2. CASE UNCHANGED consumerVars
      <3>1. TimeInv'
        BY <1>3, <2>2, TimeKeeps
      <3> QED BY <2>1, <2>2, <3>1 DEF consumerVars
    <2>3. CASE RecvIncremental
      BY <1>3, <2>3, TimeIncremental
    <2>4. CASE RecvSnapshot \/ RecvSnapshotMore
      <3>1. TimeInv' /\ UNCHANGED synced
        BY <1>3, <2>4, TimeSnapshot DEF RecvSnapshot, RecvSnapshotMore
      <3> QED BY <2>1, <3>1
    <2>5. CASE PushEvent
      BY <1>3, <2>5, TimePush
    <2>6. \/ UNCHANGED consumerVars \/ RecvIncremental
          \/ RecvSnapshot \/ RecvSnapshotMore \/ PushEvent
      BY DEF Next, Consumer, vars, EngineStep, Publish, AddToSnapshot, PublishSnapshot,
             LoseIncremental, LoseSnapshot
    <2> QED BY <2>2, <2>3, <2>4, <2>5, <2>6
  <1> QED BY <1>2, <1>3

\* While datagrams keep their order, whatever is lost of the incremental
\* stream and however many recoveries CheckSnapshotSync runs or abandons, a
\* client is never set back to an older book than one it was synchronized to.
THEOREM NeverBack == ASSUME ~SnapshotLoss PROVE Spec => NeverGoesBack
  <1>1. Init => TimeInv
    BY TimeInit
  <1>2. IInv /\ TimeInv /\ [Next]_vars => TimeInv'
    BY TimeNext
  <1>3. IInv /\ TimeInv /\ [Next]_vars => [network = "ordered" => synced' >= synced]_vars
    BY TimeNext
  <1> QED BY <1>1, <1>2, <1>3, Invariant, PTL DEF Spec, NeverGoesBack
=============================================================================
