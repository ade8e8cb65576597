---------------------------- MODULE MarketDataFeed ----------------------------
(***************************************************************************)
(* Market data from the matching engine to a trading client:               *)
(* MarketDataPublisher numbers the engine's updates, multicasts them and   *)
(* passes them to SnapshotSynthesizer, which keeps a copy of the book and  *)
(* multicasts it now and then; MarketDataConsumer follows the incremental  *)
(* stream and, when it sees a gap, rebuilds the book from the snapshot     *)
(* stream (src/market_data/).  One ticker; tickers share only the sequence *)
(* numbers.                                                                *)
(*                                                                         *)
(* The engine is any one that keeps BookFeed's promise.  Its queue to the  *)
(* publisher is a FIFO channel nobody else sees, so the engine's next step *)
(* is taken once the publisher has emptied it.  An incremental update is a *)
(* datagram of its own: the publisher's larger datagrams are runs of these *)
(* that are lost or delayed together.  Snapshot datagrams are the ones     *)
(* PublishSnapshot sends.                                                  *)
(***************************************************************************)
EXTENDS MarketUpdates, FiniteSets

CONSTANTS
    NewOrders,         \* orders that may come to rest, as the feed shows them
    Networks,          \* what may happen to incremental datagrams besides
                       \* their loss: nothing ("ordered"), they overtake
                       \* each other ("reordered"), and arrive again and
                       \* again, too ("repeated")
    MaxUpdates,        \* bound on the updates of a behaviour, by network
    SnapshotLoss       \* TRUE: snapshot datagrams may be lost too

\* A resting order as the feed shows it.
Entry == [side : Sides, price : Nat, qty : Nat \ {0}, priority : Nat]

ASSUME FeedAssumption ==
    /\ NewOrders \subseteq Entry
    /\ Networks \subseteq {"ordered", "reordered", "repeated"}
    /\ MaxUpdates \in [Networks -> Nat]
    /\ SnapshotLoss \in BOOLEAN

VARIABLES
    network,                  \* the kind of this network
    books,                    \* history: the book after 0, 1, 2... updates
    next_id,                  \* the engine's next market order id
    outgoing_md_updates_,     \* engine to publisher
    next_inc_seq_num_,        \* the publisher
    snapshot_md_updates_,     \* publisher to synthesizer
    ticker_orders_,           \* the synthesizer's book
    last_inc_seq_num_,
    incremental_net,          \* datagrams of the incremental stream
    snapshot_net,             \* datagrams of the snapshot stream
    inbound_data_,            \* rest of the snapshot datagram being read
    next_exp_inc_seq_num_,    \* the consumer
    in_recovery_,
    snapshot_queued_msgs_,
    incremental_queued_msgs_,
    final_events,             \* events of a recovery still to be pushed
    client_book,              \* the book the pushed events describe
    synced                    \* history: updates in the client's book when
                              \* it was last synchronized

exchangeVars == <<books, next_id, outgoing_md_updates_, next_inc_seq_num_,
                  snapshot_md_updates_, ticker_orders_, last_inc_seq_num_>>
consumerVars == <<inbound_data_, next_exp_inc_seq_num_, in_recovery_,
                  snapshot_queued_msgs_, incremental_queued_msgs_,
                  final_events, client_book, synced>>
vars == <<network, exchangeVars, incremental_net, snapshot_net, consumerVars>>

\* The engine's book.
book == books[Len(books)]

MarketUpdateType == {"CLEAR", "ADD", "MODIFY", "CANCEL", "TRADE",
                     "SNAPSHOT_START", "SNAPSHOT_END"}
MEMarketUpdate == [type : MarketUpdateType, order_id : Nat, side : Sides \cup {"INVALID"},
                   price : Nat, qty : Nat, priority : Nat]
MDPMarketUpdate == [seq_num_ : Nat, update : MEMarketUpdate]

TypeOK ==
    /\ network \in Networks
    /\ Len(books) \in 1 .. MaxUpdates[network] + 1
    /\ \A b \in {books[n] : n \in 1 .. Len(books)} \cup {ticker_orders_, client_book} :
           DOMAIN b \subseteq 1 .. next_id - 1 /\ b \in [DOMAIN b -> Entry]
    /\ next_id \in Nat
    /\ next_inc_seq_num_ \in 1 .. Len(books)
    /\ last_inc_seq_num_ \in 0 .. next_inc_seq_num_ - 1
    /\ \A q \in {snapshot_md_updates_, incremental_net, inbound_data_} :
           \A k \in 1 .. Len(q) : q[k] \in MDPMarketUpdate
    /\ next_exp_inc_seq_num_ \in 1 .. next_inc_seq_num_
    /\ in_recovery_ \in BOOLEAN
    /\ DOMAIN incremental_queued_msgs_ \subseteq 1 .. next_inc_seq_num_ - 1
    /\ synced \in 0 .. next_inc_seq_num_ - 1
    \* a datagram ends with the message that ends the recovery
    /\ inbound_data_ # <<>> => in_recovery_

Init ==
    /\ network \in Networks
    /\ books = << <<>> >> /\ next_id = 1
    /\ outgoing_md_updates_ = <<>>
    /\ next_inc_seq_num_ = 1 /\ snapshot_md_updates_ = <<>>
    /\ ticker_orders_ = <<>> /\ last_inc_seq_num_ = 0
    /\ incremental_net = <<>> /\ snapshot_net = <<>> /\ inbound_data_ = <<>>
    /\ next_exp_inc_seq_num_ = 1 /\ in_recovery_ = FALSE
    /\ snapshot_queued_msgs_ = <<>> /\ incremental_queued_msgs_ = <<>>
    /\ final_events = <<>> /\ client_book = <<>> /\ synced = 0

-----------------------------------------------------------------------------
(* The exchange.                                                           *)

\* The books one step of the engine can lead to.
Successors(b) ==
    {With(b, next_id, e) : e \in NewOrders}
    \cup {Without(b, id) : id \in DOMAIN b}
    \cup UNION {{[b EXCEPT ![id].qty = q] : q \in 1 .. b[id].qty - 1} : id \in DOMAIN b}

\* A step of the matching engine.
EngineStep ==
    /\ outgoing_md_updates_ = <<>>
    /\ \E c \in Successors(book) : \E batch \in Batches(book, c) :
        /\ Len(books) + Len(batch) <= MaxUpdates[network] + 1
        /\ outgoing_md_updates_' = batch
        /\ books' = IF Len(batch) = 1 THEN Append(books, c)
                    ELSE Append(Append(books, book), c)
        /\ next_id' = IF next_id \in DOMAIN c THEN next_id + 1 ELSE next_id
    /\ UNCHANGED <<network, next_inc_seq_num_, snapshot_md_updates_,
                   ticker_orders_, last_inc_seq_num_, incremental_net,
                   snapshot_net, consumerVars>>

\* Mutant: the number is incremented before the copy for the synthesizer.
PublishNumberedTwice ==
    /\ outgoing_md_updates_ # <<>>
    /\ LET u == Head(outgoing_md_updates_)
       IN  /\ incremental_net' = Append(incremental_net,
                    [seq_num_ |-> next_inc_seq_num_, update |-> u])
           /\ snapshot_md_updates_' = Append(snapshot_md_updates_,
                    [seq_num_ |-> next_inc_seq_num_ + 1, update |-> u])
    /\ outgoing_md_updates_' = Tail(outgoing_md_updates_)
    /\ next_inc_seq_num_' = next_inc_seq_num_ + 1
    /\ UNCHANGED <<network, books, next_id, ticker_orders_, last_inc_seq_num_,
                   snapshot_net, consumerVars>>

\* One iteration of MarketDataPublisher::Run's inner loop.
Publish ==
    /\ outgoing_md_updates_ # <<>>
    /\ LET m == [seq_num_ |-> next_inc_seq_num_, update |-> Head(outgoing_md_updates_)]
       IN  /\ incremental_net' = Append(incremental_net, m)
           /\ snapshot_md_updates_' = Append(snapshot_md_updates_, m)
    /\ outgoing_md_updates_' = Tail(outgoing_md_updates_)
    /\ next_inc_seq_num_' = next_inc_seq_num_ + 1
    /\ UNCHANGED <<network, books, next_id, ticker_orders_, last_inc_seq_num_,
                   snapshot_net, consumerVars>>

\* Mutant: a modified order keeps its old quantity.
AddToSnapshotUnmodified ==
    /\ snapshot_md_updates_ # <<>>
    /\ LET m == Head(snapshot_md_updates_)
       IN  /\ ticker_orders_' = IF m.update.type = "MODIFY" THEN ticker_orders_
                                ELSE Applied(ticker_orders_, m.update)
           /\ last_inc_seq_num_' = m.seq_num_
    /\ snapshot_md_updates_' = Tail(snapshot_md_updates_)
    /\ UNCHANGED <<network, books, next_id, outgoing_md_updates_,
                   next_inc_seq_num_, incremental_net, snapshot_net,
                   consumerVars>>

\* SnapshotSynthesizer::AddToSnapshot, called from Run.
AddToSnapshot ==
    /\ snapshot_md_updates_ # <<>>
    /\ LET m == Head(snapshot_md_updates_)
       IN  /\ ticker_orders_' = Applied(ticker_orders_, m.update)
           /\ last_inc_seq_num_' = m.seq_num_
    /\ snapshot_md_updates_' = Tail(snapshot_md_updates_)
    /\ UNCHANGED <<network, books, next_id, outgoing_md_updates_,
                   next_inc_seq_num_, incremental_net, snapshot_net,
                   consumerVars>>

\* The ids of a book in ascending order, as PublishSnapshot's loop meets them.
Ascending(S) ==
    [k \in 1 .. Cardinality(S) |->
        CHOOSE x \in S : Cardinality({y \in S : y < x}) = k - 1]

Marker(type, id) == Update(type, id, "INVALID", INVALID, INVALID, INVALID)

\* The messages of a snapshot: start, clear, the resting orders, end.  The
\* markers carry the sequence number of the last update in the snapshot.
SnapshotMessages ==
    LET ids == Ascending(DOMAIN ticker_orders_)
        updates ==
            <<Marker("SNAPSHOT_START", last_inc_seq_num_), Marker("CLEAR", INVALID)>>
            \o [k \in 1 .. Len(ids) |-> AddOf(ids[k], ticker_orders_[ids[k]])]
            \o <<Marker("SNAPSHOT_END", last_inc_seq_num_)>>
    IN  [k \in 1 .. Len(updates) |-> [seq_num_ |-> k - 1, update |-> updates[k]]]

\* PublishSnapshot flushes the socket after each order and at the end, so the
\* start and the clear travel with the first order, or with the end.
PublishSnapshot ==
    /\ snapshot_net = <<>>     \* a snapshot a minute: the last one has arrived
    /\ LET msgs == SnapshotMessages
       IN  snapshot_net' = <<SubSeq(msgs, 1, 3)>>
                           \o [k \in 1 .. Len(msgs) - 3 |-> <<msgs[k + 3]>>]
    /\ UNCHANGED <<network, exchangeVars, incremental_net, consumerVars>>

-----------------------------------------------------------------------------
(* The consumer.                                                           *)

First(q) == CHOOSE n \in DOMAIN q : \A m \in DOMAIN q : n <= m
Last(q) == CHOOSE n \in DOMAIN q : \A m \in DOMAIN q : n >= m

\* The sequence number CheckSnapshotSync arrives at, counting queued
\* incremental updates from n on until one is missing.
NextMissing(inc, n) ==
    CHOOSE m \in n .. n + Cardinality(DOMAIN inc) :
        m \notin DOMAIN inc /\ \A k \in n .. m - 1 : k \in DOMAIN inc

\* Queued messages are not a complete snapshot from its start on.
Useless(snap) ==
    \/ snap[First(snap)].type # "SNAPSHOT_START"
    \/ DOMAIN snap # 0 .. Cardinality(DOMAIN snap) - 1

\* The first incremental update a whole snapshot does not contain.
SyncPoint(snap) == snap[Last(snap)].order_id + 1

\* Mutant: queued updates that the snapshot contains are not skipped.
HasGapOlder(inc, from) ==
    \E n \in DOMAIN inc : n < from \/ n > NextMissing(inc, from)

\* Mutant: gaps go unnoticed.
HasGapIgnored(inc, from) == FALSE

\* Queued incremental updates from this one on do not follow each other.
HasGap(inc, from) == \E n \in DOMAIN inc : n > NextMissing(inc, from)

\* Mutant: the events of a snapshot leave out its CLEAR.
NoMarkerNoClear(u) == u.type \notin {"SNAPSHOT_START", "SNAPSHOT_END", "CLEAR"}

\* The messages of a recovery that are passed on.
NoMarker(u) == u.type \notin {"SNAPSHOT_START", "SNAPSHOT_END"}
PassedOn(msgs) ==
    LET places == Ascending({k \in 1 .. Len(msgs) : NoMarker(msgs[k])})
    IN  [k \in 1 .. Len(places) |-> msgs[places[k]]]

\* CheckSnapshotSync with these queues: not enough yet, start over, or push
\* the events.  next_exp_inc_seq_num_ is assigned as soon as there is a
\* whole snapshot, whether or not the incremental updates fit.
CheckSnapshotSync(snap, inc) ==
    \/ /\ IF snap = <<>> THEN TRUE
          ELSE ~Useless(snap) /\ snap[Last(snap)].type # "SNAPSHOT_END"
       /\ snapshot_queued_msgs_' = snap
       /\ incremental_queued_msgs_' = inc
       /\ UNCHANGED <<next_exp_inc_seq_num_, final_events>>
    \/ /\ snap # <<>> /\ Useless(snap)
       /\ snapshot_queued_msgs_' = <<>>
       /\ incremental_queued_msgs_' = inc
       /\ UNCHANGED <<next_exp_inc_seq_num_, final_events>>
    \/ /\ snap # <<>> /\ ~Useless(snap)
       /\ snap[Last(snap)].type = "SNAPSHOT_END"
       /\ LET from == SyncPoint(snap)
              next == NextMissing(inc, from)
          IN  /\ next_exp_inc_seq_num_' = next
              /\ incremental_queued_msgs_' = inc
              /\ \/ /\ HasGap(inc, from)
                    /\ snapshot_queued_msgs_' = <<>>
                    /\ UNCHANGED final_events
                 \/ /\ ~HasGap(inc, from)
                    /\ snapshot_queued_msgs_' = snap
                    /\ final_events' =
                         PassedOn([k \in 1 .. Cardinality(DOMAIN snap) |-> snap[k - 1]]
                                  \o [k \in 1 .. next - from |-> inc[from + k - 1]])

\* QueueMessage, and StartSnapshotSync before it when the message is the one
\* that reveals a gap: the snapshot stream is joined with empty queues.
QueueMessage(is_snapshot, m) ==
    LET snap == IF in_recovery_ THEN snapshot_queued_msgs_ ELSE <<>>
        inc  == IF in_recovery_ THEN incremental_queued_msgs_ ELSE <<>>
    IN  IF is_snapshot
        THEN CheckSnapshotSync(
                 With(IF m.seq_num_ \in DOMAIN snap THEN <<>> ELSE snap,
                      m.seq_num_, m.update), inc)
        ELSE CheckSnapshotSync(snap, With(inc, m.seq_num_, m.update))

\* RecvCallback for an incremental update.
ProcessIncremental(m) ==
    \/ /\ ~in_recovery_ /\ m.seq_num_ = next_exp_inc_seq_num_
       /\ next_exp_inc_seq_num_' = next_exp_inc_seq_num_ + 1
       /\ client_book' = Applied(client_book, m.update)
       /\ synced' = next_exp_inc_seq_num_
       /\ UNCHANGED <<in_recovery_, snapshot_queued_msgs_,
                      incremental_queued_msgs_, final_events>>
    \/ /\ in_recovery_ \/ m.seq_num_ # next_exp_inc_seq_num_
       /\ in_recovery_' = TRUE
       /\ QueueMessage(FALSE, m)
       /\ UNCHANGED <<client_book, synced>>

\* The thread is between two calls of SendAndRecv.
Idle == inbound_data_ = <<>> /\ final_events = <<>>

RemovedAt(s, k) == [i \in 1 .. Len(s) - 1 |-> IF i < k THEN s[i] ELSE s[i + 1]]

\* SendAndRecv on the incremental socket: the oldest datagram or, when they
\* are reordered, any one; a duplicated one stays in the network.
RecvIncremental ==
    /\ Idle
    /\ \E k \in 1 .. Len(incremental_net) :
        /\ k = 1 \/ network # "ordered"
        /\ ProcessIncremental(incremental_net[k])
        /\ \/ incremental_net' = RemovedAt(incremental_net, k)
           \/ network = "repeated" /\ UNCHANGED incremental_net
    /\ UNCHANGED <<network, exchangeVars, snapshot_net, inbound_data_>>

\* SendAndRecv on the snapshot socket, up to the first message.
RecvSnapshot ==
    /\ Idle /\ in_recovery_
    /\ snapshot_net # <<>>
    /\ QueueMessage(TRUE, Head(Head(snapshot_net)))
    /\ inbound_data_' = Tail(Head(snapshot_net))
    /\ snapshot_net' = Tail(snapshot_net)
    /\ UNCHANGED <<network, exchangeVars, incremental_net, in_recovery_,
                   client_book, synced>>

\* The next message of the same datagram.
RecvSnapshotMore ==
    /\ inbound_data_ # <<>> /\ final_events = <<>>
    /\ QueueMessage(TRUE, Head(inbound_data_))
    /\ inbound_data_' = Tail(inbound_data_)
    /\ UNCHANGED <<network, exchangeVars, incremental_net, snapshot_net,
                   in_recovery_, client_book, synced>>

\* The end of CheckSnapshotSync: the events go to the trading engine one by
\* one, and after the last one the consumer leaves the snapshot stream.
PushEvent ==
    /\ final_events # <<>>
    /\ client_book' = Applied(client_book, Head(final_events))
    /\ final_events' = Tail(final_events)
    /\ \/ /\ Len(final_events) > 1
          /\ UNCHANGED <<in_recovery_, snapshot_queued_msgs_,
                         incremental_queued_msgs_, synced>>
       \/ /\ Len(final_events) = 1
          /\ in_recovery_' = FALSE
          /\ snapshot_queued_msgs_' = <<>> /\ incremental_queued_msgs_' = <<>>
          /\ synced' = next_exp_inc_seq_num_ - 1
    /\ UNCHANGED <<network, exchangeVars, incremental_net, snapshot_net,
                   inbound_data_, next_exp_inc_seq_num_>>

-----------------------------------------------------------------------------
(* The network.                                                            *)

LoseIncremental ==
    /\ \E k \in 1 .. Len(incremental_net) :
           incremental_net' = RemovedAt(incremental_net, k)
    /\ UNCHANGED <<network, exchangeVars, snapshot_net, consumerVars>>

\* A snapshot datagram is lost, or arrives while nobody has joined.
LoseSnapshot ==
    /\ snapshot_net # <<>>
    /\ SnapshotLoss \/ ~in_recovery_
    /\ snapshot_net' = Tail(snapshot_net)
    /\ UNCHANGED <<network, exchangeVars, incremental_net, consumerVars>>

-----------------------------------------------------------------------------
Consumer == RecvIncremental \/ RecvSnapshot \/ RecvSnapshotMore \/ PushEvent

Next == \/ EngineStep \/ Publish \/ AddToSnapshot \/ PublishSnapshot
        \/ Consumer \/ LoseIncremental \/ LoseSnapshot

Spec == Init /\ [][Next]_vars

\* The exchange's threads and the consumer's spin, and the snapshot timer
\* fires again and again.
FairSpec ==
    /\ Spec
    /\ WF_vars(Publish \/ AddToSnapshot) /\ WF_vars(PublishSnapshot)
    /\ WF_vars(Consumer)

-----------------------------------------------------------------------------
(* Properties.                                                             *)

\* The synthesizer's book is the engine's book after the last update it has
\* counted, so a snapshot is what its sequence number says.
SnapshotMirrorsBook == ticker_orders_ = books[last_inc_seq_num_ + 1]

\* The trading engine was told the exchange's book after exactly the updates
\* it is synchronized to: whatever was lost, delayed, repeated or recovered
\* from a snapshot, and in recovery too, where it goes on trading on a book
\* that is old but whole, until the events of a snapshot start to come.  Out
\* of recovery these are all the updates the consumer has counted.
SyncedBookIsExact ==
    /\ final_events = <<>> => client_book = books[synced + 1]
    /\ ~in_recovery_ => synced = next_exp_inc_seq_num_ - 1

\* Unless datagrams overtake each other, the book a client is synchronized to
\* never goes back in time.
NeverGoesBack == [][network = "ordered" => synced' >= synced]_vars

\* A consumer that lost its place gets it back, if it is not kept busy with
\* the same datagrams for ever.
RecoveryEnds == network # "repeated" /\ in_recovery_ ~> ~in_recovery_
==============================================================================
