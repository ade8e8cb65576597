# vots in TLA+

vots is an electronic trading ecosystem in C++: one exchange process (matching
engine, order server, market data publisher with its snapshot synthesizer) and
trading clients (trading engine, order gateway client, market data consumer).
This directory holds TLA+ models of it, the TLC configurations that check them
on small instances, and TLAPS proofs of what matters most for every instance.
`PROJECT.json` lists components, runs, hazards, findings and theorems, and maps
every definition to the lines it models.

Contents: [inventory](#inventory), [modules and code](#modules-and-code),
[runs](#runs), [fairness](#fairness), [proofs](#proofs),
[findings](#findings), [abstractions](#abstractions),
[not modelled](#not-modelled), [plan](#plan).

## Inventory

Every component runs in a thread of its own that spins, and threads of a process
share only lock-free queues:

```
 trading client process                      exchange process
 TradingEngine --requests--> GatewayClient ==TCP==> OrderServer+FIFOSequencer --> MatchingEngine
 TradingEngine <-responses-- GatewayClient <=TCP=== OrderServer <--------responses-- MatchingEngine
 TradingEngine <--updates--- MarketDataConsumer <=UDP= MarketDataPublisher <-updates-- MatchingEngine
                                               <=UDP= SnapshotSynthesizer <- MarketDataPublisher
        -->  lock-free queue      ==>  network
```

| component | state | operations | what is hard | what makes it correct |
|---|---|---|---|---|
| Lock-free queue | ring of slots, read and write index, element count | GetNextToWriteTo, UpdateWriteIndex, GetNextToRead, UpdateReadIndex | producer and consumer interleave at every atomic; nothing checks for a full ring; the publisher still reads a slot it has given back | elements arrive whole, in order, once, and eventually |
| Limit order book, matching engine | orders, price levels, sorted level lists, client-to-order map | Add (CheckForMatch, Match, AddOrder), Cancel | linked structures that must agree; prices hashed to levels; reused order ids; order of messages | never crossed, price-time priority, messages describe the book |
| Order server, FIFO sequencer, TCP | sockets and sequence numbers of each client, pending requests | Poll, SendAndRecv, RecvCallback, SequenceAndPublish, sending responses | several connections, sends cut anywhere and never completed, client restarts, sorting by receive time | each client's requests and responses in order, none twice, all answered |
| Order gateway client | sequence numbers, socket buffers | Start, sending requests, RecvCallback | restart with fresh numbers | as above |
| Market data publisher, snapshot synthesizer | incremental sequence number; a copy of the book | publish, AddToSnapshot, PublishSnapshot | the copy lags the stream; a snapshot is many datagrams | a snapshot is the book at the number it states |
| Market data consumer | next expected number, recovery flag, two message queues | RecvCallback, QueueMessage, CheckSnapshotSync | lost, reordered, repeated datagrams; two streams; a snapshot older or newer than the queued increments | outside recovery the client's book is the exchange's; recovery ends |
| Order manager, risk manager, trading engine | an order per side with its state, the position | OnOrderUpdate, MoveOrders (NewOrder, CancelOrder), CheckPreTradeRisk, Run | cancels cross fills; responses are matched by side alone; the risk check sees only fills that have arrived | position limit, one order per side, no order pending for ever |
| Trading order book | the client's copy of the book: pools, circular lists, two maps, best bid and offer | OnMarketUpdate (ADD, MODIFY, CANCEL, TRADE, CLEAR) | lists linked by hand; CLEAR frees levels a map still points at; the best price is judged before the update | walking the lists shows the exchange's public book |
| Memory pool | blocks, next free index | Allocate, Deallocate, UpdateNextFreeIndex | the search for the next free block when few are left | no block lost or handed out twice |
| Position keeper, feature engine, market maker, liquidity taker | position, open value by side, profit and loss; two features for all instruments | AddFill, UpdateBbo, OnOrderBookUpdate, OnTradeUpdate | positions that turn round; an uninitialized array; not-a-number as a mark of invalidity | profit and loss is what a liquidation would leave; no price from a stale or foreign feature |
| Logger, threads, programs | a queue and a file; configuration | formatting, start and stop | a logger used by two threads; shutdown by sleeping | |

## Modules and code

### The queue: `FifoChannel`, `LockFreeQueue`, `LockFreeQueueProofs`

`LockFreeQueue` has one step for each atomic operation of
`runtime/lock_free_queue.hpp`, with the copy of an element into and out of its
slot as two further steps, so that a read that overlaps a write is seen: it
returns `Torn`.  `LateReader` lets the consumer use a slot once more after
UpdateReadIndex, as `MarketDataPublisher::Run` does when it hands the update to
the synthesizer.  `MaxInFlight` is the load, how many elements the producer is
ahead at most: the code relies on it and checks it nowhere.  `FifoChannel` is the promise, a sequence with
Send and Receive; `LockFreeQueue` is shown to implement it.  Every other module
uses queues as such sequences.

### The book: `MarketUpdates`, `BookFeed`, `ExchangeOrderBook`, proofs

`ExchangeOrderBook` is the matching engine's loop over one book.  `Accept` answers
ACCEPTED and starts matching; each `Match` is one round of the loop in
CheckForMatch with its two responses and its updates; `Rest` puts what is left
into the book (AddOrder, AddOrdersAtPrice); `Cancel` is a whole request.  The
circular lists of the code are sequences; `price_orders_at_price_` keeps its
hashing, so a level is found by `price % ME_MAX_PRICE_LEVELS`.  `MarketUpdates`
defines what an update does to a book (`Applied`, shared with the feed).
`BookFeed` is the promise to everyone who listens: every step changes the public
book by exactly the updates it publishes.  `ExchangeOrderBook` is shown to
implement it.

### Market data: `MarketDataFeed`, `MarketDataFeedProofs`

Publisher, synthesizer, the two multicast streams and one consumer.  The engine
in it is any engine that keeps `BookFeed`.  The synthesizer's snapshot is cut
into the datagrams the code sends.  The consumer's actions are one round of its
receive loop (`ProcessIncremental`, `RecvSnapshot`, `RecvSnapshotMore`) including
QueueMessage and CheckSnapshotSync; events of a finished recovery are pushed one
by one (`PushEvent`).  The history variable `books` holds the exchange's book
after every update, to compare the client's with.  `network` is the kind of
network a behaviour has: incremental datagrams may be lost on all, overtake each
other on the second and arrive again and again on the third.

### Orders: `OrderGateway`, `OrderGatewayProofs`

Clients, their TCP connections and the order server's thread with its program
counter: Poll, SendAndRecv socket by socket, SequenceAndPublish, the response
loop.  Sequence numbers, `cid_tcp_socket_`, the send buffers and the sort by
receive time are those of the code.  `Sortings` is every order `std::sort` may
produce: equal elements keep their place only up to `StableSize` elements.
`load` is what a behaviour brings: requests, restarts, fills, whether the kernel
may take a part of a buffer only (SendAndRecv forgets the rest), and how many
requests a round has room for; one more ends the exchange (`TooManyPending`,
FATAL).  The engine answers each request, and may report a fill.

A partial send counts bytes.  The model's streams are the records their receiver
frames: a send that ends with whole messages, or takes nothing, as a full buffer
usually does, loses messages and no more (`SentParts`).  One that takes a `piece`
of a message cuts the stream (`cut`), and from then on every record on it
is `Torn`, made of two messages (`Framed`).  What the receive loops make of a torn
record depends on bytes the model does not have, so it is everything they can: the
client may take it for its next response; the server may find any client named in it,
bind that client to the socket, and take it for that client's next request, or pass
it over (`Misreadings`).  A request taken so has the number `Garbled`; the engine
may answer it or end the exchange over it (`EngineFatal`), and the exchange may end over
a torn record whose client id is no index of the server's arrays (`NoSuchClient`).

### The client's book: `MemoryPool`, `TradingOrderBook`, `TradingOrderBookProofs`

Here the pointers are the point, so they are kept.  `MemoryPool` has the pool as
operators: a block is handed out, the next free one is searched for, going round,
a freed block keeps what was in it.  `TradingOrderBook` has two pools, and its
circular lists are `prev` and `next` fields of the blocks, changed as the code
changes them (`LinkBefore`, `Unlink`); `Ring` walks such a list.  One action per
kind of market update, each ending in UpdateBbo; what the trading engine does then
is `TradingSignals`.  An ADD that runs into the end of a pool or of the id map
ends the process (`OnAddFails`).  The history variable `book` is the book the
updates describe, and the lists are compared with it.

### Prices and profit: `PositionKeeper`, `TradingSignals`, `TradingSignalsProofs`

`TradingSignals` has the three callbacks of the trading engine, each with all it
calls, in order: position keeper, feature engine, algorithm, for several
instruments that share one feature engine.  Amounts are integers in units of
`1/Scale` of a tick, features are quotients, and a quotient with denominator 0 is
not a number: no comparison with it holds, and the code's `!= FEATURE_INVALID`
always does.  `open_vwap_` starts as any value of `Garbage`.  The best bids and
offers are any the book may show: unset sides, and stale and crossed ones, as
`trading_book_bbo` has them after a recovery.
`cash` and `mark` are the ledger that profit and loss is compared with.

### Trading: `TradingOrders`, `TradingOrdersProofs`

`TradingEngine::Run` with its two loops, of which each empties its queue before
the other goes on (`phase`), the two algorithms, OrderManager, the risk check and
the position.  A market update makes the market maker ask for any two prices, or
the liquidity taker for one price and no order on the other side (MoveOrders, buy
side first, is part of the step).  The profit-and-loss test of the risk check is
a free choice.  Gateways and exchange are external: FIFO channels (what
`gateway` checks of good connections) and an exchange that accepts, fills in any parts at
any time and answers cancels.

The `MC*` modules only give constants their values.

Composition: the modules meet at what one proves or checks and the next assumes.
`LockFreeQueue` implements the channel all others use as a queue; `ExchangeOrderBook`
implements `BookFeed`, which is all `MarketDataFeed` knows of the engine; the
client book `MarketDataFeed` keeps as a set of orders, `TradingOrderBook` keeps in
its lists; the bests it shows are the inputs of `TradingSignals`, whose prices are
among those `TradingOrders` tries; `OrderGateway` gives, on good connections, the FIFO channels
`TradingOrders` assumes.

## Runs

| run | bounds | what it shows |
|---|---|---|
| `queue_sized` | ring of 3, load 2, late reader, 5 writes | the ring the load just fills delivers everything in order, shows the late reader the same element, implements `FifoChannel`, and everything sent is received |
| `book_matching` | 4 orders, 3 prices, quantities 0-2 | never crossed, all linked structures agree, fills in price-time order, updates describe the book, what a client holds it can cancel, every accepted order is carried to its end |
| `book_price_collision` (violation) | prices 4 apart with 4 levels | a level made for an order of one side comes to hold an order of the other |
| `feed` | any loss; 4 updates in order, 3 in any order, 2 repeated at will | snapshots are what they say, the client's book is exact at the update it stands at and never goes back while datagrams keep their order, recoveries end |
| `feed_spliced` (violation) | 3 updates, snapshot datagrams lost too | parts of two snapshots pass for one |
| `gateway` | `Good`: 2 clients with 2 and 1 requests on good connections; `Bad`: 1 client with 3 requests, up to 2 restarts, sends cut anywhere, room for 2 pending; `Shared`: 2 clients with 2 and 1 requests, sends cut anywhere | what gets through on a stream that no send has cut inside a record is in order and nothing twice, whatever became of other streams; without such a cut only a burst ends the exchange; on good connections every request is answered and responses are numbered without a gap |
| `gateway_unstable` (violation) | 3 requests, sort stable up to 2 | a client's own requests are swapped |
| `trading_orders` | 3 market updates, clip 2, position limit 3, 2 prices | responses concern the order in the slot, the slot covers all that can still be filled, the limit holds, no order stays pending |
| `trading_book` | ids up to 5, 4 price levels, 4 prices, quantity 2 | the lists show the exchange's book, no block is lost or handed out twice, the process ends only when ids or levels run out, the best bid and offer is right when it is set, all as long as no CLEAR takes orders out of the book |
| `trading_book_clear` (violation) | the same, with CLEAR in a book with orders | an order added after CLEAR is in no list |
| `trading_book_bbo` (violation) | the same, with CLEAR in a book with orders | after a CLEAR the old best bid and offer stands over an empty book |
| `trading_signals` | 2 instruments, 3 fills, 2 book updates, any trades, both algorithms, 2 contents of uninitialized memory, best prices stale and crossed ones included | profit and loss is cash plus marked position, but for what the memory held; algorithms act on exactly the feature their instrument's best prices, or the trade just seen, give now |

Why the bounds are enough.  *Queue*: five writes go round the ring of three,
so every slot is reused and both indices wrap.  *Book*: four orders give two
levels a side or two orders a level, and an incoming order that sweeps through
several; level insertion before, between and after needs three prices.  *Feed*:
four updates are enough for a snapshot that is older than the first queued
increment, for a gap inside the queued increments and for a second recovery.
Two updates repeated at will fill the queues with every mixture of old and new.
*Gateway*: the second client interleaves with the first in one sequencing round;
a third connection is opened while the first one's data is still unread; three
requests are one more than the room of `Bad`.  Under `Shared` one client's torn
records arrive before, between and after the good ones of the other, and may be
taken for its requests.  The conditions on cuts are needed: without theirs
`RequestsInOrder` (the `Garbled` number comes before later ones), `ResponsesInOrder`
(an answer nobody sent) and `EndsOnlyOnBurst` (garbled requests fill the places, or
end the exchange themselves) all fail.
*Trading*: three updates open an order, cancel it and open the next, on both
sides, while fills of one or two parts arrive in between; a partial fill leaves a
position of 1, which admits one more order to the limit of 3 and no further.
*Client's book*: four prices allow three levels on a side, so insertion before,
between and behind, and the exhaustion of the level pool; four orders at a price
make a ring of four; ids past the map are tried.  TLC compares states by the view
`NoLeftovers`, which leaves out what freed blocks contain: no action but one after
a CLEAR in a book with orders reads it, and the run excludes that.
*Signals*: three fills open, add to or reduce, and turn a position round; `Scale`
is divisible by every position they can divide by, so amounts stay exact.
`MaxOrders`, `MaxWrites`, `MaxUpdates`, `MaxRequests`, `MaxRestarts`, `MaxFills`,
`MaxBookUpdates` and `ME_MAX_ORDER_IDS` bound behaviours; nothing else is bounded.

Deadlock is not checked for the ring and the two books, which stop when their
bound is reached, and for the gateway, where FATAL ends the process; the other
models go on for ever, as the code does.

Each property has a mutant in `PROJECT.json`, a plausible defect of the code (a
dropped guard, a number not incremented, a missing reset) under which TLC finds
the property violated.

## Fairness

All threads are endless loops without locks or waits, so weak fairness of
a thread's next step is what the scheduler gives.

* Ring: the consumer polls; the producer is under no obligation to start a write,
  and completes one it has started.
* Book: the matching loop runs to its end; requests need not come.
* Feed: publisher and synthesizer threads, the snapshot timer (a snapshot is
  taken again and again), and a consumer that polls both sockets.  `RecoveryEnds`
  is checked without snapshot loss: with unlimited loss it is false of any code.
  On a network that repeats datagrams for ever the consumer may be kept busy with
  them, so there it is not claimed.
* Gateway: client, server and engine threads.  Clients need not send.  On good
  connections the room for pending requests is enough for all of them.
* Trading: the engine's thread, and an exchange that answers requests.  Neither
  fills nor market updates need happen.  `PendingResolves` is checked for finitely
  many market updates: the loop over market updates ends only when their queue is
  empty, so an endless burst keeps responses from being read.

## Proofs

The theorems hold for every value of the constants that satisfies the `ASSUME` of
their module and the condition named in the theorem.

**`LockFreeQueueProofs`**, for any capacity, element set and load that fits the
ring (`SizedForLoad`: the capacity is at least the elements in flight, with the
slot a late reader holds).  The properties are not inductive: that a read returns
the right element needs to know where in the ring each element is.  `IInv` adds to
the type the balance of the counters (`CountInv`: element count, writes and reads,
corrected by the steps a side is in the middle of), the indices as those counts
modulo the capacity (`IndexInv`), the content of the slots between them
(`ContentInv`) and the values already taken (`HistoryInv`).  `RingPlaces` shows that
two positions less than a capacity apart are different slots, and is the only use
of the sizing.  From `IInv` follow `TypeCorrect`, `SlotsNeverRace`, `InOrder`,
`LateReadsInOrder` (what a late reader sees), `AssertionHolds` (the ASSERT of
UpdateReadIndex) and, with the mapping of the unread part of the history to the
channel, `Refinement`.

**`ExchangeOrderBookProofs`**, for any clients, ids, prices, quantities and number
of levels, provided different prices in use have different indices
(`PricesApartModLevels`; `book_price_collision` shows what happens otherwise).
`IInv` says that levels are filed under the index of their price and hold orders
of that price and side in the order of arrival, that every order is in its level
and every level in the list of its side, that lists are strictly sorted, that the
client map points to the client's own resting orders, and that market order ids
grow.  `AddOrderKeeps` and `RemoveOrderKeeps` do the two structural changes once,
for all callers; `BestIsBest` (the head of the list is the best price, its first
order the oldest) gives `FillsInPriceTimeOrder` and the uncrossed book:
an order rests only when the matching loop has found nothing left to match.  The
theorems do not assume `FreshIds`: a client that uses its ids again may lose the
means to cancel an order, but cannot damage the book.  `AlwaysCancelable` is the
one that does: there the map is shown to lead to every order a client has resting.
`LevelsAreUnmixed` states of the levels what the collision run refutes without the
assumption on prices.

**`BookFeedProofs`**: every step of the engine publishes a batch of updates that,
applied in order to the public book, gives the next public book (`UpdatesTell`),
which is the refinement of `BookFeed`.  One lemma per kind of update relates
`Applied` to the change of the book; one per action combines them.

**`MarketDataFeedProofs`**.  `SnapshotsAreTrue` needs no assumption on the network:
`ExchangeInv` says that the updates in every queue between engine, publisher and
synthesizer tell, one after the other, how the book of the history became the next
one (`Tells`), so the synthesizer's book is where its number says.  The rest holds
if no snapshot datagram is lost to a consumer that has joined the stream
(`~SnapshotLoss`; `feed_spliced` shows that it is needed).  `StreamInv` says what
of which snapshot the consumer has read: `StreamAt(n, a)`, the first `a` messages of
the snapshot after `n` updates are read, all of them are queued or none, the rest is
in the datagram being read and in the network, and only snapshots as new follow.
`IncInv` says that queued increments are what their numbers say, and `FinalInv` that
during a recovery the client's book is the snapshot's first orders, and after them
the exchange's books one by one.  `EventsAre` computes `final_events` once and for
all: the snapshot without its markers, then the queued increments up to the first
gap.  `SyncedIsExact` and `TypeCorrect` follow.  `NeverBack` needs `TimeInv` on top:
on an ordered network, with `Target` the number of updates in the client's book
once the events under way are pushed, either the snapshot being read is at least as
new as `Target`, or every increment in the network and in the queue is newer.  In the
second case an old snapshot cannot complete a recovery: the queue is not empty, so
without a gap the events reach beyond it.

**`OrderGatewayProofs`**, for any number of clients, requests, restarts and fills.
`RequestInv` follows a request from the client's buffer over the connection and the
pending requests to the engine: along a connection the requests, their numbers and
their arrival times grow (`RxInv`), what is still in the client's buffer is later
(`OutInv`), and everything the server has accepted (`Taken`) came on one socket, on
which only later requests are still to come (`TakenInv`).  The last point is why a
restart cannot bring an old request again: the server never changes the socket.
From it follow `RequestsReachOnce`, and `RequestsStayInOrder`
under the condition that the pending requests never exceed `StableSize`, 16 in libstdc++,
while the code makes room for 1024 (`gateway_unstable` shows that the condition is
needed): requests of one client have growing receive times (`PendingInv`), and only
a stable sort keeps those with equal times.  `ResponseInv` says that a response
on its way bears the number of its place among the responses to its client
(`NumberInv`, `WireInv`), that only the client's socket carries any, and that a client
that expects number `k` has got exactly the first `k - 1` (`AnswerInv`):
`ResponsesStayInOrder`.  `GapInv` adds that nothing is missing while connections are
reliable: `NoneMisnumbered`.  For `TypeCorrect` the responses are counted: those that
answer a request are as many as different requests (`CountInv`), the others are
fills.  For `AlwaysEndsOnBurst` the requests are: whether or not there is room for
them, what the server accepts follows what it has (`AcceptedFollow`), so all of it
together is no more than was made (`NoMoreThanMade`); this wants a finite number of
clients, as the server's arrays have (`GatewayAssumption`).  `NoGapIs` and
`InSequenceIs` say what the receive loops accept.

All of this is about behaviours until a send is cut inside a record (`Unbroken`):
`GatewayInvariant` is `[](Unbroken => IInv)`, and the theorems on the requests and
responses say the same of their properties.  `CutStays` shows that a cut is never
mended, so a step that ends `Unbroken` starts so, and `NoneTorn` that until then there
is no torn record; the `Whole...` lemmas then give, for each step, what it does to whole
records, which is what the proofs above speak of.  `NoneMisnumbered` and `TypeCorrect` hold
with no such condition (`Own`, what a record on its way looks like, and `Light`, the
part of the types that a cut does not touch, are kept by every step).  The finer conditions of
`RequestsInOrder` and `ResponsesInOrder`, by client and by stream, are checked by
`gateway` and not proved.

**`TradingOrdersProofs`**, for every clip, limit and set of prices.  The limit is not
inductive: the risk check adds an order to the position it knows, while fills are
on their way.  `IInv` ties the quantity in a slot to the resting order through the
chain of fills under way (`ChainInv`: the first fill of a side finds the slot's
quantity, each next one what the one before left, the resting order what the last
one left), says which requests and responses can be under way in each state of a
slot (`RequestsInv`, `ResponsesInv`), and that the limit holds even when
everything open on a side is filled (`LimitInv`).  From it follow `TypeCorrect`,
`ResponsesFindTheirOrder`, `WithinLimit` and, with an induction over the queue of
responses, `OneOrderPerSide`.

**`TradingSignalsProofs`**: `TypeCorrect`; `OwnFeature`, that the feature behind a
call of MoveOrders is exactly the quotient of what its instrument shows now, which assumes
nothing of the quotes; and `AccountsBalance`, profit and loss against the ledger.  `AddFill`
divides what a position has cost by its size, in `double`; the model's division is
that of integers, so the theorem is about behaviours in which each of these
divisions is exact (`ExactDivisions`; all behaviours of `trading_signals` are such,
its `Scale` is chosen for it).  `MoneyInv` is the inductive part: realized profit
plus the cost of what is held is cash, but for the contribution of the uninitialized
memory.

**`TradingOrderBookProofs`**, for pools of any size and any uncrossed updates, on two
conditions.  Different prices have different indices (`PricesApart`, as for the
exchange's book), and a CLEAR finds an empty book (`~Recoveries`; `trading_book_clear`
shows what becomes of the lists otherwise, `trading_book_bbo` of the best bid and offer:
every recovery of a book in use is such a case).  The properties speak of what a
walk over pointers finds, so the invariant `IInv` names the lists instead: there are
sequences `R[s]` of levels and `Q[l]` of orders (`ListsOk`) in which `next` leads from
each block to the following one, from the last to the first, and `prev` back (`Chain`),
that are sorted (`Listed`, `Queued`), that hold each block in use once (`Filed`,
`OrdersOk`) and that map and book agree with (`Known`).  `RingIs` shows that walking a
chain finds its sequence.  The steps are then about sequences: `ChainPlaced` and
`ChainDropped` say that `LinkBefore` and `Unlink` insert into and take out of one chain,
`ListedPlaced`, `QueuedAppended` and their companions that order is kept, `PointIs` that
the search of AddOrdersAtPrice stops at the right place.  `Allocated` and `Deallocated`
are the facts about the pool: the block handed out was free, the next one is.
`AddsOrder`, `AddsLevel`, `CancelsOrder`, `CancelsLevel`, `ModifiesOrder` and `Clears` put
them together, one for each way through an update, and also show that what UpdateBbo
leaves alone has not changed (`Quiet`).  Blocks are counted for `AlwaysEndsAtItsLimits`:
there are no more orders in use than ids seen (`NoMoreThanIds`), and as many levels
as prices (`LevelEachPrice`).

Facts about data are proved by an induction the prover can do: the theorem that
a set of naturals has a least element (`Least`, from the well-foundedness of `<`) has
no operator as a parameter, and is applied to the set of places where a statement
fails.

Only model-checked: liveness (`EverythingReceived`, `AddCompletes`,
`RecoveryEnds`, `RequestsAnswered`, `PendingResolves`), which the prover cannot do.

## Findings

Five runs end in a violation, each of something the code's own comments say; the
entries in `PROJECT.json` quote them.

1. `book_price_collision`: prices that differ by a multiple of 256 share a level,
   so that a level made for one side holds an order of the other.
2. `feed_spliced`: the consumer does not check that a snapshot's messages belong
   to one snapshot.
3. `gateway_unstable`: `std::sort` is not stable, and all requests of one read have
   one receive time, so a burst of one client may be reordered.  `OrderManager` is
   not hurt by it, as it never has two requests for one order under way.
4. `trading_book_clear`: CLEAR leaves `price_orders_at_price_` pointing at freed
   levels, so after a recovery the client's book misses orders.
5. `trading_book_bbo`: a CLEAR is no update of the best bid or offer to
   OnMarketUpdate, so the old one stands over the emptied book and is handed to
   the algorithms.  Every recovery has a CLEAR for every instrument.  As the orders
   of the snapshot follow, an ADD to an empty side does not set the best price
   either, so the old one may stand until a later update at the best price or
   better.

Other limits, each visible by changing one constant of a run.  With a load of
`MaxInFlight` above the ring's capacity `ReceivedInOrder` fails: the queue never
checks that it is full, and relies on being large.  Without `Reliable` in them,
`NoMisnumbered` fails, as a partial send is never completed, and
`RequestsAnswered` fails, as `cid_tcp_socket_` is never reset and a reconnected
client is ignored.  With `FreshIds` FALSE `Cancelable` fails: an id used again hides
the order that had it.  In
ordinary operation, too, the first order of a side leaves its best price as it was,
unset: `BboExactOrUnset` allows that, and the algorithms do nothing while it lasts.
Without its condition on the network, `NeverGoesBack` fails:
a late datagram counts as a gap and the recovery that follows may use an older
snapshot.  Without the term for `Garbage`, `PnlIsCashAndMark` fails.  Requests of
different clients are ordered by receive time within a round of the server only.

## Abstractions

* A stream is the records its receiver frames, whole or torn; bytes, packing and
  the moving of partial messages to the front of a buffer are left out.  A read takes
  all that has arrived.  Once a stream is cut its records stay torn; that later cuts
  may happen to add up to a record, so that whole ones arrive again, is one of the
  things a misread torn record stands for.  A torn record that names no client passes by
  or ends the exchange, whatever memory past the arrays holds.
* Receive times are unique per packet; the kernel's have microseconds.  Equal
  times arise from one read, as in the code.
* Incremental datagrams hold one update each; the code's larger ones are runs of
  these that share their fate.
* One book, one instrument: instruments share sequence numbers and order ids only.
* The queues between components are unbounded FIFO channels, which is what
  `Refinement` proves of the ring when it is large enough.
* Memory pools never run out in the exchange's book; in the client's, which has
  the same pools, they do.
* Two pointer arrays of the client's book (`trading_order_book.hpp:80`, `:86`) and
  those of the exchange's book and its client map have no initializer.  They are
  taken as null: the books are large allocations made at the start, which the system
  hands out zeroed.  `open_vwap_` has no initializer either; of it nothing is assumed.
* Money is exact; the code computes it in `double`.  Its positions and prices are
  small integers, so products are exact there too and quotients are rounded.
* Integers are mathematical; sequence numbers and ids are 64 bits wide.  Prices in
  the book are not negative (`%` of a negative price differs).  `TradingAssumption`
  keeps the sum in the risk check within `int32_t`, and the clip above zero: an
  order of quantity 0 is accepted, never rests, and can never be cancelled.

## Not modelled

Logging and performance measurement (output only), socket options and system
calls, time strings, thread creation and configuration parsing.  The logger's
queue is the lock-free queue, and its destructor waits until it is empty, which
`EverythingReceived` says will happen; but the trading engine's logger is also used
by the main thread (RANDOM orders, Stop), where the queue's contract of one
producer is broken and nothing can be said.  Shutdown sets flags and sleeps,
without joining the threads: only clocks decide whether it is safe.  Printing of
books and positions re-checks their order at most.

## Plan

Done: the queue and its abstract channel with proofs; the book, its abstract feed
and proofs; the market data path; the order path; the trading side: its orders,
its book with the memory pool, its position, features and algorithms.

All safety properties the passing runs check are proved, each on the conditions named
above; `RequestsInOrder` and `ResponsesInOrder` until the first cut only.

Next: those two by client and stream, past a cut of another; what of `PoolsAccountForAll` survives a recovery of a book in use (the id map
and the order pool, as it seems), with `trading_book_clear` as the limit; and profit
and loss without `ExactDivisions`, as a bound on its error.
