---------------------------- MODULE LockFreeQueue ----------------------------
(***************************************************************************)
(* common::LockFreeQueue (src/include/runtime/lock_free_queue.hpp): the    *)
(* ring every pair of threads of the exchange and of the trading client    *)
(* communicates through.  The producer obtains a slot, fills it in and     *)
(* commits it with UpdateWriteIndex; the consumer obtains a slot, uses it  *)
(* and gives it back with UpdateReadIndex.  The three atomics are updated  *)
(* one at a time, so each update is a step of its own, and copying an      *)
(* element is two steps, so that an overlapping copy is visible.           *)
(*                                                                         *)
(* GetNextToWriteTo does not test for a full ring.  What keeps the         *)
(* producer from lapping the consumer is only the load: MaxInFlight is the *)
(* largest number of committed elements at which the producer still starts *)
(* another write, plus one.                                                *)
(***************************************************************************)
EXTENDS Naturals, Sequences

CONSTANTS
    Capacity,     \* store_.size()
    Values,       \* elements the producer may write
    Torn,         \* content of a slot whose copy is in progress
    MaxInFlight,  \* the load: a write starts only below this many elements
    MaxWrites,    \* bound on the number of writes of a behaviour
    LateReader    \* TRUE: the consumer uses the slot once more after giving
                  \* it back, as MarketDataPublisher::Run does

ASSUME QueueAssumption ==
    /\ Capacity \in Nat \ {0}
    /\ MaxInFlight \in Nat
    /\ MaxWrites \in Nat
    /\ LateReader \in BOOLEAN
    /\ Torn \notin Values

VARIABLES
    store_,             \* the slots
    next_write_index_,
    next_read_index_,
    num_elements_,
    ppc,                \* where the producer is
    item,               \* the element the producer is writing
    cpc,                \* where the consumer is
    held,               \* the slot the consumer's pointer refers to
    sent,               \* history: the elements committed
    received,           \* history: what the consumer read
    reread              \* history: what it read after giving the slot back

producerVars == <<next_write_index_, ppc, item, sent>>
consumerVars == <<next_read_index_, cpc, held, received, reread>>
vars == <<store_, num_elements_, producerVars, consumerVars>>

Slots == 0 .. Capacity - 1

TypeOK ==
    /\ store_ \in [Slots -> Values \cup {Torn}]
    /\ next_write_index_ \in Slots
    /\ next_read_index_ \in Slots
    /\ num_elements_ \in Nat
    /\ ppc \in {"idle", "copying", "copied", "advanced"}
    /\ item \in Values \cup {Torn}
    /\ ppc # "idle" => item \in Values
    /\ cpc \in {"idle", "reading", "read", "advanced", "released"}
    /\ held \in Slots
    /\ sent \in Seq(Values)
    /\ received \in Seq(Values \cup {Torn})
    /\ reread \in Seq(Values \cup {Torn})

Init ==
    /\ store_ = [s \in Slots |-> Torn]
    /\ next_write_index_ = 0
    /\ next_read_index_ = 0
    /\ num_elements_ = 0
    /\ ppc = "idle" /\ item = Torn /\ sent = <<>>
    /\ cpc = "idle" /\ held = 0 /\ received = <<>> /\ reread = <<>>

-----------------------------------------------------------------------------
(* Mutants: plausible mistakes in the code, used to show that the           *)
(* properties below can fail.                                              *)

\* The element is committed although its copy has not finished.
FillSlotLate ==
    /\ ppc = "copying"
    /\ ppc' = "copied"
    /\ UNCHANGED <<store_, next_write_index_, item, sent, num_elements_,
                   consumerVars>>

\* The index is not reduced modulo the size at the end of the ring.
AdvanceReadIndexSticky ==
    /\ cpc = "read"
    /\ next_read_index_' = IF next_read_index_ + 1 = Capacity
                           THEN next_read_index_ ELSE next_read_index_ + 1
    /\ cpc' = "advanced"
    /\ UNCHANGED <<held, received, reread, store_, num_elements_, producerVars>>

\* The index runs past the end of the ring.
AdvanceReadIndexNoWrap ==
    /\ cpc = "read"
    /\ next_read_index_' = next_read_index_ + 1
    /\ cpc' = "advanced"
    /\ UNCHANGED <<held, received, reread, store_, num_elements_, producerVars>>

\* The count is set where it should be incremented.
CommitWriteAssigning ==
    /\ ppc = "advanced"
    /\ num_elements_' = 1
    /\ sent' = Append(sent, item)
    /\ ppc' = "idle"
    /\ UNCHANGED <<store_, next_write_index_, item, consumerVars>>

\* UpdateReadIndex called before the element is used.
GetNextToReadReleasing ==
    /\ cpc = "idle"
    /\ num_elements_ # 0
    /\ held' = next_read_index_
    /\ num_elements_' = num_elements_ - 1
    /\ cpc' = "reading"
    /\ UNCHANGED <<next_read_index_, received, reread, store_, producerVars>>

-----------------------------------------------------------------------------
(* The producer thread.                                                    *)

\* GetNextToWriteTo, and the first half of the copy into the slot.
GetNextToWriteTo(v) ==
    /\ ppc = "idle"
    /\ Len(sent) < MaxWrites
    /\ num_elements_ < MaxInFlight
    /\ item' = v
    /\ store_' = [store_ EXCEPT ![next_write_index_] = Torn]
    /\ ppc' = "copying"
    /\ UNCHANGED <<next_write_index_, sent, num_elements_, consumerVars>>

\* The second half of the copy.
FillSlot ==
    /\ ppc = "copying"
    /\ store_' = [store_ EXCEPT ![next_write_index_] = item]
    /\ ppc' = "copied"
    /\ UNCHANGED <<next_write_index_, item, sent, num_elements_, consumerVars>>

\* UpdateWriteIndex, first statement.
AdvanceWriteIndex ==
    /\ ppc = "copied"
    /\ next_write_index_' = (next_write_index_ + 1) % Capacity
    /\ ppc' = "advanced"
    /\ UNCHANGED <<store_, item, sent, num_elements_, consumerVars>>

\* UpdateWriteIndex, second statement: the element becomes visible.
CommitWrite ==
    /\ ppc = "advanced"
    /\ num_elements_' = num_elements_ + 1
    /\ sent' = Append(sent, item)
    /\ ppc' = "idle"
    /\ UNCHANGED <<store_, next_write_index_, item, consumerVars>>

-----------------------------------------------------------------------------
(* The consumer thread.                                                    *)

\* GetNextToRead returned a slot; with no element the caller polls again.
GetNextToRead ==
    /\ cpc = "idle"
    /\ num_elements_ # 0
    /\ held' = next_read_index_
    /\ cpc' = "reading"
    /\ UNCHANGED <<next_read_index_, received, reread, store_, num_elements_,
                   producerVars>>

\* The caller uses the element.
UseElement ==
    /\ cpc = "reading"
    /\ received' = Append(received, store_[held])
    /\ cpc' = "read"
    /\ UNCHANGED <<next_read_index_, held, reread, store_, num_elements_,
                   producerVars>>

\* UpdateReadIndex, first statement.
AdvanceReadIndex ==
    /\ cpc = "read"
    /\ next_read_index_' = (next_read_index_ + 1) % Capacity
    /\ cpc' = "advanced"
    /\ UNCHANGED <<held, received, reread, store_, num_elements_, producerVars>>

\* UpdateReadIndex, its ASSERT and its last statement: the slot is free.
ReleaseSlot ==
    /\ cpc = "advanced"
    /\ num_elements_ # 0
    /\ num_elements_' = num_elements_ - 1
    /\ cpc' = IF LateReader THEN "released" ELSE "idle"
    /\ UNCHANGED <<next_read_index_, held, received, reread, store_,
                   producerVars>>

\* MarketDataPublisher::Run copies *market_update to the snapshot queue only
\* after it has called UpdateReadIndex.
UseElementAgain ==
    /\ cpc = "released"
    /\ reread' = Append(reread, store_[held])
    /\ cpc' = "idle"
    /\ UNCHANGED <<next_read_index_, held, received, store_, num_elements_,
                   producerVars>>

-----------------------------------------------------------------------------
Producer == \/ \E v \in Values : GetNextToWriteTo(v)
            \/ FillSlot \/ AdvanceWriteIndex \/ CommitWrite

Consumer == \/ GetNextToRead \/ UseElement \/ AdvanceReadIndex
            \/ ReleaseSlot \/ UseElementAgain

Next == Producer \/ Consumer

Spec == Init /\ [][Next]_vars

\* Both threads spin on a core of their own, so a thread that can take its
\* next step eventually does; nothing makes the producer start a write.
FairSpec == /\ Spec
            /\ WF_vars(Consumer)
            /\ WF_vars(FillSlot \/ AdvanceWriteIndex \/ CommitWrite)

-----------------------------------------------------------------------------
(* Properties.                                                             *)

\* The slot the consumer is using is never the one the producer is copying
\* into (the data race GetNextToWriteTo does not guard against), late use
\* after UpdateReadIndex included.
NoSlotRace ==
    (ppc = "copying" /\ cpc \in {"reading", "read", "released"})
        => held # next_write_index_

\* Elements are received whole, in the order they were committed: neither
\* the split between the two indices and num_elements_ nor the reuse of
\* slots loses, repeats or tears one.
ReceivedInOrder ==
    /\ Len(received) <= Len(sent)
    /\ \A i \in 1 .. Len(received) : received[i] = sent[i]

\* What a consumer reads through the pointer after UpdateReadIndex is still
\* the element it had read before.
RereadInOrder ==
    /\ Len(reread) <= Len(received)
    /\ \A i \in 1 .. Len(reread) : reread[i] = sent[i]

\* The ASSERT of UpdateReadIndex holds whenever it is evaluated.
ReleaseHasElement == cpc = "advanced" => num_elements_ # 0

\* The ring implements the FIFO channel.
Abstract == INSTANCE FifoChannel
ImplementsFifoChannel == Abstract!Spec

\* Every committed element is eventually received.
EverythingReceived ==
    \A n \in 1 .. MaxWrites : (Len(sent) >= n) ~> (Len(received) >= n)

==============================================================================
