------------------------ MODULE LockFreeQueueProofs ------------------------
(***************************************************************************)
(* LockFreeQueue implements a FIFO channel for every ring size, element    *)
(* set and load, provided the load never has more elements in flight than  *)
(* there are slots (one fewer when the consumer reads a slot after giving  *)
(* it back).                                                               *)
(***************************************************************************)
EXTENDS LockFreeQueue, TLAPS

\* The assumption on the load under which the missing test for a full ring
\* is harmless.
SizedForLoad ==
    /\ MaxInFlight <= Capacity
    /\ LateReader => MaxInFlight < Capacity

\* Committed elements the consumer has not moved its index past.
Unread == IF cpc = "advanced" THEN num_elements_ - 1 ELSE num_elements_

\* Elements the consumer has moved its index past.
Passed == Len(sent) - Unread

\* The slot i places after the read index.
SlotAt(i) == IF next_read_index_ + i >= Capacity
             THEN next_read_index_ + i - Capacity
             ELSE next_read_index_ + i

\* The counter agrees with the histories and with the load.
CountInv ==
    /\ num_elements_ <= MaxInFlight
    /\ ppc # "idle" => num_elements_ < MaxInFlight
    /\ cpc \in {"reading", "read", "advanced"} => num_elements_ >= 1
    /\ Passed >= 0
    /\ cpc \in {"advanced", "released"} => Passed >= 1
    /\ cpc = "released" => LateReader

\* The write index is as many slots ahead of the read index as there are
\* unread elements, and the consumer's pointer is where its index was.
IndexInv ==
    /\ next_write_index_ = SlotAt(IF ppc = "advanced" THEN Unread + 1 ELSE Unread)
    /\ cpc \in {"reading", "read"} => held = next_read_index_
    /\ cpc \in {"advanced", "released"} => held = SlotAt(Capacity - 1)

\* The unread slots hold the elements sent last, in order; the slot being
\* written holds the producer's element once the copy is done; and a slot
\* just given back still holds its element.
ContentInv ==
    /\ \A i \in 0 .. Unread - 1 : store_[SlotAt(i)] = sent[Passed + i + 1]
    /\ ppc \in {"copied", "advanced"} => store_[SlotAt(Unread)] = item
    /\ cpc \in {"advanced", "released"} => store_[held] = sent[Passed]

\* The histories are as long as the consumer's progress says.
HistoryInv ==
    /\ Len(received) = IF cpc = "read" THEN Passed + 1 ELSE Passed
    /\ Len(reread) <= Passed
    /\ LateReader => Len(reread) = IF cpc \in {"advanced", "released"}
                                   THEN Passed - 1 ELSE Passed
    /\ \A i \in 1 .. Len(received) : received[i] = sent[i]
    /\ \A i \in 1 .. Len(reread) : reread[i] = sent[i]

IInv == TypeOK /\ CountInv /\ IndexInv /\ ContentInv /\ HistoryInv

-----------------------------------------------------------------------------
\* (i + 1) % Capacity, as UpdateWriteIndex and UpdateReadIndex compute it, is
\* the next slot of the ring.
LEMMA NextSlot ==
    ASSUME NEW i \in Slots
    PROVE  (i + 1) % Capacity = IF i + 1 = Capacity THEN 0 ELSE i + 1
  BY QueueAssumption DEF Slots

\* Places in the ring are slots, and places less than a lap apart differ.
LEMMA RingPlaces ==
    ASSUME IInv
    PROVE  /\ \A i \in 0 .. Capacity : SlotAt(i) \in Slots
           /\ \A i, j \in 0 .. Capacity - 1 : i # j => SlotAt(i) # SlotAt(j)
           /\ SlotAt(0) = next_read_index_
           /\ SlotAt(Capacity) = next_read_index_
  BY QueueAssumption DEF IInv, TypeOK, Slots, SlotAt

\* The unread elements fit in the ring, with room for the one being written.
LEMMA UnreadFits ==
    ASSUME SizedForLoad, IInv
    PROVE  /\ Unread \in 0 .. Capacity
           /\ ppc # "idle" => Unread < Capacity
           /\ ppc # "idle" /\ cpc \in {"advanced", "released"}
                => Unread < Capacity - 1
           /\ cpc \in {"reading", "read"} => Unread >= 1
           /\ Passed \in Nat
           /\ Len(sent) = Passed + Unread
  BY QueueAssumption DEF IInv, TypeOK, CountInv, Unread, Passed, SizedForLoad

\* The slot the consumer is about to use holds the oldest unread element.
LEMMA HeldElement ==
    ASSUME SizedForLoad, IInv, cpc = "reading"
    PROVE  store_[held] = sent[Passed + 1]
  <1>1. held = SlotAt(0) /\ Unread >= 1
    BY RingPlaces, UnreadFits DEF IInv, IndexInv
  <1>2. store_[SlotAt(0)] = sent[Passed + 0 + 1]
    BY <1>1, UnreadFits DEF IInv, ContentInv
  <1> QED BY <1>1, <1>2, UnreadFits

\* The queue starts in a state of the inductive invariant.
LEMMA InitIInv == Init => IInv
  <1> SUFFICES ASSUME Init PROVE IInv
    OBVIOUS
  <1>1. TypeOK
    BY QueueAssumption DEF Init, TypeOK, Slots
  <1>2. CountInv
    BY QueueAssumption DEF Init, CountInv, Passed, Unread
  <1>3. IndexInv /\ ContentInv /\ HistoryInv
    BY QueueAssumption
    DEF Init, IndexInv, ContentInv, HistoryInv, Passed, Unread, SlotAt, Slots
  <1> QED BY <1>1, <1>2, <1>3 DEF IInv

\* Every step of either thread keeps the inductive invariant.
LEMMA StepIInv ==
    ASSUME SizedForLoad, IInv, [Next]_vars
    PROVE  IInv'
  <1> USE QueueAssumption
  <1>1. ASSUME NEW v \in Values, GetNextToWriteTo(v) PROVE IInv'
    <2> USE <1>1 DEF GetNextToWriteTo, consumerVars
    <2>1. TypeOK'
      BY DEF IInv, TypeOK
    <2>2. CountInv' /\ IndexInv'
      BY DEF IInv, CountInv, IndexInv, Passed, Unread, SlotAt, TypeOK
    <2>3. ContentInv'
      <3>1. Unread' = Unread /\ Passed' = Passed
        BY DEF Unread, Passed
      <3>2. \A i \in 0 .. Capacity : SlotAt(i)' = SlotAt(i)
        BY DEF SlotAt
      <3>3. /\ next_write_index_ = SlotAt(Unread)
            /\ Unread \in 0 .. Capacity - 1
            /\ cpc \in {"advanced", "released"} => Unread < Capacity - 1
        BY UnreadFits DEF IInv, CountInv, IndexInv, TypeOK, Unread, SizedForLoad
      <3>4. \A i \in 0 .. Unread - 1 : store_'[SlotAt(i)] = store_[SlotAt(i)]
        BY <3>3, RingPlaces DEF IInv, TypeOK
      <3>5. cpc \in {"advanced", "released"} => store_'[held] = store_[held]
        BY <3>3, RingPlaces DEF IInv, TypeOK, IndexInv
      <3>6. (ppc' \in {"copied", "advanced"})
                => store_'[SlotAt(Unread)] = item'
        BY <3>3 DEF IInv, TypeOK
      <3>7. sent' = sent /\ held' = held /\ cpc' = cpc
        OBVIOUS
      <3>8. \A i \in 0 .. Unread' - 1 : store_'[SlotAt(i)'] = sent'[Passed' + i + 1]
        <4> SUFFICES ASSUME NEW i \in 0 .. Unread - 1
                     PROVE  store_'[SlotAt(i)] = sent[Passed + i + 1] /\ i \in 0 .. Capacity
          BY <3>1, <3>2, <3>7
        <4> QED BY <3>3, <3>4 DEF IInv, ContentInv
      <3>9. (cpc' \in {"advanced", "released"}) => store_'[held'] = sent'[Passed']
        BY <3>1, <3>5, <3>7 DEF IInv, ContentInv
      <3>10. SlotAt(Unread)' = SlotAt(Unread)
        BY <3>1, <3>2, <3>3
      <3>11. (ppc' \in {"copied", "advanced"}) => store_'[SlotAt(Unread)'] = item'
        BY <3>6, <3>10
      <3> HIDE <1>1
      <3> QED BY <3>8, <3>9, <3>11, Zenon DEF ContentInv
    <2>4. HistoryInv'
      BY DEF IInv, HistoryInv, Passed, Unread
    <2> QED BY <2>1, <2>2, <2>3, <2>4 DEF IInv
  <1>2. CASE FillSlot
    <2> USE <1>2 DEF FillSlot, consumerVars
    <2>1. TypeOK'
      BY DEF IInv, TypeOK
    <2>2. CountInv' /\ IndexInv'
      BY DEF IInv, CountInv, IndexInv, Passed, Unread, SlotAt, TypeOK
    <2>3. ContentInv'
      <3>1. Unread' = Unread /\ Passed' = Passed
        BY DEF Unread, Passed
      <3>2. \A i \in 0 .. Capacity : SlotAt(i)' = SlotAt(i)
        BY DEF SlotAt
      <3>3. /\ next_write_index_ = SlotAt(Unread)
            /\ Unread \in 0 .. Capacity - 1
            /\ cpc \in {"advanced", "released"} => Unread < Capacity - 1
        BY UnreadFits DEF IInv, CountInv, IndexInv, TypeOK, Unread, SizedForLoad
      <3>4. \A i \in 0 .. Unread - 1 : store_'[SlotAt(i)] = store_[SlotAt(i)]
        BY <3>3, RingPlaces DEF IInv, TypeOK
      <3>5. cpc \in {"advanced", "released"} => store_'[held] = store_[held]
        BY <3>3, RingPlaces DEF IInv, TypeOK, IndexInv
      <3>6. (ppc' \in {"copied", "advanced"})
                => store_'[SlotAt(Unread)] = item'
        BY <3>3 DEF IInv, TypeOK
      <3>7. sent' = sent /\ held' = held /\ cpc' = cpc
        OBVIOUS
      <3>8. \A i \in 0 .. Unread' - 1 : store_'[SlotAt(i)'] = sent'[Passed' + i + 1]
        <4> SUFFICES ASSUME NEW i \in 0 .. Unread - 1
                     PROVE  store_'[SlotAt(i)] = sent[Passed + i + 1] /\ i \in 0 .. Capacity
          BY <3>1, <3>2, <3>7
        <4> QED BY <3>3, <3>4 DEF IInv, ContentInv
      <3>9. (cpc' \in {"advanced", "released"}) => store_'[held'] = sent'[Passed']
        BY <3>1, <3>5, <3>7 DEF IInv, ContentInv
      <3>10. SlotAt(Unread)' = SlotAt(Unread)
        BY <3>1, <3>2, <3>3
      <3>11. (ppc' \in {"copied", "advanced"}) => store_'[SlotAt(Unread)'] = item'
        BY <3>6, <3>10
      <3> HIDE <1>2
      <3> QED BY <3>8, <3>9, <3>11, Zenon DEF ContentInv
    <2>4. HistoryInv'
      BY DEF IInv, HistoryInv, Passed, Unread
    <2> QED BY <2>1, <2>2, <2>3, <2>4 DEF IInv
  <1>3. CASE AdvanceWriteIndex
    <2>0. /\ ppc = "copied" /\ ppc' = "advanced"
          /\ next_write_index_' = IF next_write_index_ + 1 = Capacity
                                  THEN 0 ELSE next_write_index_ + 1
          /\ UNCHANGED <<store_, item, sent, num_elements_, next_read_index_,
                         cpc, held, received, reread>>
      BY <1>3, NextSlot DEF AdvanceWriteIndex, consumerVars, IInv, TypeOK
    <2>1. TypeOK'
      BY <2>0 DEF IInv, TypeOK, Slots
    <2>2. CountInv'
      BY <2>0 DEF IInv, CountInv, Passed, Unread, TypeOK
    <2>3. IndexInv'
      BY <2>0 DEF IInv, TypeOK, CountInv, IndexInv, Unread, SlotAt, Slots,
                  SizedForLoad
    <2>4. ContentInv' /\ HistoryInv'
      BY <2>0 DEF IInv, ContentInv, HistoryInv, Passed, Unread, SlotAt
    <2> QED BY <2>1, <2>2, <2>3, <2>4 DEF IInv
  <1>4. CASE CommitWrite
    <2> USE <1>4 DEF CommitWrite, consumerVars
    <2>1. TypeOK'
      BY DEF IInv, TypeOK
    <2>2. /\ Unread' = Unread + 1
          /\ Len(sent') = Len(sent) + 1
          /\ sent'[Len(sent) + 1] = item
          /\ \A i \in 1 .. Len(sent) : sent'[i] = sent[i]
          /\ Passed' = Passed
      <3>1. sent \in Seq(Values) /\ item \in Values /\ num_elements_ \in Nat
        BY DEF IInv, TypeOK
      <3>2. /\ Len(sent') = Len(sent) + 1
            /\ sent'[Len(sent) + 1] = item
            /\ \A i \in 1 .. Len(sent) : sent'[i] = sent[i]
        BY <3>1
      <3> QED BY <3>1, <3>2 DEF Unread, Passed
    <2>3. CountInv'
      BY <2>2 DEF IInv, CountInv, TypeOK
    <2>4. IndexInv'
      BY <2>2 DEF IInv, IndexInv, TypeOK, SlotAt
    <2>5. \A i \in Nat : SlotAt(i)' = SlotAt(i)
      BY DEF SlotAt
    <2>6. Unread \in Nat /\ Passed \in Nat /\ Len(sent) = Passed + Unread
      BY UnreadFits
    <2>7. ContentInv'
      <3>1. \A i \in 0 .. Unread : store_[SlotAt(i)] = sent'[Passed + i + 1]
        <4> SUFFICES ASSUME NEW i \in 0 .. Unread
                     PROVE  store_[SlotAt(i)] = sent'[Passed + i + 1]
          OBVIOUS
        <4>1. CASE i = Unread
          BY <4>1, <2>2, <2>6 DEF IInv, ContentInv
        <4>2. CASE i # Unread
          BY <4>2, <2>2, <2>6 DEF IInv, ContentInv
        <4> QED BY <4>1, <4>2
      <3>2. cpc \in {"advanced", "released"} => store_[held] = sent'[Passed]
        BY <2>2, <2>6 DEF IInv, ContentInv, CountInv
      <3>3. \A i \in 0 .. Unread' - 1 : store_'[SlotAt(i)'] = sent'[Passed' + i + 1]
        BY <3>1, <2>2, <2>5, <2>6
      <3>4. (cpc' \in {"advanced", "released"}) => store_'[held'] = sent'[Passed']
        BY <3>2, <2>2
      <3>5. ppc' \notin {"copied", "advanced"}
        OBVIOUS
      <3> QED BY <3>3, <3>4, <3>5, Zenon DEF ContentInv
    <2>8. HistoryInv'
      <3>1. Len(received) <= Len(sent) /\ Len(reread) <= Len(sent)
        BY <2>6 DEF IInv, HistoryInv, CountInv, Unread, TypeOK
      <3> QED BY <2>2, <3>1 DEF IInv, HistoryInv, TypeOK
    <2> QED BY <2>1, <2>3, <2>4, <2>7, <2>8 DEF IInv
  <1>5. CASE GetNextToRead
    <2> USE <1>5 DEF GetNextToRead, producerVars
    <2>1. TypeOK'
      BY DEF IInv, TypeOK
    <2>2. Unread' = Unread /\ Passed' = Passed
      BY DEF Unread, Passed
    <2>3. CountInv' /\ IndexInv'
      BY <2>2 DEF IInv, CountInv, IndexInv, SlotAt, TypeOK
    <2>4. ContentInv' /\ HistoryInv'
      BY <2>2 DEF IInv, ContentInv, HistoryInv, SlotAt
    <2> QED BY <2>1, <2>3, <2>4 DEF IInv
  <1>6. CASE UseElement
    <2> USE <1>6 DEF UseElement, producerVars
    <2>1. TypeOK'
      BY DEF IInv, TypeOK
    <2>2. Unread' = Unread /\ Passed' = Passed
      BY DEF Unread, Passed
    <2>3. CountInv' /\ IndexInv'
      BY <2>2 DEF IInv, CountInv, IndexInv, SlotAt, TypeOK
    <2>4. ContentInv'
      BY <2>2 DEF IInv, ContentInv, SlotAt
    <2>5. store_[held] = sent[Passed + 1]
      BY HeldElement
    <2>6. HistoryInv'
      <3>1. Len(received) = Passed /\ Passed \in Nat
        BY UnreadFits DEF IInv, HistoryInv
      <3>2. /\ Len(received') = Passed + 1
            /\ received'[Passed + 1] = store_[held]
            /\ \A i \in 1 .. Passed : received'[i] = received[i]
        BY <3>1 DEF IInv, TypeOK
      <3> QED BY <2>2, <2>5, <3>1, <3>2 DEF IInv, HistoryInv
    <2> QED BY <2>1, <2>3, <2>4, <2>6 DEF IInv
  <1>7. CASE AdvanceReadIndex
    <2>0. /\ cpc = "read" /\ cpc' = "advanced"
          /\ next_read_index_' = IF next_read_index_ + 1 = Capacity
                                 THEN 0 ELSE next_read_index_ + 1
          /\ UNCHANGED <<held, received, reread, store_, num_elements_,
                         next_write_index_, ppc, item, sent>>
      BY <1>7, NextSlot DEF AdvanceReadIndex, producerVars, IInv, TypeOK
    <2>1. TypeOK'
      BY <2>0 DEF IInv, TypeOK, Slots
    <2>2. Unread' = Unread - 1 /\ Passed' = Passed + 1
      BY <2>0 DEF IInv, TypeOK, Unread, Passed
    <2>3. CountInv'
      BY <2>0, <2>2, UnreadFits DEF IInv, TypeOK, CountInv
    <2>4. \A i \in 0 .. Capacity - 1 : SlotAt(i)' = SlotAt(i + 1)
      BY <2>0 DEF IInv, TypeOK, Slots, SlotAt
    <2>5. /\ Unread \in 1 .. Capacity /\ Passed \in Nat
          /\ ppc # "idle" => Unread < Capacity
      BY <2>0, UnreadFits
    <2>6. SlotAt(Capacity) = next_read_index_ /\ SlotAt(0) = next_read_index_
      BY RingPlaces
    <2>7. IndexInv'
      BY <2>0, <2>2, <2>4, <2>5, <2>6 DEF IInv, IndexInv
    <2>8. ContentInv'
      <3>1. \A i \in 0 .. Unread - 2 : store_[SlotAt(i + 1)] = sent[Passed + i + 2]
        <4> SUFFICES ASSUME NEW i \in 0 .. Unread - 2
                     PROVE  store_[SlotAt(i + 1)] = sent[Passed + (i + 1) + 1]
          BY <2>5
        <4> QED BY <2>5 DEF IInv, ContentInv
      <3>2. store_[held] = sent[Passed + 1]
        <4>1. store_[SlotAt(0)] = sent[Passed + 0 + 1]
          BY <2>5 DEF IInv, ContentInv
        <4> QED BY <4>1, <2>0, <2>5, <2>6 DEF IInv, IndexInv
      <3>3. \A i \in 0 .. Unread' - 1 : store_'[SlotAt(i)'] = sent'[Passed' + i + 1]
        BY <2>0, <2>2, <2>4, <2>5, <3>1
      <3>4. SlotAt(Unread)' = SlotAt(Unread)
        BY <2>0, <2>2, <2>5 DEF IInv, TypeOK, Slots, SlotAt
      <3> QED BY <2>0, <2>2, <3>2, <3>3, <3>4 DEF IInv, ContentInv
    <2>9. HistoryInv'
      BY <2>0, <2>2, <2>5 DEF IInv, TypeOK, HistoryInv, CountInv
    <2> QED BY <2>1, <2>3, <2>7, <2>8, <2>9 DEF IInv
  <1>8. CASE ReleaseSlot
    <2> USE <1>8 DEF ReleaseSlot, producerVars
    <2>1. TypeOK'
      BY DEF IInv, TypeOK
    <2>2. Unread' = Unread /\ Passed' = Passed
      BY DEF IInv, TypeOK, Unread, Passed
    <2>3. CountInv' /\ IndexInv'
      BY <2>2 DEF IInv, CountInv, IndexInv, SlotAt, TypeOK
    <2>4. ContentInv' /\ HistoryInv'
      BY <2>2 DEF IInv, TypeOK, ContentInv, HistoryInv, SlotAt
    <2> QED BY <2>1, <2>3, <2>4 DEF IInv
  <1>9. CASE UseElementAgain
    <2> USE <1>9 DEF UseElementAgain, producerVars
    <2>1. TypeOK'
      BY DEF IInv, TypeOK
    <2>2. Unread' = Unread /\ Passed' = Passed
      BY DEF IInv, TypeOK, Unread, Passed
    <2>3. CountInv' /\ IndexInv'
      BY <2>2 DEF IInv, CountInv, IndexInv, SlotAt, TypeOK
    <2>4. ContentInv'
      BY <2>2 DEF IInv, ContentInv, SlotAt
    <2>5. HistoryInv'
      <3>1. Len(reread) = Passed - 1 /\ Passed \in Nat \ {0}
        BY DEF IInv, TypeOK, CountInv, HistoryInv, Unread, Passed
      <3>2. store_[held] = sent[Passed]
        BY DEF IInv, ContentInv
      <3> QED BY <2>2, <3>1, <3>2 DEF IInv, TypeOK, HistoryInv
    <2> QED BY <2>1, <2>3, <2>4, <2>5 DEF IInv
  <1>10. CASE UNCHANGED vars
    BY <1>10 DEF IInv, TypeOK, CountInv, IndexInv, ContentInv, HistoryInv,
                 Passed, Unread, SlotAt, vars, producerVars, consumerVars
  <1> QED
    BY <1>1, <1>2, <1>3, <1>4, <1>5, <1>6, <1>7, <1>8, <1>9, <1>10
    DEF Next, Producer, Consumer

\* The inductive invariant holds throughout, for every capacity and load
\* that fits it.
THEOREM Invariant ==
    ASSUME SizedForLoad
    PROVE  Spec => []IInv
  <1>1. IInv /\ [Next]_vars => IInv'
    BY StepIInv
  <1> QED BY InitIInv, <1>1, PTL DEF Spec

\* The ring stays well formed: indices inside the store, every slot holding
\* an element or one being copied.
THEOREM TypeCorrect ==
    ASSUME SizedForLoad
    PROVE  Spec => []TypeOK
  <1>1. IInv => TypeOK
    BY DEF IInv
  <1> QED BY Invariant, <1>1, PTL

\* The producer never copies into the slot the consumer is using.
THEOREM SlotsNeverRace ==
    ASSUME SizedForLoad
    PROVE  Spec => []NoSlotRace
  <1>1. IInv => NoSlotRace
    BY QueueAssumption
    DEF IInv, TypeOK, CountInv, IndexInv, NoSlotRace, Unread, SlotAt, Slots,
        SizedForLoad
  <1> QED BY Invariant, <1>1, PTL

\* What is received is what was committed, in order and whole.
THEOREM InOrder ==
    ASSUME SizedForLoad
    PROVE  Spec => []ReceivedInOrder
  <1>1. IInv => ReceivedInOrder
    <2> SUFFICES ASSUME IInv PROVE ReceivedInOrder
      OBVIOUS
    <2>1. Len(received) <= Len(sent)
      BY DEF IInv, TypeOK, CountInv, HistoryInv, Unread, Passed
    <2> QED BY <2>1 DEF IInv, HistoryInv, ReceivedInOrder
  <1> QED BY Invariant, <1>1, PTL

\* A consumer that goes on using the pointer of GetNextToRead after
\* UpdateReadIndex, as OrderServer does, still sees the elements in order.
THEOREM LateReadsInOrder ==
    ASSUME SizedForLoad
    PROVE  Spec => []RereadInOrder
  <1>1. IInv => RereadInOrder
    <2> SUFFICES ASSUME IInv PROVE RereadInOrder
      OBVIOUS
    <2>1. Len(reread) <= Len(received)
      BY DEF IInv, TypeOK, CountInv, HistoryInv, Unread, Passed
    <2> QED BY <2>1 DEF IInv, HistoryInv, RereadInOrder
  <1> QED BY Invariant, <1>1, PTL

\* UpdateReadIndex finds its ASSERT true: the read index is never moved past
\* an element that was not committed.
THEOREM AssertionHolds ==
    ASSUME SizedForLoad
    PROVE  Spec => []ReleaseHasElement
  <1>1. IInv => ReleaseHasElement
    BY DEF IInv, TypeOK, CountInv, ReleaseHasElement
  <1> QED BY Invariant, <1>1, PTL

\* The ring implements the FIFO channel: only committing an element sends,
\* only using one receives, and every other step is invisible.
THEOREM Refinement ==
    ASSUME SizedForLoad
    PROVE  Spec => ImplementsFifoChannel
  <1>1. Init => Abstract!Init
    BY DEF Init, Abstract!Init
  <1>2. IInv /\ [Next]_vars => [Abstract!Next]_(Abstract!fifoVars)
    <2> SUFFICES ASSUME IInv, [Next]_vars
                 PROVE  Abstract!Next \/ UNCHANGED <<sent, received>>
      BY DEF Abstract!fifoVars
    <2>1. CASE CommitWrite
      BY <2>1 DEF CommitWrite, consumerVars, IInv, TypeOK, Abstract!Next,
                  Abstract!Send
    <2>2. CASE UseElement
      <3>1. /\ Len(received) = Passed
            /\ Passed < Len(sent)
            /\ store_[held] = sent[Passed + 1]
        BY <2>2, HeldElement, UnreadFits DEF UseElement, IInv, HistoryInv
      <3> QED BY <2>2, <3>1 DEF UseElement, producerVars, Abstract!Next,
                                Abstract!Receive
    <2>3. CASE ~CommitWrite /\ ~UseElement
      BY <2>3 DEF Next, Producer, Consumer, GetNextToWriteTo, FillSlot,
                  AdvanceWriteIndex, GetNextToRead, AdvanceReadIndex,
                  ReleaseSlot, UseElementAgain, vars, producerVars,
                  consumerVars
    <2> QED BY <2>1, <2>2, <2>3
  <1> QED BY Invariant, <1>1, <1>2, PTL
          DEF Spec, ImplementsFifoChannel, Abstract!Spec
==============================================================================
