------------------------- MODULE TradingOrdersProofs -------------------------
(***************************************************************************)
(* A client's position stays within its limit, and every response under    *)
(* way is about the order its slot holds, for all prices, clips and        *)
(* limits.                                                                 *)
(***************************************************************************)
EXTENDS TradingOrders, WellFoundedInduction, TLAPS

\* The responses of one side: the i-th of the queue is the first, it is the
\* last, and the j-th is the next one after it.
OfSide(q, s, i) == i \in 1 .. Len(q) /\ q[i].side = s
FirstOf(q, s, i) == OfSide(q, s, i) /\ \A k \in 1 .. i - 1 : q[k].side # s
LastOf(q, s, i) == OfSide(q, s, i) /\ \A k \in i + 1 .. Len(q) : q[k].side # s
NextOf(q, s, i, j) ==
    /\ OfSide(q, s, i) /\ OfSide(q, s, j) /\ i < j
    /\ \A k \in i + 1 .. j - 1 : q[k].side # s
NoneOf(q, s) == \A k \in 1 .. Len(q) : q[k].side # s

Active(s) == order[s].state \in {"PENDING_NEW", "LIVE", "PENDING_CANCEL"}

\* Order ids grow; a slot that was never used has none; an order that is not
\* accepted yet has all of its quantity.
SlotInv ==
    \A s \in Sides :
        /\ order[s].order_id < next_order_id_
        /\ Active(s) \/ order[s].state = "DEAD" =>
               order[s].order_id > 0 /\ order[s].price \in Prices
        /\ order[s].state = "PENDING_NEW" => order[s].qty > 0

\* What rests at the exchange is the order in the slot.
RestingInv ==
    \A s \in Sides :
        \/ resting[s] = Nothing
        \/ /\ resting[s].order_id = order[s].order_id
           /\ resting[s].leaves > 0 /\ Active(s)

\* A new order under way is the one in the slot, and the exchange has not
\* heard of it; a cancel names the order in the slot, which is then waiting
\* for the answer or dead already, or one that was there before.
RequestsInv ==
    \A i \in 1 .. Len(requests) :
        LET r == requests[i]
        IN  /\ r.type = "NEW" =>
                 /\ order[r.side].state = "PENDING_NEW"
                 /\ r.order_id = order[r.side].order_id
                 /\ r.qty = order[r.side].qty
                 /\ resting[r.side] = Nothing
                 /\ NoneOf(responses, r.side)
                 /\ \A j \in 1 .. Len(requests) :
                      requests[j].type = "NEW" /\ requests[j].side = r.side => j = i
            /\ r.type = "CANCEL" =>
                 /\ r.order_id \in 1 .. order[r.side].order_id
                 /\ r.order_id = order[r.side].order_id =>
                      order[r.side].state \in {"PENDING_CANCEL", "DEAD"}

\* Which responses can be under way: the acceptance comes first, a
\* cancellation and the fill of the rest come last.
ResponsesInv ==
    \A i \in 1 .. Len(responses) :
        LET r == responses[i]
        IN  /\ r.type = "CANCEL_REJECTED" <=> r.side \notin Sides
            /\ r.side \in Sides => r.order_id = order[r.side].order_id /\ Active(r.side)
            /\ r.type = "ACCEPTED" =>
                 /\ order[r.side].state = "PENDING_NEW"
                 /\ FirstOf(responses, r.side, i)
                 /\ r.exec = 0
            /\ r.side \in Sides /\ order[r.side].state = "PENDING_NEW"
                 /\ FirstOf(responses, r.side, i) => r.type = "ACCEPTED"
            /\ r.type = "CANCELED" \/ (r.type = "FILLED" /\ r.leaves = 0) =>
                 /\ LastOf(responses, r.side, i)
                 /\ resting[r.side] = Nothing
            /\ r.type = "CANCELED" => r.exec = 0

\* Each response takes up where the one before left off, from the quantity
\* in the slot to what rests.
ChainInv ==
    \A s \in Sides :
        /\ \A i \in 1 .. Len(responses) :
             FirstOf(responses, s, i) =>
                 responses[i].exec + responses[i].leaves = order[s].qty
        /\ \A i, j \in 1 .. Len(responses) :
             NextOf(responses, s, i, j) =>
                 responses[j].exec + responses[j].leaves = responses[i].leaves
        /\ \A i \in 1 .. Len(responses) :
             LastOf(responses, s, i) =>
                 \/ responses[i].leaves = resting[s].leaves
                 \/ responses[i].type = "CANCELED"
        /\ NoneOf(responses, s) =>
             CASE order[s].state = "PENDING_NEW" -> resting[s] = Nothing
               [] order[s].state \in {"LIVE", "PENDING_CANCEL"} ->
                      resting[s].leaves = order[s].qty
               [] OTHER -> TRUE

\* What the slot of a side can still add to the position.
Open(s) == IF Active(s) THEN order[s].qty ELSE 0

\* The limit holds even if everything open on one side is filled.
LimitInv ==
    /\ position_ + Open("BUY") <= MaxPosition
    /\ position_ - Open("SELL") >= -MaxPosition

IInv == /\ TypeOK /\ SlotInv /\ RestingInv /\ RequestsInv /\ ResponsesInv
        /\ ChainInv /\ LimitInv

-----------------------------------------------------------------------------
(* Positions of a side's responses in the queue.                           *)

\* Taking the head off a queue moves every other place one to the front; the
\* next one of the head's side becomes the first.
LEMMA TailPlaces ==
    ASSUME NEW q \in Seq(Response), q # <<>>, NEW s
    PROVE  /\ Len(Tail(q)) = Len(q) - 1
           /\ \A i \in 1 .. Len(Tail(q)) : Tail(q)[i] = q[i + 1]
           /\ \A i \in 1 .. Len(Tail(q)) :
                /\ LastOf(Tail(q), s, i) <=> LastOf(q, s, i + 1)
                /\ FirstOf(Tail(q), s, i) <=>
                     IF Head(q).side = s THEN NextOf(q, s, 1, i + 1)
                                         ELSE FirstOf(q, s, i + 1)
           /\ \A i, j \in 1 .. Len(Tail(q)) :
                NextOf(Tail(q), s, i, j) <=> NextOf(q, s, i + 1, j + 1)
           /\ NoneOf(Tail(q), s) <=>
                IF Head(q).side = s THEN LastOf(q, s, 1) ELSE NoneOf(q, s)
           /\ Head(q) = q[1]
           /\ Head(q).side = s => FirstOf(q, s, 1)
  <1>1. /\ Len(q) \in Nat /\ Len(q) > 0 /\ Len(Tail(q)) = Len(q) - 1
        /\ \A i \in 1 .. Len(q) - 1 : Tail(q)[i] = q[i + 1]
        /\ Head(q) = q[1]
    OBVIOUS
  <1> HIDE DEF Response
  <1> DEFINE t == Tail(q)
             n == Len(q)
  <1>2. /\ n \in Nat /\ n > 0 /\ Len(t) = n - 1
        /\ \A i \in 1 .. n - 1 : t[i] = q[i + 1]
        /\ \A i \in 2 .. n : q[i] = t[i - 1]
    BY <1>1
  <1> HIDE DEF t, n
  <1>3. /\ \A i \in 1 .. n - 1 : OfSide(t, s, i) <=> OfSide(q, s, i + 1)
        /\ \A i \in 1 .. n - 1 : i + 1 \in 1 .. n
        /\ OfSide(q, s, 1) <=> q[1].side = s
    BY <1>2 DEF OfSide, n
  <1>4. ASSUME NEW i \in 1 .. n - 1, NEW j \in 1 .. n
        PROVE  (\A k \in i + 1 .. j - 1 : t[k].side # s)
                   <=> (\A k \in (i + 1) + 1 .. (j + 1) - 1 : q[k].side # s)
    <2>1. ASSUME \A k \in i + 1 .. j - 1 : t[k].side # s,
                 NEW k \in (i + 1) + 1 .. (j + 1) - 1
          PROVE  q[k].side # s
      <3>1. k - 1 \in i + 1 .. j - 1 /\ q[k] = t[k - 1]
        BY <1>2
      <3> QED BY <2>1, <3>1
    <2>2. ASSUME \A k \in (i + 1) + 1 .. (j + 1) - 1 : q[k].side # s,
                 NEW k \in i + 1 .. j - 1
          PROVE  t[k].side # s
      <3>1. k + 1 \in (i + 1) + 1 .. (j + 1) - 1 /\ t[k] = q[k + 1]
        BY <1>2
      <3> QED BY <2>2, <3>1
    <2> QED BY <2>1, <2>2
  <1>5. ASSUME NEW i \in 1 .. n - 1
        PROVE  LastOf(t, s, i) <=> LastOf(q, s, i + 1)
    <2>1. (\A k \in i + 1 .. n - 1 : t[k].side # s)
              <=> (\A k \in (i + 1) + 1 .. (n + 1) - 1 : q[k].side # s)
      <3>1. n \in 1 .. n
        BY <1>2
      <3> QED BY <1>4, <3>1, Zenon
    <2>2. (n + 1) - 1 = n /\ Len(q) = n
      BY <1>2 DEF n
    <2> QED BY <1>2, <1>3, <2>1, <2>2 DEF LastOf
  <1>8. ASSUME NEW i \in 1 .. n - 1, NEW j \in 1 .. n - 1
        PROVE  NextOf(t, s, i, j) <=> NextOf(q, s, i + 1, j + 1)
    <2>1. (i < j <=> i + 1 < j + 1) /\ j \in 1 .. n
      BY <1>2
    <2>2. (\A k \in i + 1 .. j - 1 : t[k].side # s)
              <=> (\A k \in (i + 1) + 1 .. (j + 1) - 1 : q[k].side # s)
      BY <1>4, <2>1, Zenon
    <2> QED BY <1>3, <2>1, <2>2 DEF NextOf
  <1>9. ASSUME NEW i \in 1 .. n - 1
        PROVE  FirstOf(t, s, i) <=>
                   IF q[1].side = s THEN NextOf(q, s, 1, i + 1) ELSE FirstOf(q, s, i + 1)
    <2>1. ASSUME \A k \in 1 .. i - 1 : t[k].side # s, NEW k \in 2 .. i
          PROVE  q[k].side # s
      <3>1. k - 1 \in 1 .. i - 1 /\ q[k] = t[k - 1]
        BY <1>2
      <3> QED BY <2>1, <3>1
    <2>2. ASSUME \A k \in 2 .. i : q[k].side # s, NEW k \in 1 .. i - 1
          PROVE  t[k].side # s
      <3>1. k + 1 \in 2 .. i /\ t[k] = q[k + 1]
        BY <1>2
      <3> QED BY <2>2, <3>1
    <2>3. FirstOf(t, s, i) <=> OfSide(q, s, i + 1) /\ \A k \in 2 .. i : q[k].side # s
      BY <1>3, <2>1, <2>2 DEF FirstOf
    <2>4. NextOf(q, s, 1, i + 1) <=>
              /\ q[1].side = s /\ OfSide(q, s, i + 1)
              /\ \A k \in 2 .. i : q[k].side # s
      BY <1>2, <1>3 DEF NextOf
    <2>5. FirstOf(q, s, i + 1) <=>
              /\ q[1].side # s /\ OfSide(q, s, i + 1)
              /\ \A k \in 2 .. i : q[k].side # s
      BY <1>2, <1>3 DEF FirstOf
    <2> QED BY <2>3, <2>4, <2>5
  <1>6. NoneOf(t, s) <=> IF q[1].side = s THEN LastOf(q, s, 1) ELSE NoneOf(q, s)
    BY <1>2 DEF NoneOf, LastOf, OfSide, n
  <1>7. q[1].side = s => FirstOf(q, s, 1)
    BY <1>2 DEF FirstOf, OfSide, n
  <1> QED BY <1>1, <1>2, <1>5, <1>6, <1>7, <1>8, <1>9 DEF t, n

\* A response put at the end of the queue is the last one of its side, and
\* comes next after the one that was last, or first when there was none.
LEMMA AppendPlaces ==
    ASSUME NEW q \in Seq(Response), NEW x \in Response, NEW s
    PROVE  LET p == Append(q, x)
               n == Len(q)
           IN  /\ Len(p) = n + 1 /\ p[n + 1] = x
               /\ \A i \in 1 .. n : p[i] = q[i]
               /\ \A i \in 1 .. n :
                    /\ FirstOf(p, s, i) <=> FirstOf(q, s, i)
                    /\ LastOf(p, s, i) <=> LastOf(q, s, i) /\ x.side # s
                    /\ NextOf(p, s, i, n + 1) <=> LastOf(q, s, i) /\ x.side = s
               /\ \A i, j \in 1 .. n : NextOf(p, s, i, j) <=> NextOf(q, s, i, j)
               /\ FirstOf(p, s, n + 1) <=> NoneOf(q, s) /\ x.side = s
               /\ LastOf(p, s, n + 1) <=> x.side = s
               /\ \A j \in 1 .. n + 1 : ~NextOf(p, s, n + 1, j)
               /\ NoneOf(p, s) <=> NoneOf(q, s) /\ x.side # s
  <1> DEFINE p == Append(q, x)
             n == Len(q)
  <1>1. /\ n \in Nat /\ Len(p) = n + 1 /\ p[n + 1] = x
        /\ \A i \in 1 .. n : p[i] = q[i]
    OBVIOUS
  <1> HIDE DEF p, n
  <1>2. ASSUME NEW i \in 1 .. n
        PROVE  /\ FirstOf(p, s, i) <=> FirstOf(q, s, i)
               /\ LastOf(p, s, i) <=> LastOf(q, s, i) /\ x.side # s
               /\ NextOf(p, s, i, n + 1) <=> LastOf(q, s, i) /\ x.side = s
    BY <1>1 DEF FirstOf, LastOf, NextOf, OfSide, n
  <1>3. ASSUME NEW i \in 1 .. n, NEW j \in 1 .. n
        PROVE  NextOf(p, s, i, j) <=> NextOf(q, s, i, j)
    BY <1>1 DEF NextOf, OfSide, n
  <1>4. /\ FirstOf(p, s, n + 1) <=> NoneOf(q, s) /\ x.side = s
        /\ LastOf(p, s, n + 1) <=> x.side = s
        /\ \A j \in 1 .. n + 1 : ~NextOf(p, s, n + 1, j)
        /\ NoneOf(p, s) <=> NoneOf(q, s) /\ x.side # s
    BY <1>1 DEF FirstOf, LastOf, NextOf, NoneOf, OfSide, n
  <1> QED BY <1>1, <1>2, <1>3, <1>4 DEF p, n

-----------------------------------------------------------------------------
(* The steps of the engine.                                                *)

\* What a response does to the slot of its side, and what is known of it
\* when it comes to the head of the queue.
LEMMA HeadResponse ==
    ASSUME IInv, ProcessResponse
    PROVE  LET r == responses[1]
               s == r.side
           IN  /\ r \in Response /\ Head(responses) = r
               /\ responses \in Seq(Response) /\ responses # <<>>
               /\ r.exec \in Nat /\ r.leaves \in Nat
               /\ s \notin Sides => r.type = "CANCEL_REJECTED" /\ order' = order
               /\ s \in Sides =>
                    /\ FirstOf(responses, s, 1)
                    /\ r.type \in {"ACCEPTED", "CANCELED", "FILLED"}
                    /\ r.exec + r.leaves = order[s].qty
                    /\ r.type # "FILLED" => r.exec = 0
                    /\ order[s].state =
                         IF r.type = "ACCEPTED" THEN "PENDING_NEW" ELSE order[s].state
                    /\ r.type # "ACCEPTED" =>
                         order[s].state \in {"LIVE", "PENDING_CANCEL"}
                    /\ \A z \in Sides : z # s => order'[z] = order[z]
                    /\ order'[s].order_id = order[s].order_id
                    /\ order'[s].price = order[s].price
                    /\ order'[s].qty \in Nat
                    /\ r.type # "CANCELED" => order'[s].qty = r.leaves
                    /\ order'[s].state =
                         IF r.type = "ACCEPTED" THEN "LIVE"
                         ELSE IF r.type = "CANCELED" \/ r.leaves = 0 THEN "DEAD"
                         ELSE order[s].state
                    /\ order'[s].state = "DEAD" =>
                         LastOf(responses, s, 1) /\ resting[s] = Nothing
  <1> DEFINE r == responses[1]
             s == r.side
  <1>1. /\ responses \in Seq(Response) /\ responses # <<>>
        /\ Head(responses) = r /\ r \in Response /\ 1 \in 1 .. Len(responses)
    BY DEF ProcessResponse, IInv, TypeOK
  <1>2. order' = OnOrderUpdate(r)
    BY <1>1 DEF ProcessResponse
  <1>3. /\ r.exec \in Nat /\ r.leaves \in Nat
        /\ r.type \in {"ACCEPTED", "CANCELED", "FILLED", "CANCEL_REJECTED"}
    BY <1>1 DEF Response
  <1>4. /\ r.type = "CANCEL_REJECTED" <=> s \notin Sides
        /\ s \in Sides => r.order_id = order[s].order_id /\ Active(s)
        /\ r.type = "ACCEPTED" => order[s].state = "PENDING_NEW" /\ r.exec = 0
        /\ s \in Sides /\ order[s].state = "PENDING_NEW" /\ FirstOf(responses, s, 1)
             => r.type = "ACCEPTED"
        /\ r.type = "CANCELED" \/ (r.type = "FILLED" /\ r.leaves = 0) =>
             LastOf(responses, s, 1) /\ resting[s] = Nothing
        /\ r.type = "CANCELED" => r.exec = 0
    BY <1>1 DEF IInv, ResponsesInv
  <1>5. FirstOf(responses, s, 1)
    BY <1>1, TailPlaces
  <1> HIDE DEF r, s
  <1>6. CASE s \notin Sides
    BY <1>1, <1>2, <1>3, <1>4, <1>6 DEF OnOrderUpdate, r, s
  <1>7. CASE s \in Sides
    <2>1. order \in [Sides -> OMOrder] /\ order[s] \in OMOrder
      BY <1>7 DEF IInv, TypeOK
    <2>2. r.exec + r.leaves = order[s].qty
      BY <1>1, <1>5, <1>7 DEF IInv, ChainInv, r
    <2>3. CASE r.type = "ACCEPTED"
      <3>1. order' = [order EXCEPT ![s].state = "LIVE"]
        BY <1>2, <2>3 DEF OnOrderUpdate, s
      <3>2. /\ order'[s] = [order[s] EXCEPT !.state = "LIVE"]
            /\ \A z \in Sides : z # s => order'[z] = order[z]
        BY <1>7, <2>1, <3>1
      <3>3. r.leaves = order[s].qty
        BY <1>3, <1>4, <2>2, <2>3
      <3> QED
        BY <1>1, <1>3, <1>4, <1>5, <1>7, <2>1, <2>2, <2>3, <3>2, <3>3
        DEF OMOrder, r, s
    <2>4. CASE r.type = "CANCELED"
      <3>1. order' = [order EXCEPT ![s].state = "DEAD"]
        BY <1>2, <2>4 DEF OnOrderUpdate, s
      <3>2. /\ order'[s] = [order[s] EXCEPT !.state = "DEAD"]
            /\ \A z \in Sides : z # s => order'[z] = order[z]
        BY <1>7, <2>1, <3>1
      <3> QED
        BY <1>1, <1>3, <1>4, <1>5, <1>7, <2>1, <2>2, <2>4, <3>2
        DEF OMOrder, Active, r, s
    <2>5. CASE r.type = "FILLED"
      <3>1. order' = [order EXCEPT ![s].qty = r.leaves,
                                   ![s].state = IF r.leaves = 0 THEN "DEAD" ELSE @]
        BY <1>2, <2>5 DEF OnOrderUpdate, s
      <3>2. /\ order'[s] = [order[s] EXCEPT !.qty = r.leaves,
                              !.state = IF r.leaves = 0 THEN "DEAD" ELSE @]
            /\ \A z \in Sides : z # s => order'[z] = order[z]
        BY <1>7, <2>1, <3>1
      <3> QED
        BY <1>1, <1>3, <1>4, <1>5, <1>7, <2>1, <2>2, <2>5, <3>2
        DEF OMOrder, Active, r, s
    <2> QED BY <1>3, <1>4, <1>7, <2>3, <2>4, <2>5
  <1> QED BY <1>6, <1>7

\* TradingEngine::OnOrderUpdate: a response is applied to the slot of its
\* side, and a fill to the position.
LEMMA ResponseKeeps ==
    ASSUME IInv, ProcessResponse
    PROVE  IInv'
  <1> DEFINE r == responses[1]
             s == r.side
             q == responses
             t == Tail(responses)
  <1>1. /\ responses' = t
        /\ UNCHANGED <<algo, phase, next_order_id_, updates, published, requests, resting>>
        /\ position_' = IF r.type = "FILLED"
                        THEN position_ + SideToValue(s) * r.exec ELSE position_
    BY HeadResponse DEF ProcessResponse, AddFill
  <1>2. /\ order \in [Sides -> OMOrder] /\ DOMAIN order = Sides
        /\ position_ \in Int /\ resting \in [Sides -> [order_id : Nat, leaves : Nat]]
        /\ requests \in Seq(Request)
        /\ next_order_id_ \in Nat
    BY DEF IInv, TypeOK
  <1>3. order' \in [Sides -> OMOrder]
    <2>1. order' = OnOrderUpdate(r)
      BY HeadResponse DEF ProcessResponse
    <2>2. r.leaves \in Nat /\ r.type \in {"ACCEPTED", "CANCELED", "FILLED", "CANCEL_REJECTED"}
      BY HeadResponse DEF Response
    <2> HIDE DEF r
    <2>3. \A z \in Sides : order[z] \in OMOrder
      BY <1>2
    <2>4. CASE r.type = "ACCEPTED"
      <3>1. order' = [order EXCEPT ![r.side].state = "LIVE"]
        BY <2>1, <2>4 DEF OnOrderUpdate
      <3> QED BY <1>2, <2>3, <3>1 DEF OMOrder, States
    <2>5. CASE r.type = "CANCELED"
      <3>1. order' = [order EXCEPT ![r.side].state = "DEAD"]
        BY <2>1, <2>5 DEF OnOrderUpdate
      <3> QED BY <1>2, <2>3, <3>1 DEF OMOrder, States
    <2>6. CASE r.type = "FILLED"
      <3>1. order' = [order EXCEPT ![r.side].qty = r.leaves,
                          ![r.side].state = IF r.leaves = 0 THEN "DEAD" ELSE @]
        BY <2>1, <2>6 DEF OnOrderUpdate
      <3>2. ASSUME NEW z \in Sides PROVE order'[z] \in OMOrder
        <4>1. CASE z = r.side
          <5>1. order'[z] = [order[z] EXCEPT !.qty = r.leaves,
                               !.state = IF r.leaves = 0 THEN "DEAD" ELSE @]
            BY <1>2, <3>1, <4>1
          <5> QED BY <2>2, <2>3, <5>1 DEF OMOrder, States
        <4>2. CASE z # r.side
          BY <1>2, <2>3, <3>1, <4>2
        <4> QED BY <4>1, <4>2
      <3> QED BY <1>2, <3>1, <3>2
    <2>7. CASE r.type = "CANCEL_REJECTED"
      BY <1>2, <2>1, <2>7 DEF OnOrderUpdate
    <2> QED BY <2>2, <2>4, <2>5, <2>6, <2>7
  <1>4. TypeOK'
    <2>1. t \in Seq(Response)
      BY HeadResponse
    <2>2. position_' \in Int
      BY <1>1, <1>2, HeadResponse DEF SideToValue
    <2> QED BY <1>1, <1>3, <2>1, <2>2 DEF IInv, TypeOK
  <1>5. \A z \in Sides :
            /\ order'[z].order_id = order[z].order_id
            /\ order'[z].price = order[z].price
            /\ z # s => order'[z] = order[z]
            /\ order[z].state \in {"INVALID", "DEAD"} =>
                 order'[z].state \in {"INVALID", "DEAD"}
    BY HeadResponse
  <1>6. SlotInv' /\ RestingInv'
    <2> SUFFICES ASSUME NEW z \in Sides
                 PROVE  /\ order'[z].order_id < next_order_id_'
                        /\ Active(z)' \/ order'[z].state = "DEAD" =>
                             order'[z].order_id > 0 /\ order'[z].price \in Prices
                        /\ order'[z].state = "PENDING_NEW" => order'[z].qty > 0
                        /\ \/ resting'[z] = Nothing
                           \/ /\ resting'[z].order_id = order'[z].order_id
                              /\ resting'[z].leaves > 0 /\ Active(z)'
      BY DEF SlotInv, RestingInv
    <2>1. /\ order[z].order_id < next_order_id_
          /\ Active(z) \/ order[z].state = "DEAD" =>
               order[z].order_id > 0 /\ order[z].price \in Prices
          /\ order[z].state = "PENDING_NEW" => order[z].qty > 0
          /\ \/ resting[z] = Nothing
             \/ /\ resting[z].order_id = order[z].order_id
                /\ resting[z].leaves > 0 /\ Active(z)
      BY DEF IInv, SlotInv, RestingInv
    <2>2. CASE z # s
      BY <1>1, <1>5, <2>1, <2>2 DEF Active
    <2>3. CASE z = s
      BY <1>1, <1>5, <2>1, <2>3, HeadResponse DEF Active
    <2> QED BY <2>2, <2>3
  <1>7. RequestsInv'
    <2> SUFFICES ASSUME NEW i \in 1 .. Len(requests)
                 PROVE  LET m == requests[i]
                        IN  /\ m.type = "NEW" =>
                                 /\ order'[m.side].state = "PENDING_NEW"
                                 /\ m.order_id = order'[m.side].order_id
                                 /\ m.qty = order'[m.side].qty
                                 /\ resting[m.side] = Nothing
                                 /\ NoneOf(t, m.side)
                                 /\ \A j \in 1 .. Len(requests) :
                                      requests[j].type = "NEW"
                                        /\ requests[j].side = m.side => j = i
                            /\ m.type = "CANCEL" =>
                                 /\ m.order_id \in 1 .. order'[m.side].order_id
                                 /\ m.order_id = order'[m.side].order_id =>
                                      order'[m.side].state \in {"PENDING_CANCEL", "DEAD"}
      BY <1>1 DEF RequestsInv
    <2> DEFINE m == requests[i]
    <2>1. m.side \in Sides
      <3>1. m \in Request
        BY <1>2
      <3> QED BY <3>1 DEF Request
    <2>2. /\ m.type = "NEW" =>
               /\ order[m.side].state = "PENDING_NEW"
               /\ m.order_id = order[m.side].order_id
               /\ m.qty = order[m.side].qty
               /\ resting[m.side] = Nothing
               /\ NoneOf(q, m.side)
               /\ \A j \in 1 .. Len(requests) :
                    requests[j].type = "NEW" /\ requests[j].side = m.side => j = i
          /\ m.type = "CANCEL" =>
               /\ m.order_id \in 1 .. order[m.side].order_id
               /\ m.order_id = order[m.side].order_id =>
                    order[m.side].state \in {"PENDING_CANCEL", "DEAD"}
      BY DEF IInv, RequestsInv
    <2>3. m.type = "NEW" => m.side # s
      BY <2>2, HeadResponse DEF NoneOf, FirstOf, OfSide
    <2>4. m.type = "NEW" => NoneOf(t, m.side)
      BY <2>2, <2>3, HeadResponse, TailPlaces
    <2>5. m.type = "CANCEL" /\ m.order_id = order[m.side].order_id =>
              order'[m.side].state \in {"PENDING_CANCEL", "DEAD"}
      BY <1>5, <2>1, <2>2, HeadResponse
    <2> HIDE DEF m
    <2>6. order'[m.side].order_id = order[m.side].order_id
      BY <1>5, <2>1
    <2>7. m.type = "NEW" => order'[m.side] = order[m.side]
      BY <1>5, <2>1, <2>3
    <2> QED BY <2>2, <2>4, <2>5, <2>6, <2>7 DEF m
  <1>8. /\ Len(t) = Len(q) - 1 /\ Len(q) \in Nat /\ Len(q) > 0
        /\ \A i \in 1 .. Len(t) : t[i] = q[i + 1] /\ i + 1 \in 1 .. Len(q)
        /\ Head(q) = r
    BY HeadResponse, TailPlaces
  <1>9. ASSUME NEW z
        PROVE  /\ \A i \in 1 .. Len(t) :
                    /\ LastOf(t, z, i) <=> LastOf(q, z, i + 1)
                    /\ FirstOf(t, z, i) <=> IF s = z THEN NextOf(q, z, 1, i + 1)
                                                     ELSE FirstOf(q, z, i + 1)
               /\ \A i, j \in 1 .. Len(t) : NextOf(t, z, i, j) <=> NextOf(q, z, i + 1, j + 1)
               /\ NoneOf(t, z) <=> IF s = z THEN LastOf(q, z, 1) ELSE NoneOf(q, z)
    BY HeadResponse, TailPlaces
  <1>10. ResponsesInv'
    <2> SUFFICES ASSUME NEW i \in 1 .. Len(t)
                 PROVE  LET m == t[i]
                        IN  /\ m.type = "CANCEL_REJECTED" <=> m.side \notin Sides
                            /\ m.side \in Sides =>
                                 /\ m.order_id = order'[m.side].order_id
                                 /\ order'[m.side].state \in
                                      {"PENDING_NEW", "LIVE", "PENDING_CANCEL"}
                            /\ m.type = "ACCEPTED" =>
                                 /\ order'[m.side].state = "PENDING_NEW"
                                 /\ FirstOf(t, m.side, i)
                                 /\ m.exec = 0
                            /\ m.side \in Sides /\ order'[m.side].state = "PENDING_NEW"
                                 /\ FirstOf(t, m.side, i) => m.type = "ACCEPTED"
                            /\ m.type = "CANCELED" \/ (m.type = "FILLED" /\ m.leaves = 0) =>
                                 /\ LastOf(t, m.side, i)
                                 /\ resting[m.side] = Nothing
                            /\ m.type = "CANCELED" => m.exec = 0
      BY <1>1 DEF ResponsesInv, Active
    <2> DEFINE m == t[i]
    <2>1. m = q[i + 1] /\ i + 1 \in 1 .. Len(q)
      BY <1>8
    <2>2. /\ m.type = "CANCEL_REJECTED" <=> m.side \notin Sides
          /\ m.side \in Sides => m.order_id = order[m.side].order_id /\ Active(m.side)
          /\ m.type = "ACCEPTED" =>
               /\ order[m.side].state = "PENDING_NEW"
               /\ FirstOf(q, m.side, i + 1)
               /\ m.exec = 0
          /\ m.side \in Sides /\ order[m.side].state = "PENDING_NEW"
               /\ FirstOf(q, m.side, i + 1) => m.type = "ACCEPTED"
          /\ m.type = "CANCELED" \/ (m.type = "FILLED" /\ m.leaves = 0) =>
               /\ LastOf(q, m.side, i + 1)
               /\ resting[m.side] = Nothing
          /\ m.type = "CANCELED" => m.exec = 0
      BY <2>1 DEF IInv, ResponsesInv
    <2>3. /\ LastOf(t, m.side, i) <=> LastOf(q, m.side, i + 1)
          /\ FirstOf(t, m.side, i) <=>
               IF s = m.side THEN NextOf(q, m.side, 1, i + 1)
                             ELSE FirstOf(q, m.side, i + 1)
      BY <1>9
    <2> HIDE DEF m, r, t
    <2>4. CASE m.side # s
      BY <1>5, <2>2, <2>3, <2>4 DEF Active, m
    <2>5. CASE m.side = s /\ s \in Sides
      <3>1. order'[s].state # "DEAD"
        <4>1. ~LastOf(q, s, 1)
          BY <1>8, <2>1, <2>5 DEF LastOf
        <4> QED BY <2>5, <4>1, HeadResponse DEF r
      <3>2. ~FirstOf(q, s, i + 1)
        BY <1>8 DEF FirstOf, r
      <3>3. order'[s].state \in {"LIVE", "PENDING_CANCEL"}
        BY <2>5, <3>1, HeadResponse DEF r
      <3>4. m.type # "ACCEPTED"
        BY <2>2, <2>5, <3>2
      <3> QED BY <1>5, <2>2, <2>3, <2>5, <3>3, <3>4 DEF Active, m
    <2>6. CASE m.side = s /\ s \notin Sides
      <3>1. m.type = "CANCEL_REJECTED"
        BY <2>2, <2>6
      <3> QED BY <2>2, <2>6, <3>1 DEF m
    <2> QED BY <2>4, <2>5, <2>6 DEF m
  <1>11. ChainInv'
    <2> SUFFICES ASSUME NEW z \in Sides
                 PROVE  /\ \A i \in 1 .. Len(t) :
                             FirstOf(t, z, i) => t[i].exec + t[i].leaves = order'[z].qty
                        /\ \A i, j \in 1 .. Len(t) :
                             NextOf(t, z, i, j) => t[j].exec + t[j].leaves = t[i].leaves
                        /\ \A i \in 1 .. Len(t) :
                             LastOf(t, z, i) =>
                                 \/ t[i].leaves = resting[z].leaves
                                 \/ t[i].type = "CANCELED"
                        /\ NoneOf(t, z) =>
                             CASE order'[z].state = "PENDING_NEW" -> resting[z] = Nothing
                               [] order'[z].state \in {"LIVE", "PENDING_CANCEL"} ->
                                      resting[z].leaves = order'[z].qty
                               [] OTHER -> TRUE
      BY <1>1 DEF ChainInv
    <2>1. /\ \A i \in 1 .. Len(q) :
               FirstOf(q, z, i) => q[i].exec + q[i].leaves = order[z].qty
          /\ \A i, j \in 1 .. Len(q) :
               NextOf(q, z, i, j) => q[j].exec + q[j].leaves = q[i].leaves
          /\ \A i \in 1 .. Len(q) :
               LastOf(q, z, i) =>
                   \/ q[i].leaves = resting[z].leaves
                   \/ q[i].type = "CANCELED"
          /\ NoneOf(q, z) =>
               CASE order[z].state = "PENDING_NEW" -> resting[z] = Nothing
                 [] order[z].state \in {"LIVE", "PENDING_CANCEL"} ->
                        resting[z].leaves = order[z].qty
                 [] OTHER -> TRUE
      BY DEF IInv, ChainInv
    <2>2. \A i, j \in 1 .. Len(t) :
               NextOf(t, z, i, j) => t[j].exec + t[j].leaves = t[i].leaves
      BY <1>8, <1>9, <2>1
    <2>3. \A i \in 1 .. Len(t) :
              LastOf(t, z, i) => \/ t[i].leaves = resting[z].leaves
                                 \/ t[i].type = "CANCELED"
      BY <1>8, <1>9, <2>1
    <2>4. CASE z # s
      BY <1>5, <1>8, <1>9, <2>1, <2>2, <2>3, <2>4
    <2>5. CASE z = s
      <3>1. /\ r.type # "CANCELED" => order'[z].qty = r.leaves
            /\ r.type = "CANCELED" => order'[z].state = "DEAD"
            /\ order'[z].state = "DEAD" => LastOf(q, z, 1)
            /\ order'[z].state # "PENDING_NEW"
        BY <2>5, HeadResponse
      <3>2. ASSUME NEW i \in 1 .. Len(t), FirstOf(t, z, i)
            PROVE  t[i].exec + t[i].leaves = order'[z].qty
        <4>1. NextOf(q, z, 1, i + 1) /\ i + 1 \in 1 .. Len(q) /\ 1 \in 1 .. Len(q)
          BY <1>8, <1>9, <2>5, <3>2
        <4>2. q[i + 1].exec + q[i + 1].leaves = r.leaves
          BY <2>1, <4>1
        <4>3. ~LastOf(q, z, 1)
          BY <4>1 DEF NextOf, LastOf, OfSide
        <4> QED BY <1>8, <3>1, <4>2, <4>3
      <3>3. ASSUME NoneOf(t, z), order'[z].state \in {"LIVE", "PENDING_CANCEL"}
            PROVE  resting[z].leaves = order'[z].qty
        <4>1. LastOf(q, z, 1) /\ 1 \in 1 .. Len(q)
          BY <1>8, <1>9, <2>5, <3>3
        <4> QED BY <2>1, <3>1, <3>3, <4>1
      <3> QED BY <2>2, <2>3, <3>1, <3>2, <3>3
    <2> QED BY <2>4, <2>5
  <1>12. LimitInv'
    <2>1. \A z \in Sides : order[z].qty \in Nat /\ order'[z].qty \in Nat
      BY <1>2, <1>3 DEF OMOrder
    <2>2. /\ position_ + Open("BUY") <= MaxPosition
          /\ position_ - Open("SELL") >= -MaxPosition
      BY DEF IInv, LimitInv
    <2>3. "BUY" \in Sides /\ "SELL" \in Sides /\ MaxPosition \in Nat
      BY TradingAssumption DEF Sides
    <2>4. CASE s \notin Sides
      <3>1. position_' = position_ /\ order' = order
        BY <1>1, <2>4, HeadResponse
      <3> QED BY <2>2, <3>1 DEF LimitInv, Open, Active
    <2>5. CASE s \in Sides
      <3>1. /\ r.exec \in Nat /\ r.leaves \in Nat
            /\ r.type # "FILLED" => r.exec = 0
        BY <2>5, HeadResponse
      <3>2. ASSUME NEW z \in Sides, z = s
            PROVE  /\ Open(z) = r.exec + r.leaves
                   /\ Open(z)' \in Nat /\ Open(z)' <= r.leaves
        <4>1. Active(z) /\ r.exec + r.leaves = order[z].qty
          BY <3>2, HeadResponse DEF Active
        <4>2. Active(z)' => order'[z].qty = r.leaves
          BY <3>2, HeadResponse DEF Active
        <4> QED BY <2>1, <3>1, <4>1, <4>2 DEF Open
      <3>3. \A z \in Sides : Open(z) \in Nat /\ (z # s => Open(z)' = Open(z))
        BY <1>5, <2>1 DEF Open, Active
      <3>4. CASE s = "BUY"
        <4>1. position_' = position_ + r.exec
          BY <1>1, <1>2, <3>1, <3>4 DEF SideToValue
        <4>2. /\ Open("BUY") = r.exec + r.leaves
              /\ Open("BUY")' \in Nat /\ Open("BUY")' <= r.leaves
              /\ Open("SELL")' = Open("SELL") /\ Open("SELL") \in Nat
          BY <2>3, <3>2, <3>3, <3>4
        <4>3. /\ position_' + Open("BUY")' <= MaxPosition
              /\ position_' - Open("SELL")' >= -MaxPosition
          <5> HIDE DEF r, Open
          <5>1. position_ \in Int
            BY <1>2
          <5> QED BY <5>1, <2>2, <2>3, <3>1, <4>1, <4>2
        <4> QED BY <4>3 DEF LimitInv
      <3>5. CASE s = "SELL"
        <4>1. position_' = position_ - r.exec
          BY <1>1, <1>2, <3>1, <3>5 DEF SideToValue
        <4>2. /\ Open("SELL") = r.exec + r.leaves
              /\ Open("SELL")' \in Nat /\ Open("SELL")' <= r.leaves
              /\ Open("BUY")' = Open("BUY") /\ Open("BUY") \in Nat
          BY <2>3, <3>2, <3>3, <3>5
        <4>3. /\ position_' + Open("BUY")' <= MaxPosition
              /\ position_' - Open("SELL")' >= -MaxPosition
          <5> HIDE DEF r, Open
          <5>1. position_ \in Int
            BY <1>2
          <5> QED BY <5>1, <2>2, <2>3, <3>1, <4>1, <4>2
        <4> QED BY <4>3 DEF LimitInv
      <3> QED BY <2>5, <3>4, <3>5 DEF Sides
    <2> QED BY <2>4, <2>5
  <1> QED BY <1>4, <1>6, <1>7, <1>10, <1>11, <1>12 DEF IInv

\* MoveOrder has made the slot of side s into o and sent m: it cancels a live
\* order, opens one in a slot that holds none, or leaves the slot alone.
Moved(s, id, o, m, opens) ==
    \/ /\ order[s].state = "LIVE" /\ ~opens
       /\ o.state = "PENDING_CANCEL" /\ o.qty = order[s].qty
       /\ o.order_id = order[s].order_id /\ o.price = order[s].price
       /\ Len(m) = 1 /\ m[1].type = "CANCEL" /\ m[1].side = s
       /\ m[1].order_id = order[s].order_id
    \/ /\ order[s].state \in {"INVALID", "DEAD"} /\ opens
       /\ o.state = "PENDING_NEW" /\ o.qty = Clip
       /\ o.order_id = id /\ o.price \in Prices
       /\ Len(m) = 1 /\ m[1].type = "NEW" /\ m[1].side = s
       /\ m[1].order_id = id /\ m[1].qty = Clip
       /\ Abs(position_ + SideToValue(s) * Clip) <= MaxPosition
    \/ o = order[s] /\ Len(m) = 0 /\ ~opens

\* OrderManager::MoveOrder sends at most one request, the one that belongs to
\* what it does to the slot.
LEMMA MoveSide ==
    ASSUME IInv, NEW s \in Sides, NEW price \in Prices \cup {PRICE_INVALID},
           NEW lossOk \in BOOLEAN, NEW id \in Nat
    PROVE  /\ MoveOrder(s, price, lossOk, id) \in OMOrder
           /\ Sent(s, price, lossOk, id) \in Seq(Request)
           /\ Moved(s, id, MoveOrder(s, price, lossOk, id),
                    Sent(s, price, lossOk, id), Opens(s, price, lossOk))
  <1>1. order[s] \in OMOrder
    BY DEF IInv, TypeOK
  <1>2. Clip \in Nat /\ PRICE_INVALID \notin Prices
    BY TradingAssumption
  <1>3. CASE Cancels(s, price)
    <2>1. order[s].state = "LIVE" /\ order[s].price \in Prices
      BY <1>3 DEF Cancels, IInv, SlotInv, Active
    <2>2. /\ MoveOrder(s, price, lossOk, id) = [order[s] EXCEPT !.state = "PENDING_CANCEL"]
          /\ Sent(s, price, lossOk, id) =
               <<[type |-> "CANCEL", side |-> s, order_id |-> order[s].order_id,
                  price |-> order[s].price, qty |-> order[s].qty]>>
      BY <1>3 DEF MoveOrder, Sent
    <2>3. ~Opens(s, price, lossOk)
      BY <2>1 DEF Opens
    <2> QED BY <1>1, <2>1, <2>2, <2>3 DEF OMOrder, States, Request, Moved
  <1>4. CASE ~Cancels(s, price) /\ Opens(s, price, lossOk)
    <2>1. /\ MoveOrder(s, price, lossOk, id) =
               [order_id |-> id, price |-> price, qty |-> Clip, state |-> "PENDING_NEW"]
          /\ Sent(s, price, lossOk, id) =
               <<[type |-> "NEW", side |-> s, order_id |-> id, price |-> price,
                  qty |-> Clip]>>
      BY <1>4 DEF MoveOrder, Sent
    <2>2. /\ order[s].state \in {"INVALID", "DEAD"} /\ price \in Prices
          /\ Abs(position_ + SideToValue(s) * Clip) <= MaxPosition
      BY <1>4 DEF Opens, CheckPreTradeRisk
    <2> QED BY <1>2, <1>4, <2>1, <2>2 DEF OMOrder, States, Request, Moved
  <1>5. CASE ~Cancels(s, price) /\ ~Opens(s, price, lossOk)
    BY <1>1, <1>5 DEF MoveOrder, Sent, Moved
  <1> QED BY <1>3, <1>4, <1>5

\* The places of a queue to which two short sequences were added.
LEMMA AddedPlaces ==
    ASSUME NEW q \in Seq(Request), NEW a \in Seq(Request), NEW b \in Seq(Request),
           Len(a) \in {0, 1}, Len(b) \in {0, 1}
    PROVE  LET p == q \o a \o b
           IN  /\ p \in Seq(Request) /\ Len(p) = Len(q) + Len(a) + Len(b)
               /\ \A i \in 1 .. Len(q) : p[i] = q[i]
               /\ Len(a) = 1 => p[Len(q) + 1] = a[1]
               /\ Len(b) = 1 => p[Len(q) + Len(a) + 1] = b[1]
               /\ \A i \in 1 .. Len(p) :
                    \/ i \in 1 .. Len(q)
                    \/ Len(a) = 1 /\ i = Len(q) + 1
                    \/ Len(b) = 1 /\ i = Len(q) + Len(a) + 1
  <1>1. /\ Len(q) \in Nat /\ Len(a) \in Nat /\ Len(b) \in Nat
        /\ q \o a \in Seq(Request) /\ Len(q \o a) = Len(q) + Len(a)
        /\ \A i \in 1 .. Len(q) : (q \o a)[i] = q[i]
        /\ Len(a) = 1 => (q \o a)[Len(q) + 1] = a[1]
    OBVIOUS
  <1> DEFINE c == q \o a
  <1>2. /\ c \o b \in Seq(Request) /\ Len(c \o b) = Len(c) + Len(b)
        /\ \A i \in 1 .. Len(c) : (c \o b)[i] = c[i]
        /\ Len(b) = 1 => (c \o b)[Len(c) + 1] = b[1]
    <2>1. c \in Seq(Request)
      BY <1>1
    <2> HIDE DEF c
    <2> QED BY <2>1
  <1> DEFINE p == c \o b
  <1>3. \A i \in 1 .. Len(q) : p[i] = q[i]
    <2> SUFFICES ASSUME NEW i \in 1 .. Len(q) PROVE p[i] = q[i]
      OBVIOUS
    <2>1. i \in 1 .. Len(c)
      BY <1>1
    <2> QED BY <1>1, <1>2, <2>1
  <1>4. Len(a) = 1 => p[Len(q) + 1] = a[1]
    <2> SUFFICES ASSUME Len(a) = 1 PROVE p[Len(q) + 1] = a[1]
      OBVIOUS
    <2>1. Len(q) + 1 \in 1 .. Len(c)
      BY <1>1
    <2> QED BY <1>1, <1>2, <2>1
  <1> HIDE DEF p
  <1>5. Len(p) = Len(q) + Len(a) + Len(b) /\ p \in Seq(Request)
    BY <1>1, <1>2 DEF p
  <1>6. Len(b) = 1 => p[Len(q) + Len(a) + 1] = b[1]
    BY <1>1, <1>2 DEF p
  <1>7. \A i \in 1 .. Len(p) :
            \/ i \in 1 .. Len(q)
            \/ Len(a) = 1 /\ i = Len(q) + 1
            \/ Len(b) = 1 /\ i = Len(q) + Len(a) + 1
    <2> DEFINE nq == Len(q)
               na == Len(a)
               nb == Len(b)
               np == Len(p)
    <2>1. /\ nq \in Nat /\ na \in {0, 1} /\ nb \in {0, 1}
          /\ np = nq + na + nb
      BY <1>1, <1>5
    <2> HIDE DEF nq, na, nb, np
    <2>2. \A i \in 1 .. np :
              \/ i \in 1 .. nq
              \/ na = 1 /\ i = nq + 1
              \/ nb = 1 /\ i = nq + na + 1
      BY <2>1
    <2> QED BY <2>2 DEF nq, na, nb, np
  <1> QED BY <1>3, <1>4, <1>5, <1>6, <1>7 DEF p

\* OrderManager::MoveOrders.
LEMMA MoveKeeps ==
    ASSUME IInv, ProcessUpdate, NEW bid \in Prices \cup {PRICE_INVALID},
           NEW ask \in Prices \cup {PRICE_INVALID}, NEW lossOk \in BOOLEAN,
           MoveOrders(bid, ask, lossOk)
    PROVE  IInv'
  <1> DEFINE askId == IF Opens("BUY", bid, lossOk) THEN next_order_id_ + 1
                                                   ELSE next_order_id_
             P(s) == IF s = "BUY" THEN bid ELSE ask
             I(s) == IF s = "BUY" THEN next_order_id_ ELSE askId
             m(s) == Sent(s, P(s), lossOk, I(s))
             n == Len(requests)
             at(s) == IF s = "BUY" THEN n + 1 ELSE n + Len(m("BUY")) + 1
  <1>1. /\ order' = [s \in Sides |-> MoveOrder(s, P(s), lossOk, I(s))]
        /\ requests' = requests \o m("BUY") \o m("SELL")
        /\ next_order_id_' = IF Opens("SELL", ask, lossOk) THEN askId + 1 ELSE askId
        /\ UNCHANGED <<algo, phase, position_, published, responses, resting>>
        /\ updates' = updates - 1 /\ updates > 0
    BY DEF MoveOrders, ProcessUpdate, Sides
  <1>2. /\ order \in [Sides -> OMOrder] /\ next_order_id_ \in Nat
        /\ requests \in Seq(Request) /\ n \in Nat
        /\ position_ \in Int /\ updates \in Nat /\ published \in 0 .. MaxUpdates
        /\ Clip \in Nat /\ Clip > 0 /\ MaxPosition \in Nat
    BY TradingAssumption DEF IInv, TypeOK
  <1>3. "BUY" \in Sides /\ "SELL" \in Sides /\ \A s \in Sides : s = "BUY" \/ s = "SELL"
    BY DEF Sides
  <1>4. \A s \in Sides : /\ P(s) \in Prices \cup {PRICE_INVALID}
                         /\ I(s) \in Nat /\ I(s) >= next_order_id_
    BY <1>2
  <1> HIDE DEF P, I, m, n
  <1>5. ASSUME NEW s \in Sides
        PROVE  /\ order'[s] \in OMOrder /\ m(s) \in Seq(Request)
               /\ Moved(s, I(s), order'[s], m(s), Opens(s, P(s), lossOk))
    <2>1. order'[s] = MoveOrder(s, P(s), lossOk, I(s)) /\ m(s) = Sent(s, P(s), lossOk, I(s))
      BY <1>1 DEF m
    <2>2. /\ MoveOrder(s, P(s), lossOk, I(s)) \in OMOrder
          /\ Sent(s, P(s), lossOk, I(s)) \in Seq(Request)
          /\ Moved(s, I(s), MoveOrder(s, P(s), lossOk, I(s)),
                   Sent(s, P(s), lossOk, I(s)), Opens(s, P(s), lossOk))
      BY <1>4, MoveSide, Zenon
    <2> QED BY <2>1, <2>2
  <1>6. /\ requests' \in Seq(Request)
        /\ Len(requests') = n + Len(m("BUY")) + Len(m("SELL"))
        /\ \A i \in 1 .. n : requests'[i] = requests[i]
        /\ \A s \in Sides : Len(m(s)) = 1 => requests'[at(s)] = m(s)[1]
        /\ \A i \in 1 .. Len(requests') :
             i \in 1 .. n \/ \E s \in Sides : Len(m(s)) = 1 /\ i = at(s)
    <2>1. ASSUME NEW s \in Sides PROVE m(s) \in Seq(Request) /\ Len(m(s)) \in {0, 1}
      <3>1. m(s) \in Seq(Request) /\ Moved(s, I(s), order'[s], m(s), Opens(s, P(s), lossOk))
        BY <1>5
      <3>2. Len(m(s)) = 1 \/ Len(m(s)) = 0
        BY <3>1, Zenon DEF Moved
      <3> QED BY <3>1, <3>2
    <2> DEFINE a == m("BUY")
               b == m("SELL")
               p == requests \o a \o b
    <2>2. /\ a \in Seq(Request) /\ b \in Seq(Request)
          /\ Len(a) \in {0, 1} /\ Len(b) \in {0, 1}
      BY <1>3, <2>1
    <2>3. requests \in Seq(Request) /\ requests' = p
      BY <1>1, <1>2
    <2> HIDE DEF a, b
    <2>4. /\ p \in Seq(Request) /\ Len(p) = n + Len(a) + Len(b)
          /\ \A i \in 1 .. n : p[i] = requests[i]
          /\ Len(a) = 1 => p[n + 1] = a[1]
          /\ Len(b) = 1 => p[n + Len(a) + 1] = b[1]
          /\ \A i \in 1 .. Len(p) :
               \/ i \in 1 .. n
               \/ Len(a) = 1 /\ i = n + 1
               \/ Len(b) = 1 /\ i = n + Len(a) + 1
      BY <2>2, <2>3, AddedPlaces DEF n
    <2> HIDE DEF p
    <2>5. at("BUY") = n + 1 /\ at("SELL") = n + Len(a) + 1
      BY DEF a
    <2> HIDE DEF at
    <2>6. /\ \A s \in Sides : Len(m(s)) = 1 => p[at(s)] = m(s)[1]
          /\ \A i \in 1 .. Len(p) :
               i \in 1 .. n \/ \E s \in Sides : Len(m(s)) = 1 /\ i = at(s)
      BY <1>3, <2>4, <2>5 DEF a, b
    <2> QED BY <2>3, <2>4, <2>6 DEF a, b
  <1> HIDE DEF at, askId
  <1>7. TypeOK'
    <2>1. order' \in [Sides -> OMOrder]
      BY <1>1, <1>5
    <2>2. next_order_id_' \in Nat /\ updates' \in Nat
      BY <1>1, <1>2 DEF askId
    <2> QED BY <1>1, <1>6, <2>1, <2>2 DEF IInv, TypeOK
  <1>8. /\ next_order_id_' >= next_order_id_
        /\ \A s \in Sides : Opens(s, P(s), lossOk) => I(s) < next_order_id_'
    BY <1>1, <1>2, <1>3 DEF askId, P, I
  <1>9. \A s \in Sides :
            /\ order[s].order_id \in Nat /\ order'[s].order_id \in Nat
            /\ order[s].order_id < next_order_id_
            /\ Active(s) \/ order[s].state = "DEAD" =>
                 order[s].order_id > 0 /\ order[s].price \in Prices
            /\ order[s].state = "PENDING_NEW" => order[s].qty > 0
    BY <1>2, <1>5 DEF IInv, SlotInv, OMOrder
  <1>10. SlotInv'
    <2> SUFFICES ASSUME NEW s \in Sides
                 PROVE  /\ order'[s].order_id < next_order_id_'
                        /\ Active(s)' \/ order'[s].state = "DEAD" =>
                             order'[s].order_id > 0 /\ order'[s].price \in Prices
                        /\ order'[s].state = "PENDING_NEW" => order'[s].qty > 0
      BY DEF SlotInv
    <2>1. next_order_id_' \in Nat /\ I(s) \in Nat /\ I(s) >= next_order_id_
      BY <1>4, <1>7 DEF TypeOK
    <2> QED BY <1>2, <1>5, <1>8, <1>9, <2>1 DEF Active, Moved
  <1>11. \A s \in Sides :
             order[s].state \in {"INVALID", "DEAD"} =>
                 resting[s] = Nothing /\ NoneOf(responses, s)
    <2> SUFFICES ASSUME NEW s \in Sides, order[s].state \in {"INVALID", "DEAD"}
                 PROVE  resting[s] = Nothing /\ NoneOf(responses, s)
      OBVIOUS
    <2>1. ~Active(s)
      BY DEF Active
    <2> QED BY <2>1 DEF IInv, RestingInv, ResponsesInv, NoneOf
  <1>12. RestingInv'
    BY <1>1, <1>5, <1>11 DEF IInv, RestingInv, Active, Moved
  <1>13. \A i \in 1 .. n :
             /\ requests[i].side \in Sides
             /\ requests[i].type = "NEW" => order[requests[i].side].state = "PENDING_NEW"
    <2>1. \A i \in 1 .. n : requests[i] \in Request
      BY <1>2 DEF n
    <2> QED BY <2>1 DEF IInv, RequestsInv, Request, n
  <1>14. RequestsInv'
    <2> SUFFICES ASSUME NEW i \in 1 .. Len(requests')
                 PROVE  LET r == requests'[i]
                        IN  /\ r.type = "NEW" =>
                                 /\ order'[r.side].state = "PENDING_NEW"
                                 /\ r.order_id = order'[r.side].order_id
                                 /\ r.qty = order'[r.side].qty
                                 /\ resting[r.side] = Nothing
                                 /\ NoneOf(responses, r.side)
                                 /\ \A j \in 1 .. Len(requests') :
                                      requests'[j].type = "NEW"
                                        /\ requests'[j].side = r.side => j = i
                            /\ r.type = "CANCEL" =>
                                 /\ r.order_id \in 1 .. order'[r.side].order_id
                                 /\ r.order_id = order'[r.side].order_id =>
                                      order'[r.side].state \in {"PENDING_CANCEL", "DEAD"}
      BY <1>1 DEF RequestsInv
    <2> DEFINE r == requests'[i]
    <2>1. CASE i \in 1 .. n
      <3>1. r = requests[i] /\ r.side \in Sides
        BY <1>6, <1>13, <2>1
      <3>2. /\ r.type = "NEW" =>
                 /\ order[r.side].state = "PENDING_NEW"
                 /\ r.order_id = order[r.side].order_id
                 /\ r.qty = order[r.side].qty
                 /\ resting[r.side] = Nothing
                 /\ NoneOf(responses, r.side)
                 /\ \A j \in 1 .. n :
                      requests[j].type = "NEW" /\ requests[j].side = r.side => j = i
            /\ r.type = "CANCEL" =>
                 /\ r.order_id \in 1 .. order[r.side].order_id
                 /\ r.order_id = order[r.side].order_id =>
                      order[r.side].state \in {"PENDING_CANCEL", "DEAD"}
        BY <2>1, <3>1 DEF IInv, RequestsInv, n
      <3> HIDE DEF r
      <3>3. r.type = "NEW" => order'[r.side] = order[r.side] /\ Len(m(r.side)) = 0
        BY <1>5, <3>1, <3>2 DEF Moved
      <3>4. ASSUME r.type = "NEW", NEW j \in 1 .. Len(requests'),
                   requests'[j].type = "NEW", requests'[j].side = r.side
            PROVE  j = i
        <4>1. j \in 1 .. n
          <5> SUFFICES ASSUME NEW z \in Sides, Len(m(z)) = 1, j = at(z) PROVE FALSE
            BY <1>6
          <5>1. m(z)[1].side = z /\ requests'[j] = m(z)[1]
            BY <1>5, <1>6 DEF Moved
          <5>2. z = r.side
            BY <3>4, <5>1
          <5>3. m(z) = m(r.side)
            BY <5>2
          <5>4. Len(m(z)) = 0
            BY <3>3, <3>4, <5>3
          <5> QED BY <5>4
        <4> QED BY <1>6, <3>2, <3>4, <4>1
      <3>5. r.type = "CANCEL" =>
                /\ r.order_id \in 1 .. order'[r.side].order_id
                /\ r.order_id = order'[r.side].order_id =>
                     order'[r.side].state \in {"PENDING_CANCEL", "DEAD"}
        <4> SUFFICES ASSUME r.type = "CANCEL"
                     PROVE  /\ r.order_id \in 1 .. order'[r.side].order_id
                            /\ r.order_id = order'[r.side].order_id =>
                                 order'[r.side].state \in {"PENDING_CANCEL", "DEAD"}
          OBVIOUS
        <4> DEFINE z == r.side
        <4>1. /\ z \in Sides /\ r.order_id \in 1 .. order[z].order_id
              /\ r.order_id = order[z].order_id =>
                   order[z].state \in {"PENDING_CANCEL", "DEAD"}
              /\ order[z].order_id \in Nat /\ order[z].order_id < next_order_id_
              /\ I(z) \in Nat /\ I(z) >= next_order_id_
              /\ Moved(z, I(z), order'[z], m(z), Opens(z, P(z), lossOk))
          BY <1>4, <1>5, <1>9, <3>1, <3>2
        <4> HIDE DEF z
        <4>2. /\ r.order_id \in 1 .. order'[z].order_id
              /\ r.order_id = order'[z].order_id =>
                   order'[z].state \in {"PENDING_CANCEL", "DEAD"}
          BY <1>2, <4>1 DEF Moved
        <4> QED BY <4>2 DEF z
      <3> QED BY <3>2, <3>3, <3>4, <3>5 DEF r
    <2>2. CASE i \notin 1 .. n
      <3>1. PICK s \in Sides : Len(m(s)) = 1 /\ i = at(s)
        BY <1>6, <2>2
      <3>2. r = m(s)[1] /\ r.side = s
        BY <1>5, <1>6, <3>1 DEF Moved
      <3> HIDE DEF r
      <3>3. CASE r.type = "NEW"
        <4>1. /\ order[s].state \in {"INVALID", "DEAD"}
              /\ order'[s].state = "PENDING_NEW" /\ order'[s].qty = Clip
              /\ order'[s].order_id = I(s)
              /\ r.order_id = I(s) /\ r.qty = Clip
          BY <1>5, <3>1, <3>2, <3>3 DEF Moved
        <4>2. ASSUME NEW j \in 1 .. Len(requests'),
                     requests'[j].type = "NEW", requests'[j].side = r.side
              PROVE  j = i
          <5>1. j \notin 1 .. n
            BY <1>6, <1>13, <3>2, <4>1, <4>2
          <5>2. PICK z \in Sides : Len(m(z)) = 1 /\ j = at(z)
            BY <1>6, <5>1
          <5>3. m(z)[1].side = z /\ requests'[j] = m(z)[1]
            BY <1>5, <1>6, <5>2 DEF Moved
          <5> QED BY <3>1, <3>2, <4>2, <5>2, <5>3
        <4> QED BY <1>11, <3>2, <3>3, <4>1, <4>2 DEF r
      <3>4. CASE r.type # "NEW"
        <4>1. /\ order[s].state = "LIVE" /\ order'[s].state = "PENDING_CANCEL"
              /\ order'[s].order_id = order[s].order_id
              /\ r.order_id = order[s].order_id
          BY <1>5, <3>1, <3>2, <3>4 DEF Moved
        <4>2. order[s].order_id \in Nat /\ order[s].order_id > 0
          BY <1>9, <4>1 DEF Active
        <4> QED BY <3>2, <3>4, <4>1, <4>2 DEF r
      <3> QED BY <3>3, <3>4
    <2> QED BY <2>1, <2>2
  <1>15. \A s \in Sides : ~NoneOf(responses, s) =>
             /\ order'[s].order_id = order[s].order_id /\ order'[s].qty = order[s].qty
             /\ Active(s)'
             /\ order'[s].state = "PENDING_NEW" <=> order[s].state = "PENDING_NEW"
    <2> SUFFICES ASSUME NEW s \in Sides, ~NoneOf(responses, s)
                 PROVE  /\ order'[s].order_id = order[s].order_id
                        /\ order'[s].qty = order[s].qty
                        /\ Active(s)'
                        /\ order'[s].state = "PENDING_NEW"
                             <=> order[s].state = "PENDING_NEW"
      OBVIOUS
    <2>1. Active(s)
      BY DEF IInv, ResponsesInv, NoneOf
    <2> QED BY <1>5, <2>1 DEF Active, Moved
  <1>16. ResponsesInv'
    <2> SUFFICES ASSUME NEW i \in 1 .. Len(responses)
                 PROVE  LET r == responses[i]
                        IN  /\ r.type = "CANCEL_REJECTED" <=> r.side \notin Sides
                            /\ r.side \in Sides =>
                                 /\ r.order_id = order'[r.side].order_id
                                 /\ order'[r.side].state \in
                                      {"PENDING_NEW", "LIVE", "PENDING_CANCEL"}
                            /\ r.type = "ACCEPTED" =>
                                 /\ order'[r.side].state = "PENDING_NEW"
                                 /\ FirstOf(responses, r.side, i)
                                 /\ r.exec = 0
                            /\ r.side \in Sides /\ order'[r.side].state = "PENDING_NEW"
                                 /\ FirstOf(responses, r.side, i) => r.type = "ACCEPTED"
                            /\ r.type = "CANCELED" \/ (r.type = "FILLED" /\ r.leaves = 0) =>
                                 /\ LastOf(responses, r.side, i)
                                 /\ resting[r.side] = Nothing
                            /\ r.type = "CANCELED" => r.exec = 0
      BY <1>1 DEF ResponsesInv, Active
    <2> DEFINE r == responses[i]
    <2>1. ~NoneOf(responses, r.side)
      BY DEF NoneOf
    <2>2. r.side \in Sides =>
              /\ order'[r.side].order_id = order[r.side].order_id
              /\ order'[r.side].state \in {"PENDING_NEW", "LIVE", "PENDING_CANCEL"}
              /\ order'[r.side].state = "PENDING_NEW"
                   <=> order[r.side].state = "PENDING_NEW"
      BY <1>15, <2>1 DEF Active
    <2>3. r.type # "CANCEL_REJECTED" => r.side \in Sides
      BY DEF IInv, ResponsesInv
    <2> QED BY <2>2, <2>3 DEF IInv, ResponsesInv
  <1>17. ChainInv'
    <2> SUFFICES ASSUME NEW s \in Sides
                 PROVE  /\ \A i \in 1 .. Len(responses) :
                             FirstOf(responses, s, i) =>
                               responses[i].exec + responses[i].leaves = order'[s].qty
                        /\ NoneOf(responses, s) =>
                             CASE order'[s].state = "PENDING_NEW" -> resting[s] = Nothing
                               [] order'[s].state \in {"LIVE", "PENDING_CANCEL"} ->
                                      resting[s].leaves = order'[s].qty
                               [] OTHER -> TRUE
      BY <1>1 DEF IInv, ChainInv
    <2>1. \A i \in 1 .. Len(responses) :
              FirstOf(responses, s, i) =>
                  responses[i].exec + responses[i].leaves = order[s].qty
      BY DEF IInv, ChainInv
    <2>2. \A i \in 1 .. Len(responses) :
              FirstOf(responses, s, i) => order'[s].qty = order[s].qty
      BY <1>15 DEF FirstOf, OfSide, NoneOf
    <2>3. NoneOf(responses, s) =>
               CASE order[s].state = "PENDING_NEW" -> resting[s] = Nothing
                 [] order[s].state \in {"LIVE", "PENDING_CANCEL"} ->
                        resting[s].leaves = order[s].qty
                 [] OTHER -> TRUE
      BY DEF IInv, ChainInv
    <2> QED BY <1>5, <1>11, <2>1, <2>2, <2>3 DEF Moved
  <1>18. LimitInv'
    <2>1. \A s \in Sides :
              \/ Open(s)' = Open(s) /\ Open(s) \in Nat
              \/ Open(s)' = Clip /\ Abs(position_ + SideToValue(s) * Clip) <= MaxPosition
      <3> SUFFICES ASSUME NEW s \in Sides
                   PROVE  \/ Open(s)' = Open(s) /\ Open(s) \in Nat
                          \/ /\ Open(s)' = Clip
                             /\ Abs(position_ + SideToValue(s) * Clip) <= MaxPosition
        OBVIOUS
      <3>1. order[s].qty \in Nat
        BY <1>2 DEF OMOrder
      <3> QED BY <1>5, <3>1 DEF Open, Active, Moved
    <2>2. position_' + Open("BUY")' <= MaxPosition
      <3>1. CASE Open("BUY")' = Open("BUY")
        BY <1>1, <3>1 DEF IInv, LimitInv
      <3>2. CASE Open("BUY")' = Clip /\ Abs(position_ + SideToValue("BUY") * Clip) <= MaxPosition
        <4>1. position_ + Clip <= MaxPosition
          BY <1>2, <3>2 DEF Abs, SideToValue
        <4> QED BY <1>1, <3>2, <4>1
      <3> QED BY <1>3, <2>1, <3>1, <3>2
    <2>3. position_' - Open("SELL")' >= -MaxPosition
      <3>1. CASE Open("SELL")' = Open("SELL")
        BY <1>1, <3>1 DEF IInv, LimitInv
      <3>2. CASE Open("SELL")' = Clip /\ Abs(position_ + SideToValue("SELL") * Clip) <= MaxPosition
        <4>1. position_ - Clip >= -MaxPosition
          BY <1>2, <3>2 DEF Abs, SideToValue
        <4> QED BY <1>1, <3>2, <4>1
      <3> QED BY <1>3, <2>1, <3>1, <3>2
    <2> QED BY <2>2, <2>3 DEF LimitInv
  <1> QED BY <1>7, <1>10, <1>12, <1>14, <1>16, <1>17, <1>18 DEF IInv

-----------------------------------------------------------------------------
(* The answers of the exchange.                                            *)

\* What holds of an answer x that the exchange sends, and of what rests then:
\* it goes on from the answer before, or from the slot when there is none
\* under way, and no order of its side is still on its way to the exchange.
Answers(x) ==
    LET s == x.side
    IN  \/ s \notin Sides /\ x.type = "CANCEL_REJECTED" /\ resting' = resting
        \/ /\ s \in Sides /\ x.type \in {"ACCEPTED", "CANCELED", "FILLED"}
           /\ x.order_id = order[s].order_id /\ Active(s)
           /\ \A z \in Sides : z # s => resting'[z] = resting[z]
           /\ \/ resting'[s] = Nothing
              \/ resting'[s].order_id = order[s].order_id /\ resting'[s].leaves > 0
           /\ x.type = "CANCELED" \/ x.leaves = resting'[s].leaves
           /\ x.type # "FILLED" => x.exec = 0
           /\ x.type = "CANCELED" \/ (x.type = "FILLED" /\ x.leaves = 0) =>
                resting'[s] = Nothing
           /\ x.type = "ACCEPTED" <=>
                order[s].state = "PENDING_NEW" /\ NoneOf(responses, s)
           /\ NoneOf(responses, s) => x.exec + x.leaves = order[s].qty
           /\ \A i \in 1 .. Len(responses) :
                LastOf(responses, s, i) => x.exec + x.leaves = responses[i].leaves
           /\ \A i \in 1 .. Len(responses) :
                responses[i].side = s =>
                  /\ responses[i].type # "CANCELED"
                  /\ ~(responses[i].type = "FILLED" /\ responses[i].leaves = 0)
           /\ \A i \in 1 .. Len(requests') :
                requests'[i].type = "NEW" => requests'[i].side # s

\* An answer leaves the inductive invariant as it is.
LEMMA AnswerKeeps ==
    ASSUME IInv, NEW x \in Response, Answers(x), resting' \in [Sides ->
               [order_id : Nat, leaves : Nat]],
           responses' = Append(responses, x),
           \/ requests' = requests
           \/ requests # <<>> /\ requests' = Tail(requests),
           UNCHANGED <<engineVars, updates, published>>
    PROVE  IInv'
  <1> DEFINE n == Len(responses)
  <1>1. /\ responses \in Seq(Response) /\ n \in Nat /\ requests \in Seq(Request)
        /\ order \in [Sides -> OMOrder]
    BY DEF IInv, TypeOK
  <1>2. /\ order' = order /\ next_order_id_' = next_order_id_ /\ position_' = position_
        /\ algo' = algo /\ phase' = phase /\ updates' = updates /\ published' = published
    BY DEF engineVars
  <1>3. TypeOK'
    <2>1. responses' \in Seq(Response)
      BY <1>1
    <2>2. requests' \in Seq(Request)
      <3>1. CASE requests' = requests
        BY <1>1, <3>1
      <3>2. CASE requests # <<>> /\ requests' = Tail(requests)
        BY <1>1, <3>2
      <3> QED BY <3>1, <3>2
    <2> QED BY <1>2, <2>1, <2>2 DEF IInv, TypeOK
  <1>4. /\ Len(responses') = n + 1 /\ responses'[n + 1] = x
        /\ \A i \in 1 .. n : responses'[i] = responses[i]
    BY <1>1
  <1>5. \A s : /\ \A i \in 1 .. n :
                    /\ FirstOf(responses', s, i) <=> FirstOf(responses, s, i)
                    /\ LastOf(responses', s, i) <=>
                         LastOf(responses, s, i) /\ x.side # s
                    /\ NextOf(responses', s, i, n + 1) <=>
                         LastOf(responses, s, i) /\ x.side = s
               /\ \A i, j \in 1 .. n :
                    NextOf(responses', s, i, j) <=> NextOf(responses, s, i, j)
               /\ FirstOf(responses', s, n + 1) <=> NoneOf(responses, s) /\ x.side = s
               /\ LastOf(responses', s, n + 1) <=> x.side = s
               /\ \A j \in 1 .. n + 1 : ~NextOf(responses', s, n + 1, j)
               /\ NoneOf(responses', s) <=> NoneOf(responses, s) /\ x.side # s
    BY <1>1, AppendPlaces
  <1>6. \A i \in 1 .. n + 1 : i \in 1 .. n \/ i = n + 1
    BY <1>1
  <1> HIDE DEF n
  <1>7. SlotInv'
    BY <1>2 DEF IInv, SlotInv, Active
  <1>8. RestingInv'
    <2> SUFFICES ASSUME NEW s \in Sides
                 PROVE  \/ resting'[s] = Nothing
                        \/ /\ resting'[s].order_id = order[s].order_id
                           /\ resting'[s].leaves > 0 /\ Active(s)
      BY <1>2 DEF RestingInv, Active
    <2> QED BY DEF IInv, RestingInv, Answers
  <1>9. RequestsInv'
    <2> SUFFICES ASSUME NEW i \in 1 .. Len(requests')
                 PROVE  LET r == requests'[i]
                        IN  /\ r.type = "NEW" =>
                                 /\ order[r.side].state = "PENDING_NEW"
                                 /\ r.order_id = order[r.side].order_id
                                 /\ r.qty = order[r.side].qty
                                 /\ resting'[r.side] = Nothing
                                 /\ NoneOf(responses', r.side)
                                 /\ \A j \in 1 .. Len(requests') :
                                      requests'[j].type = "NEW"
                                        /\ requests'[j].side = r.side => j = i
                            /\ r.type = "CANCEL" =>
                                 /\ r.order_id \in 1 .. order[r.side].order_id
                                 /\ r.order_id = order[r.side].order_id =>
                                      order[r.side].state \in {"PENDING_CANCEL", "DEAD"}
      BY <1>2 DEF RequestsInv
    <2> DEFINE r == requests'[i]
    <2>1. r.side \in Sides
      <3>1. requests' \in Seq(Request)
        BY <1>3 DEF TypeOK
      <3>2. r \in Request
        BY <3>1
      <3> QED BY <3>2 DEF Request
    <2>2. /\ r.type = "NEW" =>
               /\ order[r.side].state = "PENDING_NEW"
               /\ r.order_id = order[r.side].order_id
               /\ r.qty = order[r.side].qty
               /\ resting[r.side] = Nothing
               /\ NoneOf(responses, r.side)
               /\ \A j \in 1 .. Len(requests') :
                    requests'[j].type = "NEW" /\ requests'[j].side = r.side => j = i
          /\ r.type = "CANCEL" =>
               /\ r.order_id \in 1 .. order[r.side].order_id
               /\ r.order_id = order[r.side].order_id =>
                    order[r.side].state \in {"PENDING_CANCEL", "DEAD"}
      <3>1. CASE requests' = requests
        BY <3>1 DEF IInv, RequestsInv
      <3>2. CASE requests # <<>> /\ requests' = Tail(requests)
        <4>1. /\ Len(requests) \in Nat /\ Len(requests') = Len(requests) - 1
              /\ \A j \in 1 .. Len(requests') :
                   j + 1 \in 1 .. Len(requests) /\ requests'[j] = requests[j + 1]
          BY <1>1, <3>2
        <4>2. ASSUME r.type = "NEW", NEW j \in 1 .. Len(requests'),
                     requests'[j].type = "NEW", requests'[j].side = r.side
              PROVE  j = i
          <5>1. /\ i + 1 \in 1 .. Len(requests) /\ j + 1 \in 1 .. Len(requests)
                /\ requests[i + 1].type = "NEW" /\ requests[j + 1].type = "NEW"
                /\ requests[j + 1].side = requests[i + 1].side
            BY <4>1, <4>2
          <5>2. j + 1 = i + 1
            BY <5>1 DEF IInv, RequestsInv
          <5> QED BY <4>1, <5>2
        <4> HIDE DEF r
        <4>3. r = requests[i + 1] /\ i + 1 \in 1 .. Len(requests)
          BY <4>1 DEF r
        <4> QED BY <4>2, <4>3 DEF IInv, RequestsInv
      <3> QED BY <3>1, <3>2
    <2>3. r.type = "NEW" => r.side # x.side /\ resting'[r.side] = resting[r.side]
      BY <2>1 DEF Answers
    <2> HIDE DEF r
    <2> QED BY <1>5, <2>2, <2>3 DEF r
  <1>10. ResponsesInv'
    <2> SUFFICES ASSUME NEW i \in 1 .. n + 1
                 PROVE  LET r == responses'[i]
                        IN  /\ r.type = "CANCEL_REJECTED" <=> r.side \notin Sides
                            /\ r.side \in Sides =>
                                 r.order_id = order[r.side].order_id /\ Active(r.side)
                            /\ r.type = "ACCEPTED" =>
                                 /\ order[r.side].state = "PENDING_NEW"
                                 /\ FirstOf(responses', r.side, i)
                                 /\ r.exec = 0
                            /\ r.side \in Sides /\ order[r.side].state = "PENDING_NEW"
                                 /\ FirstOf(responses', r.side, i) => r.type = "ACCEPTED"
                            /\ r.type = "CANCELED" \/ (r.type = "FILLED" /\ r.leaves = 0) =>
                                 /\ LastOf(responses', r.side, i)
                                 /\ resting'[r.side] = Nothing
                            /\ r.type = "CANCELED" => r.exec = 0
      BY <1>2, <1>4 DEF ResponsesInv, Active
    <2>1. CASE i \in 1 .. n
      <3> DEFINE r == responses[i]
      <3>1. responses'[i] = r
        BY <1>4, <2>1
      <3>2. /\ r.type = "CANCEL_REJECTED" <=> r.side \notin Sides
            /\ r.side \in Sides => r.order_id = order[r.side].order_id /\ Active(r.side)
            /\ r.type = "ACCEPTED" =>
                 /\ order[r.side].state = "PENDING_NEW"
                 /\ FirstOf(responses, r.side, i)
                 /\ r.exec = 0
            /\ r.side \in Sides /\ order[r.side].state = "PENDING_NEW"
                 /\ FirstOf(responses, r.side, i) => r.type = "ACCEPTED"
            /\ r.type = "CANCELED" \/ (r.type = "FILLED" /\ r.leaves = 0) =>
                 /\ LastOf(responses, r.side, i)
                 /\ resting[r.side] = Nothing
            /\ r.type = "CANCELED" => r.exec = 0
        BY <2>1 DEF IInv, ResponsesInv, n
      <3>3. r.side \in Sides
              /\ (r.type = "CANCELED" \/ (r.type = "FILLED" /\ r.leaves = 0)) =>
                x.side # r.side /\ resting'[r.side] = resting[r.side]
        BY <2>1 DEF Answers, n
      <3>4. /\ FirstOf(responses', r.side, i) <=> FirstOf(responses, r.side, i)
            /\ LastOf(responses', r.side, i) <=>
                 LastOf(responses, r.side, i) /\ x.side # r.side
        BY <1>5, <2>1
      <3> HIDE DEF r
      <3>5. r.type = "CANCELED" \/ r.type = "FILLED" => r.side \in Sides
        BY <3>2
      <3> QED BY <3>1, <3>2, <3>3, <3>4, <3>5
    <2>2. CASE i = n + 1
      <3>1. responses'[i] = x
        BY <1>4, <2>2
      <3>2. /\ FirstOf(responses', x.side, i) <=> NoneOf(responses, x.side)
            /\ LastOf(responses', x.side, i)
        BY <1>5, <2>2
      <3> QED BY <3>1, <3>2 DEF Answers
    <2> QED BY <1>6, <2>1, <2>2
  <1>11. ChainInv'
    <2> SUFFICES ASSUME NEW s \in Sides
                 PROVE  /\ \A i \in 1 .. n + 1 :
                             FirstOf(responses', s, i) =>
                               responses'[i].exec + responses'[i].leaves = order[s].qty
                        /\ \A i, j \in 1 .. n + 1 :
                             NextOf(responses', s, i, j) =>
                               responses'[j].exec + responses'[j].leaves
                                   = responses'[i].leaves
                        /\ \A i \in 1 .. n + 1 :
                             LastOf(responses', s, i) =>
                               \/ responses'[i].leaves = resting'[s].leaves
                               \/ responses'[i].type = "CANCELED"
                        /\ NoneOf(responses', s) =>
                             CASE order[s].state = "PENDING_NEW" -> resting'[s] = Nothing
                               [] order[s].state \in {"LIVE", "PENDING_CANCEL"} ->
                                      resting'[s].leaves = order[s].qty
                               [] OTHER -> TRUE
      BY <1>2, <1>4 DEF ChainInv
    <2>1. /\ \A i \in 1 .. n :
               FirstOf(responses, s, i) =>
                   responses[i].exec + responses[i].leaves = order[s].qty
          /\ \A i, j \in 1 .. n :
               NextOf(responses, s, i, j) =>
                   responses[j].exec + responses[j].leaves = responses[i].leaves
          /\ \A i \in 1 .. n :
               LastOf(responses, s, i) =>
                   \/ responses[i].leaves = resting[s].leaves
                   \/ responses[i].type = "CANCELED"
          /\ NoneOf(responses, s) =>
               CASE order[s].state = "PENDING_NEW" -> resting[s] = Nothing
                 [] order[s].state \in {"LIVE", "PENDING_CANCEL"} ->
                        resting[s].leaves = order[s].qty
                 [] OTHER -> TRUE
      BY DEF IInv, ChainInv, n
    <2>2. x.side # s => resting'[s] = resting[s]
      BY DEF Answers
    <2>3. x.side = s =>
              /\ x.type = "CANCELED" \/ x.leaves = resting'[s].leaves
              /\ NoneOf(responses, s) => x.exec + x.leaves = order[s].qty
              /\ \A i \in 1 .. n :
                   LastOf(responses, s, i) => x.exec + x.leaves = responses[i].leaves
      BY DEF Answers, n
    <2>4. ASSUME NEW i \in 1 .. n + 1, FirstOf(responses', s, i)
          PROVE  responses'[i].exec + responses'[i].leaves = order[s].qty
      <3>1. CASE i \in 1 .. n
        <4>1. FirstOf(responses, s, i) /\ responses'[i] = responses[i]
          BY <1>4, <1>5, <2>4, <3>1
        <4> QED BY <2>1, <3>1, <4>1
      <3>2. CASE i = n + 1
        <4>1. NoneOf(responses, s) /\ x.side = s /\ responses'[i] = x
          BY <1>4, <1>5, <2>4, <3>2
        <4> QED BY <2>3, <4>1
      <3> QED BY <1>6, <3>1, <3>2
    <2>5. ASSUME NEW i \in 1 .. n + 1, NEW j \in 1 .. n + 1, NextOf(responses', s, i, j)
          PROVE  responses'[j].exec + responses'[j].leaves = responses'[i].leaves
      <3>1. i \in 1 .. n
        <4>1. ~NextOf(responses', s, n + 1, j)
          BY <1>5
        <4> QED BY <1>6, <2>5, <4>1
      <3>2. CASE j \in 1 .. n
        <4>1. /\ NextOf(responses, s, i, j)
              /\ responses'[i] = responses[i] /\ responses'[j] = responses[j]
          BY <1>4, <1>5, <2>5, <3>1, <3>2
        <4> QED BY <2>1, <3>1, <3>2, <4>1
      <3>3. CASE j = n + 1
        <4>1. /\ LastOf(responses, s, i) /\ x.side = s
              /\ responses'[i] = responses[i] /\ responses'[j] = x
          BY <1>4, <1>5, <2>5, <3>1, <3>3
        <4> QED BY <2>3, <3>1, <4>1
      <3> QED BY <1>6, <3>2, <3>3
    <2>6. ASSUME NEW i \in 1 .. n + 1, LastOf(responses', s, i)
          PROVE  \/ responses'[i].leaves = resting'[s].leaves
                 \/ responses'[i].type = "CANCELED"
      <3>1. CASE i \in 1 .. n
        <4>1. LastOf(responses, s, i) /\ x.side # s /\ responses'[i] = responses[i]
          BY <1>4, <1>5, <2>6, <3>1
        <4> QED BY <2>1, <2>2, <3>1, <4>1
      <3>2. CASE i = n + 1
        <4>1. x.side = s /\ responses'[i] = x
          BY <1>4, <1>5, <2>6, <3>2
        <4> QED BY <2>3, <4>1
      <3> QED BY <1>6, <3>1, <3>2
    <2>7. NoneOf(responses', s) => NoneOf(responses, s) /\ resting'[s] = resting[s]
      BY <1>5, <2>2
    <2> QED BY <2>1, <2>4, <2>5, <2>6, <2>7
  <1>12. LimitInv'
    BY <1>2 DEF IInv, LimitInv, Open, Active
  <1> QED BY <1>3, <1>7, <1>8, <1>9, <1>10, <1>11, <1>12 DEF IInv

\* What is known of a side on which an order rests.
LEMMA RestingSide ==
    ASSUME IInv, NEW s \in Sides, resting[s] # Nothing
    PROVE  /\ resting[s] \in [order_id : Nat, leaves : Nat]
           /\ resting[s].order_id = order[s].order_id
           /\ resting[s].leaves > 0 /\ Active(s)
           /\ \A i \in 1 .. Len(responses) :
                responses[i].side = s =>
                  /\ responses[i].type # "CANCELED"
                  /\ ~(responses[i].type = "FILLED" /\ responses[i].leaves = 0)
           /\ \A i \in 1 .. Len(requests) :
                requests[i].type = "NEW" => requests[i].side # s
           /\ NoneOf(responses, s) =>
                order[s].state # "PENDING_NEW" /\ resting[s].leaves = order[s].qty
           /\ \A i \in 1 .. Len(responses) :
                LastOf(responses, s, i) => responses[i].leaves = resting[s].leaves
  <1>1. /\ resting[s] \in [order_id : Nat, leaves : Nat]
        /\ resting[s].order_id = order[s].order_id
        /\ resting[s].leaves > 0 /\ Active(s)
    BY DEF IInv, TypeOK, RestingInv
  <1>2. \A i \in 1 .. Len(responses) :
            responses[i].side = s =>
              /\ responses[i].type # "CANCELED"
              /\ ~(responses[i].type = "FILLED" /\ responses[i].leaves = 0)
    BY DEF IInv, ResponsesInv
  <1>3. \A i \in 1 .. Len(requests) :
            requests[i].type = "NEW" => requests[i].side # s
    BY DEF IInv, RequestsInv
  <1>4. NoneOf(responses, s) =>
            order[s].state # "PENDING_NEW" /\ resting[s].leaves = order[s].qty
    BY <1>1 DEF IInv, ChainInv, Active
  <1>5. ASSUME NEW i \in 1 .. Len(responses), LastOf(responses, s, i)
        PROVE  responses[i].leaves = resting[s].leaves
    BY <1>2, <1>5 DEF IInv, ChainInv, LastOf, OfSide
  <1> QED BY <1>1, <1>2, <1>3, <1>4, <1>5

\* The matching engine takes a new order.
LEMMA AddKeeps ==
    ASSUME IInv, ExchangeAdd
    PROVE  IInv'
  <1> DEFINE r == requests[1]
             s == r.side
             x == [type |-> "ACCEPTED", side |-> s, order_id |-> r.order_id,
                   exec |-> 0, leaves |-> r.qty]
             t == [order_id |-> r.order_id, leaves |-> r.qty]
  <1>1. /\ requests \in Seq(Request) /\ requests # <<>>
        /\ Head(requests) = r /\ r \in Request /\ 1 \in 1 .. Len(requests)
        /\ resting \in [Sides -> [order_id : Nat, leaves : Nat]]
    BY DEF ExchangeAdd, IInv, TypeOK
  <1>2. s \in Sides /\ r.qty \in Nat /\ r.order_id \in Nat /\ r.type = "NEW"
    BY <1>1 DEF Request, ExchangeAdd
  <1>3. /\ responses' = Append(responses, x) /\ requests' = Tail(requests)
        /\ resting' = [resting EXCEPT ![s] = t]
        /\ UNCHANGED <<engineVars, updates, published>>
    BY <1>1 DEF ExchangeAdd, Respond
  <1>4. /\ order[s].state = "PENDING_NEW" /\ r.order_id = order[s].order_id
        /\ r.qty = order[s].qty /\ resting[s] = Nothing /\ NoneOf(responses, s)
        /\ \A j \in 1 .. Len(requests) :
             requests[j].type = "NEW" /\ requests[j].side = s => j = 1
    BY <1>1, <1>2 DEF IInv, RequestsInv
  <1>5. r.qty > 0
    BY <1>2, <1>4 DEF IInv, SlotInv
  <1>6. \A i \in 1 .. Len(requests') : requests'[i].type = "NEW" => requests'[i].side # s
    <2> SUFFICES ASSUME NEW i \in 1 .. Len(requests'), requests'[i].type = "NEW"
                 PROVE  requests'[i].side # s
      OBVIOUS
    <2>1. i \in Nat /\ i > 0 /\ i + 1 \in 1 .. Len(requests) /\ requests'[i] = requests[i + 1]
      BY <1>1, <1>3
    <2>2. i + 1 # 1
      BY <2>1
    <2> QED BY <1>4, <2>1, <2>2
  <1> HIDE DEF s, r
  <1>7. /\ x \in Response /\ x.side = s /\ x.type = "ACCEPTED" /\ x.exec = 0
        /\ x.leaves = r.qty /\ x.order_id = r.order_id
        /\ t.order_id = r.order_id /\ t.leaves = r.qty
        /\ t \in [order_id : Nat, leaves : Nat]
    BY <1>2 DEF Response
  <1>8. /\ resting' \in [Sides -> [order_id : Nat, leaves : Nat]]
        /\ resting'[s] = t /\ \A z \in Sides : z # s => resting'[z] = resting[z]
    BY <1>1, <1>2, <1>3, <1>7
  <1> HIDE DEF x, t
  <1>9. \A i \in 1 .. Len(responses) : responses[i].side # s /\ ~LastOf(responses, s, i)
    BY <1>4 DEF NoneOf, LastOf, OfSide
  <1>10. x.exec + x.leaves = order[s].qty
    BY <1>2, <1>4, <1>7
  <1>11. Answers(x)
    BY <1>2, <1>4, <1>5, <1>6, <1>7, <1>8, <1>9, <1>10 DEF Answers, Active
  <1> QED BY <1>1, <1>3, <1>7, <1>8, <1>11, AnswerKeeps

\* The matching engine answers a cancel.
LEMMA CancelKeeps ==
    ASSUME IInv, ExchangeCancel
    PROVE  IInv'
  <1> DEFINE r == requests[1]
             s == r.side
             x == [type |-> "CANCELED", side |-> s, order_id |-> r.order_id,
                   exec |-> 0, leaves |-> resting[s].leaves]
             y == [type |-> "CANCEL_REJECTED", side |-> "INVALID",
                   order_id |-> r.order_id, exec |-> 0, leaves |-> 0]
  <1>1. /\ requests \in Seq(Request) /\ requests # <<>>
        /\ Head(requests) = r /\ r \in Request /\ 1 \in 1 .. Len(requests)
        /\ resting \in [Sides -> [order_id : Nat, leaves : Nat]]
    BY DEF ExchangeCancel, IInv, TypeOK
  <1>2. s \in Sides /\ r.order_id \in Nat /\ r.type = "CANCEL"
    BY <1>1 DEF Request, ExchangeCancel
  <1>3. /\ requests' = Tail(requests)
        /\ UNCHANGED <<engineVars, updates, published>>
        /\ \/ /\ resting[s].order_id = r.order_id
              /\ responses' = Append(responses, x)
              /\ resting' = [resting EXCEPT ![s] = Nothing]
           \/ responses' = Append(responses, y) /\ resting' = resting
    BY <1>1 DEF ExchangeCancel, Respond
  <1>4. /\ r.order_id >= 1
        /\ r.order_id = order[s].order_id => order[s].state \in {"PENDING_CANCEL", "DEAD"}
    BY <1>1, <1>2 DEF IInv, RequestsInv
  <1>5. CASE responses' = Append(responses, y) /\ resting' = resting
    <2>1. y \in Response /\ y.type = "CANCEL_REJECTED" /\ y.side \notin Sides
      BY <1>2 DEF Response, Sides
    <2> HIDE DEF y
    <2>2. Answers(y)
      BY <1>5, <2>1 DEF Answers
    <2> QED BY <1>1, <1>3, <1>5, <2>1, <2>2, AnswerKeeps
  <1>6. CASE /\ resting[s].order_id = r.order_id
             /\ responses' = Append(responses, x)
             /\ resting' = [resting EXCEPT ![s] = Nothing]
    <2>1. resting[s] # Nothing
      BY <1>4, <1>6 DEF Nothing
    <2> HIDE DEF s, r
    <2>2. /\ resting[s].order_id = order[s].order_id
          /\ resting[s].leaves \in Nat /\ Active(s)
          /\ \A i \in 1 .. Len(responses) :
               responses[i].side = s =>
                 /\ responses[i].type # "CANCELED"
                 /\ ~(responses[i].type = "FILLED" /\ responses[i].leaves = 0)
          /\ \A i \in 1 .. Len(requests) :
               requests[i].type = "NEW" => requests[i].side # s
          /\ NoneOf(responses, s) =>
               order[s].state # "PENDING_NEW" /\ resting[s].leaves = order[s].qty
          /\ \A i \in 1 .. Len(responses) :
               LastOf(responses, s, i) => responses[i].leaves = resting[s].leaves
      BY <1>2, <2>1, RestingSide
    <2>3. \A i \in 1 .. Len(requests') :
              requests'[i].type = "NEW" => requests'[i].side # s
      <3> SUFFICES ASSUME NEW i \in 1 .. Len(requests')
                   PROVE  requests'[i].type = "NEW" => requests'[i].side # s
        OBVIOUS
      <3>1. i + 1 \in 1 .. Len(requests) /\ requests'[i] = requests[i + 1]
        BY <1>1, <1>3
      <3> QED BY <2>2, <3>1
    <2>4. /\ x \in Response /\ x.side = s /\ x.type = "CANCELED" /\ x.exec = 0
          /\ x.leaves = resting[s].leaves /\ x.order_id = r.order_id
      BY <1>2, <2>2 DEF Response
    <2>5. /\ resting' \in [Sides -> [order_id : Nat, leaves : Nat]]
          /\ resting'[s] = Nothing /\ \A z \in Sides : z # s => resting'[z] = resting[z]
      BY <1>1, <1>2, <1>6 DEF Nothing
    <2> HIDE DEF x
    <2>6. x.exec + x.leaves = resting[s].leaves
      BY <2>2, <2>4
    <2>7. order[s].state # "PENDING_NEW"
      BY <1>4, <1>6, <2>2
    <2>8. Answers(x)
      BY <1>2, <1>6, <2>2, <2>3, <2>4, <2>5, <2>6, <2>7 DEF Answers
    <2> QED BY <1>1, <1>3, <1>6, <2>4, <2>5, <2>8, AnswerKeeps
  <1> QED BY <1>3, <1>5, <1>6

\* An order that rests is filled, in part or to the end.
LEMMA FillKeeps ==
    ASSUME IInv, ExchangeFill
    PROVE  IInv'
  <1> DEFINE Filled(s, qty) ==
               LET leaves == resting[s].leaves - qty
               IN  /\ Respond("FILLED", s, resting[s].order_id, qty, leaves)
                   /\ resting' = [resting EXCEPT ![s] =
                                     IF leaves = 0 THEN Nothing
                                                   ELSE [@ EXCEPT !.leaves = leaves]]
                   /\ UNCHANGED <<engineVars, updates, published, requests>>
  <1>0. PICK s \in Sides : \E qty \in 1 .. resting[s].leaves : Filled(s, qty)
    BY DEF ExchangeFill
  <1>1. PICK qty \in 1 .. resting[s].leaves : Filled(s, qty)
    BY <1>0
  <1> DEFINE l == resting[s].leaves - qty
             x == [type |-> "FILLED", side |-> s, order_id |-> resting[s].order_id,
                   exec |-> qty, leaves |-> l]
  <1>2. /\ resting \in [Sides -> [order_id : Nat, leaves : Nat]]
        /\ resting[s].leaves \in Nat /\ resting[s].order_id \in Nat
    BY DEF IInv, TypeOK
  <1>3. /\ qty \in Nat /\ l \in Nat /\ qty + l = resting[s].leaves
        /\ resting[s] # Nothing
    BY <1>2 DEF Nothing
  <1>4. /\ responses' = Append(responses, x) /\ requests' = requests
        /\ resting' = [resting EXCEPT ![s] =
                          IF l = 0 THEN Nothing ELSE [resting[s] EXCEPT !.leaves = l]]
        /\ UNCHANGED <<engineVars, updates, published>>
    BY <1>1 DEF Respond
  <1> HIDE DEF l
  <1>5. /\ resting' \in [Sides -> [order_id : Nat, leaves : Nat]]
        /\ resting'[s].leaves = l
        /\ IF l = 0 THEN resting'[s] = Nothing
                    ELSE resting'[s].order_id = resting[s].order_id
        /\ \A z \in Sides : z # s => resting'[z] = resting[z]
    <2>1. CASE l = 0
      BY <1>2, <1>4, <2>1 DEF Nothing
    <2>2. CASE l # 0
      BY <1>2, <1>3, <1>4, <2>2
    <2> QED BY <2>1, <2>2
  <1>6. /\ resting[s].order_id = order[s].order_id /\ Active(s)
        /\ \A i \in 1 .. Len(responses) :
             responses[i].side = s =>
               /\ responses[i].type # "CANCELED"
               /\ ~(responses[i].type = "FILLED" /\ responses[i].leaves = 0)
        /\ \A i \in 1 .. Len(requests') :
             requests'[i].type = "NEW" => requests'[i].side # s
        /\ NoneOf(responses, s) =>
             order[s].state # "PENDING_NEW" /\ resting[s].leaves = order[s].qty
        /\ \A i \in 1 .. Len(responses) :
             LastOf(responses, s, i) => responses[i].leaves = resting[s].leaves
    BY <1>3, <1>4, RestingSide
  <1>7. /\ x \in Response /\ x.side = s /\ x.type = "FILLED" /\ x.exec = qty
        /\ x.leaves = l /\ x.order_id = resting[s].order_id
    BY <1>2, <1>3 DEF Response
  <1> HIDE DEF x
  <1>8. Answers(x)
    <2>1. \/ resting'[s] = Nothing
          \/ resting'[s].order_id = order[s].order_id /\ resting'[s].leaves > 0
      BY <1>3, <1>5, <1>6
    <2>2. x.exec + x.leaves = resting[s].leaves
      BY <1>3, <1>7
    <2> QED BY <1>5, <1>6, <1>7, <2>1, <2>2 DEF Answers
  <1> QED BY <1>4, <1>5, <1>7, <1>8, AnswerKeeps


-----------------------------------------------------------------------------
(* The invariant of every behaviour.                                       *)

\* The inductive invariant holds when the engine starts, and every step of
\* the engine, of the exchange and of the market keeps it.
LEMMA InitIInv == Init => IInv
  <1> SUFFICES ASSUME Init PROVE IInv
    OBVIOUS
  <1>1. /\ Clip \in Nat /\ MaxPosition \in Nat /\ MaxUpdates \in Nat
    BY TradingAssumption
  <1>2. \A s \in Sides : order[s] = NoOrder /\ resting[s] = Nothing
    BY DEF Init
  <1>3. NoOrder \in OMOrder /\ Nothing \in [order_id : Nat, leaves : Nat]
    BY DEF NoOrder, OMOrder, Nothing, States
  <1>4. TypeOK
    BY <1>1, <1>3 DEF Init, TypeOK
  <1>5. /\ NoOrder.order_id = 0 /\ NoOrder.state = "INVALID"
        /\ next_order_id_ = 1 /\ position_ = 0 /\ responses = <<>> /\ requests = <<>>
    BY DEF Init, NoOrder
  <1>6. SlotInv /\ RestingInv
    BY <1>2, <1>5 DEF SlotInv, RestingInv, Active
  <1>7. RequestsInv /\ ResponsesInv
    BY <1>5 DEF RequestsInv, ResponsesInv
  <1>8. ChainInv
    BY <1>2, <1>5 DEF ChainInv
  <1>9. \A s \in Sides : Open(s) = 0
    BY <1>2, <1>5 DEF Open, Active
  <1>10. LimitInv
    BY <1>1, <1>5, <1>9 DEF LimitInv, Sides
  <1> QED BY <1>4, <1>6, <1>7, <1>8, <1>10 DEF IInv

\* One case for each thing that ProcessResponse, MoveOrders and the exchange do.
LEMMA StepIInv == IInv /\ [Next]_vars => IInv'
  <1> SUFFICES ASSUME IInv, [Next]_vars PROVE IInv'
    OBVIOUS
  <1>1. ASSUME UNCHANGED <<order, next_order_id_, position_, requests, responses, resting>>,
               algo' = algo, phase' \in {"responses", "updates"},
               updates' \in Nat, published' \in 0 .. MaxUpdates
        PROVE  IInv'
    BY <1>1 DEF IInv, TypeOK, SlotInv, RestingInv, RequestsInv, ResponsesInv, ChainInv,
                LimitInv, Open, Active
  <1>2. /\ algo \in Algos /\ phase \in {"responses", "updates"} /\ updates \in Nat
        /\ published \in 0 .. MaxUpdates /\ MaxUpdates \in Nat
    BY TradingAssumption DEF IInv, TypeOK
  <1>3. CASE ProcessResponse
    BY <1>3, ResponseKeeps
  <1>4. CASE NextLoop
    BY <1>1, <1>2, <1>4 DEF NextLoop
  <1>5. CASE Pass
    BY <1>1, <1>2, <1>5 DEF Pass, ProcessUpdate
  <1>6. CASE MakerOnOrderBookUpdate
    BY <1>6, MoveKeeps DEF MakerOnOrderBookUpdate
  <1>7. CASE TakerOnTradeUpdate
    BY <1>7, MoveKeeps DEF TakerOnTradeUpdate
  <1>8. CASE ExchangeAdd
    BY <1>8, AddKeeps
  <1>9. CASE ExchangeCancel
    BY <1>9, CancelKeeps
  <1>10. CASE ExchangeFill
    BY <1>10, FillKeeps
  <1>11. CASE Publish
    BY <1>1, <1>2, <1>11 DEF Publish, engineVars
  <1>12. CASE UNCHANGED vars
    BY <1>1, <1>2, <1>12 DEF vars
  <1> QED
    BY <1>3, <1>4, <1>5, <1>6, <1>7, <1>8, <1>9, <1>10, <1>11, <1>12
    DEF Next, Run, Exchange

\* The inductive invariant holds in every state.
THEOREM Invariant == Spec => []IInv
  BY InitIInv, StepIInv, PTL DEF Spec

\* The variables keep their types, the quantity in a slot never below zero.
THEOREM TypeCorrect == Spec => []TypeOK
  <1>1. IInv => TypeOK
    BY DEF IInv
  <1> QED BY <1>1, Invariant, PTL

\* OrderManager::OnOrderUpdate changes the slot of a response's side without
\* a look at its order id, and it never is another order's.
THEOREM ResponsesFindTheirOrder == Spec => []AnswersMatchSlot
  <1>1. IInv => AnswersMatchSlot
    <2> SUFFICES ASSUME IInv PROVE AnswersMatchSlot
      OBVIOUS
    <2>1. responses \in Seq(Response)
      BY DEF IInv, TypeOK
    <2>2. DOMAIN responses = 1 .. Len(responses)
      BY <2>1
    <2> QED BY <2>2 DEF IInv, ResponsesInv, AnswersMatchSlot
  <1> QED BY <1>1, Invariant, PTL

\* RiskInfo::CheckPreTradeRisk reads a position that fills under way have
\* still to change, and all the same it never passes the limit.
THEOREM WithinLimit == Spec => []PositionWithinLimit
  <1>1. IInv => PositionWithinLimit
    <2> SUFFICES ASSUME IInv PROVE PositionWithinLimit
      OBVIOUS
    <2>1. /\ position_ \in Int /\ MaxPosition \in Nat
          /\ order \in [Sides -> OMOrder]
      BY TradingAssumption DEF IInv, TypeOK
    <2>2. \A s \in Sides : Open(s) \in Nat
      BY <2>1 DEF Open, OMOrder
    <2>3. Open("BUY") \in Nat /\ Open("SELL") \in Nat
      BY <2>2 DEF Sides
    <2> QED BY <2>1, <2>3 DEF IInv, LimitInv, PositionWithinLimit, Abs
  <1> QED BY <1>1, Invariant, PTL

-----------------------------------------------------------------------------
(* What a side can still add to the position.                              *)

\* A set of naturals that is not empty has a least element.
LEMMA Least ==
    ASSUME NEW T, T \subseteq Nat, T # {}
    PROVE  \E x \in T : \A y \in T : x <= y
  <1>1. PICK x \in T : \A y \in T : ~(<<y, x>> \in OpToRel(<, Nat))
    BY NatLessThanWellFounded, WFMin
  <1>2. \A y \in T : <<y, x>> \in OpToRel(<, Nat) <=> y < x
    BY DEF OpToRel
  <1>3. \A y \in T : ~(y < x)
    BY <1>1, <1>2
  <1> QED BY <1>3

\* A set that holds 0, and with every number the next, holds every number.
LEMMA Induction ==
    ASSUME NEW T, T \subseteq Nat, 0 \in T, \A n \in T : n + 1 \in T
    PROVE  T = Nat
  <1> SUFFICES ASSUME T # Nat PROVE FALSE
    OBVIOUS
  <1>1. PICK x \in Nat \ T : \A y \in Nat \ T : x <= y
    BY Least, Nat \ T # {}
  <1>2. x # 0 /\ x - 1 \in T
    BY <1>1
  <1> QED BY <1>1, <1>2

\* Total adds up the numbers of a sequence one after the other.
LEMMA TotalOf ==
    ASSUME NEW q \in Seq(Nat)
    PROVE  \E h \in [0 .. Len(q) -> Nat] :
               /\ h[0] = 0 /\ Total(q) = h[Len(q)]
               /\ \A i \in 1 .. Len(q) : h[i] = h[i - 1] + q[i]
  <1> DEFINE N == Len(q)
             IsSum(h, n) == h[0] = 0 /\ \A i \in 1 .. n : h[i] = h[i - 1] + q[i]
             T == {n \in Nat : n <= N => \E h \in [0 .. n -> Nat] : IsSum(h, n)}
  <1>0. N \in Nat /\ \A i \in 1 .. N : q[i] \in Nat
    OBVIOUS
  <1> HIDE DEF N
  <1>1. 0 \in T
    <2>1. [i \in 0 .. 0 |-> 0] \in [0 .. 0 -> Nat] /\ IsSum([i \in 0 .. 0 |-> 0], 0)
      OBVIOUS
    <2> QED BY <2>1, Zenon
  <1>2. ASSUME NEW n \in T PROVE n + 1 \in T
    <2> SUFFICES ASSUME n + 1 <= N
                 PROVE  \E k \in [0 .. n + 1 -> Nat] : IsSum(k, n + 1)
      <3>1. n + 1 \in Nat
        OBVIOUS
      <3> QED BY <3>1, Zenon
    <2>1. PICK h \in [0 .. n -> Nat] : IsSum(h, n)
      BY <1>0
    <2> DEFINE k == [i \in 0 .. n + 1 |-> IF i <= n THEN h[i] ELSE h[n] + q[n + 1]]
    <2>2. n \in Nat /\ q[n + 1] \in Nat /\ h[n] \in Nat
      BY <1>0
    <2>3. k \in [0 .. n + 1 -> Nat]
      BY <2>2
    <2>4. k[n + 1] = h[n] + q[n + 1] /\ \A i \in 0 .. n : k[i] = h[i]
      BY <2>2
    <2> HIDE DEF k
    <2>5. IsSum(k, n + 1)
      <3>1. k[0] = 0
        BY <2>1, <2>2, <2>4
      <3>2. ASSUME NEW i \in 1 .. n + 1 PROVE k[i] = k[i - 1] + q[i]
        <4>1. CASE i = n + 1
          BY <2>2, <2>4, <4>1
        <4>2. CASE i \in 1 .. n
          <5>1. h[i] = h[i - 1] + q[i] /\ i \in 0 .. n /\ i - 1 \in 0 .. n
            BY <2>1, <2>2, <4>2
          <5> QED BY <2>4, <5>1
        <4> QED BY <2>2, <4>1, <4>2
      <3> QED BY <3>1, <3>2
    <2> QED BY <2>3, <2>5, Zenon
  <1> HIDE DEF T
  <1>3. T = Nat
    BY <1>1, <1>2, Induction DEF T
  <1>4. PICK h \in [0 .. N -> Nat] : IsSum(h, N)
    <2>1. N \in T /\ N <= N
      BY <1>0, <1>3
    <2> QED BY <2>1, Zenon DEF T
  <1> DEFINE Defines(f) == f = [n \in 0 .. N |-> IF n = 0 THEN 0 ELSE f[n - 1] + q[n]]
             g == CHOOSE f : Defines(f)
  <1>5. Defines(h)
    <2>1. \A n \in 0 .. N : h[n] = IF n = 0 THEN 0 ELSE h[n - 1] + q[n]
      BY <1>0, <1>4
    <2> QED BY <2>1
  <1>6. Defines(g)
    BY <1>5, Zenon
  <1>7. Total(q) = g[N]
    BY DEF Total, N
  <1> HIDE DEF g
  <1>8. IsSum(g, N)
    <2>1. 0 \in 0 .. N /\ \A i \in 1 .. N : i \in 0 .. N /\ i # 0
      BY <1>0
    <2> QED BY <1>6, <2>1
  <1> DEFINE U == {n \in Nat : n <= N => g[n] = h[n]}
  <1>9. U = Nat
    <2>1. 0 \in U
      BY <1>4, <1>8
    <2>2. ASSUME NEW n \in U PROVE n + 1 \in U
      <3> SUFFICES ASSUME n + 1 <= N PROVE g[n + 1] = h[n + 1]
        OBVIOUS
      <3>1. n + 1 \in 1 .. N /\ (n + 1) - 1 = n /\ g[n] = h[n]
        BY <1>0
      <3>2. g[n + 1] = g[n] + q[n + 1] /\ h[n + 1] = h[n] + q[n + 1]
        BY <1>4, <1>8, <3>1
      <3> QED BY <3>1, <3>2
    <2> HIDE DEF U
    <2> QED BY <2>1, <2>2, Induction DEF U
  <1>10. g[N] = h[N]
    BY <1>0, <1>9
  <1> QED BY <1>4, <1>7, <1>10 DEF N

\* The total of numbers of which at most one is not zero is that one.
LEMMA TotalOfOne ==
    ASSUME NEW q \in Seq(Nat),
           \A i, j \in 1 .. Len(q) : q[i] # 0 /\ q[j] # 0 => i = j
    PROVE  Total(q) = 0 \/ \E i \in 1 .. Len(q) : q[i] # 0 /\ Total(q) = q[i]
  <1> DEFINE N == Len(q)
  <1>1. N \in Nat /\ \A i \in 1 .. N : q[i] \in Nat
    OBVIOUS
  <1>2. PICK h \in [0 .. N -> Nat] :
            /\ h[0] = 0 /\ Total(q) = h[N]
            /\ \A i \in 1 .. N : h[i] = h[i - 1] + q[i]
    BY TotalOf
  <1> DEFINE P(k) == h[k] = 0 \/ \E i \in 1 .. k : q[i] # 0 /\ h[k] = q[i]
             T == {k \in Nat : k <= N => P(k)}
  <1>3. 0 \in T
    BY <1>2
  <1>4. ASSUME NEW k \in T PROVE k + 1 \in T
    <2>1. ASSUME k + 1 <= N PROVE P(k + 1)
      <3>1. /\ k \in Nat /\ k + 1 \in 1 .. N /\ k \in 0 .. N /\ (k + 1) - 1 = k
            /\ q[k + 1] \in Nat /\ h[k] \in Nat
        BY <1>1, <2>1
      <3>2. h[k + 1] = h[k] + q[k + 1] /\ P(k)
        BY <1>1, <1>2, <2>1, <3>1
      <3>3. \A i \in 1 .. k : i \in 1 .. N /\ i \in 1 .. k + 1 /\ i # k + 1
        BY <1>1, <3>1
      <3>4. CASE q[k + 1] = 0
        BY <3>1, <3>2, <3>3, <3>4
      <3>5. CASE q[k + 1] # 0
        <4>1. h[k] = 0
          BY <3>1, <3>2, <3>3, <3>5
        <4>2. h[k + 1] = q[k + 1] /\ k + 1 \in 1 .. k + 1
          BY <3>1, <3>2, <4>1
        <4> QED BY <3>5, <4>2
      <3> QED BY <3>4, <3>5
    <2>2. k + 1 \in Nat
      OBVIOUS
    <2> QED BY <2>1, <2>2, Zenon
  <1> HIDE DEF P
  <1>5. T = Nat
    <2> HIDE DEF T
    <2> QED BY <1>3, <1>4, Induction DEF T
  <1>6. P(N)
    BY <1>1, <1>5
  <1> QED BY <1>2, <1>6 DEF P

\* The fills under way of one side: what the first found in the slot, less
\* what the last left.
LEMMA TotalFilled ==
    ASSUME IInv, NEW s \in Sides
    PROVE  \/ NoneOf(responses, s) /\ Total(FilledQtys(s)) = 0
           \/ \E i \in 1 .. Len(responses) :
                /\ LastOf(responses, s, i)
                /\ Total(FilledQtys(s)) + responses[i].leaves = order[s].qty
                /\ Total(FilledQtys(s)) \in Nat
  <1> DEFINE N == Len(responses)
             q == FilledQtys(s)
  <1>1. /\ N \in Nat /\ DOMAIN responses = 1 .. N
        /\ \A i \in 1 .. N : responses[i] \in Response
    BY DEF IInv, TypeOK
  <1>2. /\ \A i \in 1 .. N : responses[i].exec \in Nat /\ responses[i].leaves \in Nat
        /\ order[s].qty \in Nat
    BY <1>1 DEF Response, IInv, TypeOK, OMOrder
  <1>3. /\ q \in Seq(Nat) /\ Len(q) = N
        /\ \A i \in 1 .. N : q[i] = IF responses[i].side = s THEN responses[i].exec ELSE 0
    BY <1>1, <1>2 DEF FilledQtys
  <1> HIDE DEF N, q
  <1>4. PICK h \in [0 .. N -> Nat] :
            /\ h[0] = 0 /\ Total(q) = h[N]
            /\ \A i \in 1 .. N : h[i] = h[i - 1] + q[i]
    BY <1>3, TotalOf
  <1> DEFINE A(k) == h[k] = 0 /\ \A j \in 1 .. k : responses[j].side # s
             B(k, i) == /\ responses[i].side = s
                        /\ \A j \in i + 1 .. k : responses[j].side # s
                        /\ h[k] + responses[i].leaves = order[s].qty
             P(k) == A(k) \/ \E i \in 1 .. k : B(k, i)
             T == {k \in Nat : k <= N => P(k)}
  <1>5. 0 \in T
    BY <1>4
  <1>6. ASSUME NEW k \in T PROVE k + 1 \in T
    <2>1. ASSUME k + 1 <= N PROVE P(k + 1)
      <3>0. /\ k \in Nat /\ k + 1 \in 1 .. N /\ k \in 0 .. N /\ (k + 1) - 1 = k
            /\ k <= N
        BY <1>1, <2>1
      <3>1. /\ k \in Nat /\ k + 1 \in 1 .. N
            /\ h[k] \in Nat /\ h[k + 1] = h[k] + q[k + 1] /\ P(k)
            /\ responses[k + 1].exec \in Nat /\ responses[k + 1].leaves \in Nat
        <4>1. P(k)
          BY <3>0, Zenon
        <4> HIDE DEF P
        <4> QED BY <1>2, <1>4, <3>0, <4>1
      <3>2. CASE responses[k + 1].side # s
        <4>1. h[k + 1] = h[k]
          BY <1>3, <3>1, <3>2
        <4>2. ASSUME A(k) PROVE A(k + 1)
          BY <3>1, <3>2, <4>1, <4>2
        <4>3. ASSUME NEW i \in 1 .. k, B(k, i) PROVE i \in 1 .. k + 1 /\ B(k + 1, i)
          BY <3>1, <3>2, <4>1, <4>3
        <4> QED BY <3>1, <4>2, <4>3
      <3>3. CASE responses[k + 1].side = s
        <4>1. h[k + 1] = h[k] + responses[k + 1].exec
          BY <1>3, <3>1, <3>3
        <4>2. ASSUME A(k)
              PROVE  responses[k + 1].exec + responses[k + 1].leaves = order[s].qty
                       /\ h[k] = 0
          <5>1. FirstOf(responses, s, k + 1)
            BY <3>1, <3>3, <4>2 DEF FirstOf, OfSide, N
          <5> QED BY <3>1, <4>2, <5>1 DEF IInv, ChainInv, N
        <4>3. ASSUME NEW i \in 1 .. k, B(k, i)
              PROVE  /\ responses[k + 1].exec + responses[k + 1].leaves = responses[i].leaves
                     /\ h[k] + responses[i].leaves = order[s].qty
                     /\ responses[i].leaves \in Nat
          <5>1. i \in 1 .. N /\ NextOf(responses, s, i, k + 1)
            BY <1>1, <3>1, <3>3, <4>3 DEF NextOf, OfSide, N
          <5> QED BY <1>2, <3>1, <4>3, <5>1 DEF IInv, ChainInv, N
        <4>4. h[k + 1] + responses[k + 1].leaves = order[s].qty
          <5>1. CASE A(k)
            BY <1>2, <3>1, <4>1, <4>2, <5>1
          <5>2. CASE \E i \in 1 .. k : B(k, i)
            <6>1. PICK i \in 1 .. k : B(k, i)
              BY <5>2
            <6>2. /\ responses[k + 1].exec + responses[k + 1].leaves = responses[i].leaves
                  /\ h[k] + responses[i].leaves = order[s].qty
                  /\ responses[i].leaves \in Nat
              BY <4>3, <6>1, Zenon
            <6> QED BY <1>2, <3>1, <4>1, <6>2
          <5> QED BY <3>1, <5>1, <5>2
        <4>5. k + 1 \in 1 .. k + 1 /\ B(k + 1, k + 1)
          BY <3>1, <3>3, <4>4
        <4> QED BY <4>5
      <3> QED BY <3>2, <3>3
    <2>2. k + 1 \in Nat
      OBVIOUS
    <2> QED BY <2>1, <2>2, Zenon
  <1> HIDE DEF P
  <1>7. T = Nat
    <2> HIDE DEF T
    <2> QED BY <1>5, <1>6, Induction DEF T
  <1>8. P(N)
    BY <1>1, <1>7
  <1>9. CASE A(N)
    BY <1>4, <1>9 DEF NoneOf, N, q
  <1>10. CASE \E i \in 1 .. N : B(N, i)
    <2>1. PICK i \in 1 .. N : B(N, i)
      BY <1>10
    <2>2. LastOf(responses, s, i)
      BY <2>1 DEF LastOf, OfSide, N
    <2>3. Total(q) + responses[i].leaves = order[s].qty /\ Total(q) \in Nat
      BY <1>1, <1>4, <2>1
    <2> QED BY <2>2, <2>3 DEF N, q
  <1> QED BY <1>8, <1>9, <1>10 DEF P

\* OrderManager allows a single order on each side: what is on its way to
\* the exchange, what rests there and the fills on their way back never add
\* up to more than the quantity in the slot, and to nothing when the slot
\* holds no order.
THEOREM OneOrderPerSide == Spec => []SlotCoversExposure
  <1>1. IInv => SlotCoversExposure
    <2> SUFFICES ASSUME IInv, NEW s \in Sides
                 PROVE  Exposure(s) <= IF order[s].state \in {"INVALID", "DEAD"}
                                       THEN 0 ELSE order[s].qty
      BY DEF SlotCoversExposure
    <2> DEFINE f == Total(FilledQtys(s))
               q == SentQtys(s)
               M == Len(requests)
    <2>1. /\ M \in Nat /\ DOMAIN requests = 1 .. M
          /\ \A i \in 1 .. M : requests[i] \in Request
      BY DEF IInv, TypeOK
    <2>2. \A i \in 1 .. M : requests[i].qty \in Nat
      BY <2>1 DEF Request
    <2>3. /\ q \in Seq(Nat) /\ Len(q) = M
          /\ \A i \in 1 .. M : q[i] = IF requests[i].side = s /\ requests[i].type = "NEW"
                                    THEN requests[i].qty ELSE 0
      BY <2>1, <2>2 DEF SentQtys
    <2> HIDE DEF q, M, f
    <2>4. ASSUME NEW i \in 1 .. M, q[i] # 0
          PROVE  /\ requests[i].side = s /\ requests[i].type = "NEW"
                 /\ q[i] = order[s].qty /\ order[s].state = "PENDING_NEW"
                 /\ resting[s] = Nothing /\ NoneOf(responses, s)
      BY <2>3, <2>4 DEF IInv, RequestsInv, M
    <2>5. \A i, j \in 1 .. M : q[i] # 0 /\ q[j] # 0 => i = j
      BY <2>4 DEF IInv, RequestsInv, M
    <2>6. Total(q) = 0 \/ \E i \in 1 .. M : q[i] # 0 /\ Total(q) = q[i]
      BY <2>3, <2>5, TotalOfOne
    <2>7. order[s].qty \in Nat /\ resting[s].leaves \in Nat
      BY DEF IInv, TypeOK, OMOrder
    <2>8. Exposure(s) = Total(q) + resting[s].leaves + f
      BY DEF Exposure, q, f
    <2>9. CASE NoneOf(responses, s) /\ f = 0
      <3>1. CASE Total(q) = 0
        <4>1. resting[s].leaves = 0 \/ (Active(s) /\ resting[s].leaves = order[s].qty)
          <5>1. CASE resting[s] = Nothing
            BY <5>1 DEF Nothing
          <5>2. CASE resting[s] # Nothing
            BY <2>9, <5>2, RestingSide
          <5> QED BY <5>1, <5>2
        <4> QED BY <2>7, <2>8, <2>9, <3>1, <4>1 DEF Active
      <3>2. CASE \E i \in 1 .. M : q[i] # 0 /\ Total(q) = q[i]
        <4>1. /\ Total(q) = order[s].qty /\ order[s].state = "PENDING_NEW"
              /\ resting[s].leaves = 0
          BY <2>4, <3>2 DEF Nothing
        <4> QED BY <2>7, <2>8, <2>9, <4>1
      <3> QED BY <2>6, <3>1, <3>2
    <2>10. CASE \E i \in 1 .. Len(responses) :
                 /\ LastOf(responses, s, i)
                 /\ f + responses[i].leaves = order[s].qty /\ f \in Nat
      <3>1. PICK i \in 1 .. Len(responses) :
                 /\ LastOf(responses, s, i)
                 /\ f + responses[i].leaves = order[s].qty /\ f \in Nat
        BY <2>10
      <3>2. responses[i].side = s /\ ~NoneOf(responses, s)
        BY <3>1 DEF LastOf, OfSide, NoneOf
      <3>3. Active(s)
        BY <3>2 DEF IInv, ResponsesInv
      <3>4. Total(q) = 0
        BY <2>4, <2>6, <3>2
      <3>5. resting[s].leaves = responses[i].leaves \/ resting[s].leaves = 0
        <4>1. CASE responses[i].type = "CANCELED"
          BY <3>2, <4>1 DEF IInv, ResponsesInv, Nothing
        <4>2. CASE responses[i].type # "CANCELED"
          BY <3>1, <4>2 DEF IInv, ChainInv
        <4> QED BY <4>1, <4>2
      <3>6. responses[i].leaves \in Nat
        <4>1. responses[i] \in Response
          BY DEF IInv, TypeOK
        <4> QED BY <4>1 DEF Response
      <3> HIDE DEF Active
      <3>7. Exposure(s) <= order[s].qty
        BY <2>7, <2>8, <3>1, <3>4, <3>5, <3>6
      <3> QED BY <3>3, <3>7 DEF Active
    <2> QED BY <2>9, <2>10, TotalFilled DEF f
  <1> QED BY <1>1, Invariant, PTL
=============================================================================
