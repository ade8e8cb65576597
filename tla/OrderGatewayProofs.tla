------------------------- MODULE OrderGatewayProofs -------------------------
(***************************************************************************)
(* Each client's requests reach the matching engine in the order they were *)
(* made, and its responses reach it in the order they were sent, through   *)
(* restarts, dropped connections and send buffers that lose messages, as   *)
(* long as no send is cut inside a record.                                 *)
(***************************************************************************)
EXTENDS OrderGateway, FiniteSetTheorems, WellFoundedInduction, TLAPS

\* A request and a response on a connection, a request with its arrival
\* time, one that is pending, and what the engine sees.
RequestMsg == [client_id_ : Clients, seq_num_ : Nat, n : Nat]
ResponseMsg == [seq_num_ : Nat, client_id_ : Clients, n : Nat]
Packet == [msg : RequestMsg, time : Nat]
Item == Clients \X Nat
PendingRequest == [recv_time_ : Nat, request_ : Item]

Shape ==
    /\ load \in Loads
    /\ conn \in [Clients -> 0 .. MaxRestarts + 1]
    /\ requested \in [Clients -> Nat]
    /\ next_outgoing_seq_num_ \in [Clients -> Nat]
    /\ next_exp_seq_num_ \in [Clients -> Nat]
    /\ client_outbound \in [Clients -> Seq(RequestMsg)]
    /\ answers \in [Clients -> Seq(Nat)]
    /\ misnumbered \in BOOLEAN
    /\ server_rx \in [Sockets -> Seq(Packet)]
    /\ client_rx \in [Sockets -> Seq(ResponseMsg)]
    /\ clock \in Nat
    /\ spc \in {"poll", "recv", "respond", "exit"}
    /\ at \in Nat \ {0} /\ recv \in BOOLEAN
    /\ backlog \in Seq(Sockets) /\ receive_sockets_ \in Seq(Sockets)
    /\ server_outbound \in [Sockets -> Seq(ResponseMsg)]
    /\ cid_tcp_socket_ \in [Clients -> Sockets \cup {NoSocket}]
    /\ cid_next_exp_seq_num_ \in [Clients -> Nat]
    /\ cid_next_outgoing_seq_num_ \in [Clients -> Nat]
    /\ pending_client_requests_ \in Seq(PendingRequest)
    /\ incoming_requests_ \in Seq(Item) /\ outgoing_responses_ \in Seq(Item)
    /\ sequenced \in Seq(Item) /\ responded \in Seq(Item)

-----------------------------------------------------------------------------
(* Whole records: the steps, as they are while no send has been cut inside *)
(* a record.                                                               *)

\* The messages of a read that come in sequence: those of the indices `own',
\* and of all, when they are of one client.
Picked(own, msgs, exp) ==
    LET numbers == {msgs[k].seq_num_ : k \in own}
        good    == {q \in numbers : exp .. q \subseteq numbers}
    IN  [i \in 1 .. Cardinality(good) |->
            msgs[CHOOSE k \in own : msgs[k].seq_num_ = exp + i - 1]]
FromOn(msgs, exp) == {k \in 1 .. Len(msgs) : msgs[k].seq_num_ >= exp}
Consecutive(msgs, exp) == Picked(FromOn(msgs, exp), msgs, exp)

WholeParts(buffer) ==
    IF load.send_may_fail THEN {SubSeq(buffer, 1, n) : n \in 0 .. Len(buffer)} ELSE {buffer}

WholeClientSendAndRecv(c) ==
    LET s    == <<c, conn[c]>>
        good == Consecutive(client_rx[s], next_exp_seq_num_[c])
    IN  /\ conn[c] > 0
        /\ client_rx' = [client_rx EXCEPT ![s] = <<>>]
        /\ answers' = [answers EXCEPT ![c] = @ \o [k \in 1 .. Len(good) |-> good[k].n]]
        /\ misnumbered' = (misnumbered \/ Len(good) < Len(client_rx[s]))
        /\ next_exp_seq_num_' = [next_exp_seq_num_ EXCEPT ![c] = @ + Len(good)]
        /\ \E sent \in WholeParts(client_outbound[c]) :
            /\ clock' = clock + Len(sent)
            /\ server_rx' = [server_rx EXCEPT ![s] = @ \o
                   [k \in 1 .. Len(sent) |-> [msg |-> sent[k], time |-> clock + k]]]
        /\ client_outbound' = [client_outbound EXCEPT ![c] = <<>>]
        /\ UNCHANGED <<load, conn, requested, next_outgoing_seq_num_, cut,
                       serverVars, engineVars>>

AddWholeRequests(pending, c, rx_time, msgs) ==
    pending \o [k \in 1 .. Len(msgs) |-> [recv_time_ |-> rx_time,
                                         request_ |-> <<c, msgs[k].n>>]]

WholeAccepted(s) ==
    LET c == s[1]
    IN  IF cid_tcp_socket_[c] \in {NoSocket, s}
        THEN Consecutive(Arrived(s), cid_next_exp_seq_num_[c])
        ELSE <<>>

WholeServerSendAndRecv ==
    /\ spc = "recv" /\ at <= Len(receive_sockets_)
    /\ LET s    == receive_sockets_[at]
           c    == s[1]
           good == WholeAccepted(s)
       IN  /\ server_rx' = [server_rx EXCEPT ![s] = <<>>]
           /\ recv' = (recv \/ server_rx[s] # <<>>)
           /\ cid_tcp_socket_' = [cid_tcp_socket_ EXCEPT ![c] =
                  IF server_rx[s] # <<>> /\ @ = NoSocket THEN s ELSE @]
           /\ cid_next_exp_seq_num_' = [cid_next_exp_seq_num_ EXCEPT ![c] = @ + Len(good)]
           /\ pending_client_requests_' =
                  AddWholeRequests(pending_client_requests_, c, RxTime(server_rx[s]), good)
           /\ \E sent \in WholeParts(server_outbound[s]) :
                  client_rx' = [client_rx EXCEPT ![s] = @ \o sent]
           /\ server_outbound' = [server_outbound EXCEPT ![s] = <<>>]
    /\ at' = at + 1
    /\ UNCHANGED <<load, clientVars, cut, clock, spc, backlog, receive_sockets_,
                   cid_next_outgoing_seq_num_, engineVars>>

WholeTooManyPending ==
    /\ spc = "recv" /\ at <= Len(receive_sockets_)
    /\ ~Fits(WholeAccepted(receive_sockets_[at]))
    /\ spc' = "exit"
    /\ UNCHANGED <<load, clientVars, kernelVars, at, recv, backlog,
                   receive_sockets_, server_outbound, cid_tcp_socket_,
                   cid_next_exp_seq_num_, cid_next_outgoing_seq_num_,
                   pending_client_requests_, engineVars>>

WholeServer ==
    \/ Poll \/ WholeServerSendAndRecv \/ WholeTooManyPending \/ SequenceAndPublish
    \/ NothingReceived \/ SendResponse \/ NextRound

WholeNext ==
    \/ \E c \in Clients : Start(c) \/ SendRequest(c) \/ WholeClientSendAndRecv(c)
    \/ WholeServer \/ EngineStep \/ EngineFatal

\* Messages are of client c and have numbers.
OwnOf(c, q) == \A i \in 1 .. Len(q) : q[i].client_id_ = c /\ q[i].seq_num_ # 0
OwnPackets(c, q) == \A i \in 1 .. Len(q) : q[i].msg.client_id_ = c /\ q[i].msg.seq_num_ # 0

\* So is everything on its way.
Own ==
    /\ \A c \in Clients : OwnOf(c, client_outbound[c]) /\ cid_next_outgoing_seq_num_[c] # 0
    /\ \A s \in Sockets : /\ OwnPackets(s[1], server_rx[s])
                          /\ OwnOf(s[1], client_rx[s])
                          /\ OwnOf(s[1], server_outbound[s])

-----------------------------------------------------------------------------
(* Requests.                                                               *)

\* Messages not handed to the kernel yet, by a client that has made req requests
\* and will number the next one next.
OutOk(o, next, req) ==
    /\ \A i \in 1 .. Len(o) : o[i].seq_num_ \in 1 .. next - 1 /\ o[i].n \in o[i].seq_num_ .. req
    /\ \A i, j \in 1 .. Len(o) : i < j => o[i].n < o[j].n /\ o[i].seq_num_ < o[j].seq_num_

\* Messages on a connection, the last of them at time t or before.
RxOk(q, req, t) ==
    /\ \A i \in 1 .. Len(q) : /\ q[i].msg.seq_num_ \in 1 .. q[i].msg.n
                              /\ q[i].msg.n \in 1 .. req
                              /\ q[i].time <= t
    /\ \A i, j \in 1 .. Len(q) :
           i < j => /\ q[i].msg.n < q[j].msg.n /\ q[i].time <= q[j].time
                    /\ q[i].msg.seq_num_ < q[j].msg.seq_num_

\* Those in o come later than those in q, and have later numbers.
Later(q, o) == \A i \in 1 .. Len(q), j \in 1 .. Len(o) : q[i].msg.n < o[j].n
Higher(q, o, next) ==
    \A i \in 1 .. Len(q) : /\ q[i].msg.seq_num_ < next
                           /\ \A j \in 1 .. Len(o) : q[i].msg.seq_num_ < o[j].seq_num_

\* What a client has not sent, and what has arrived on a socket.
OutInv(c) ==
    /\ requested[c] <= load.requests[c]
    /\ next_outgoing_seq_num_[c] \in 1 .. requested[c] + 1
    /\ OutOk(client_outbound[c], next_outgoing_seq_num_[c], requested[c])
RxInv(c, s) ==
    /\ s[2] > conn[c] => server_rx[s] = <<>>
    /\ RxOk(server_rx[s], requested[c], clock)
    /\ Later(server_rx[s], client_outbound[c])
    /\ s[2] = conn[c] =>
           Higher(server_rx[s], client_outbound[c], next_outgoing_seq_num_[c])

\* The order server has accepted request n of client c.
Taken(c, n) ==
    \/ \E i \in 1 .. Len(pending_client_requests_) :
           pending_client_requests_[i].request_ = <<c, n>>
    \/ \E i \in 1 .. Len(sequenced) : sequenced[i] = <<c, n>>

\* It accepts a client's requests on one socket only, where those still to
\* come are later.
BeforeRx(n, q) == \A i \in 1 .. Len(q) : n < q[i].msg.n
BeforeOut(n, o) == \A i \in 1 .. Len(o) : n < o[i].n
TakenInv(c) ==
    LET s == cid_tcp_socket_[c]
    IN  /\ cid_next_exp_seq_num_[c] \in 1 .. requested[c] + 1
        /\ s # NoSocket => s \in Sockets /\ s[1] = c /\ s[2] <= conn[c]
        /\ \A n \in Nat : Taken(c, n) =>
               /\ s # NoSocket
               /\ n \in 1 .. requested[c]
               /\ BeforeRx(n, server_rx[s])
               /\ BeforeOut(n, client_outbound[c])

\* Pending requests of a client come in order, with growing times, and after
\* those the engine has got.
Ordered(q) ==
    \A i, j \in 1 .. Len(q) :
        i < j /\ q[i].request_[1] = q[j].request_[1] =>
            q[i].request_[2] < q[j].request_[2] /\ q[i].recv_time_ <= q[j].recv_time_
Continues(h, q) ==
    \A i \in 1 .. Len(h), j \in 1 .. Len(q) :
        h[i][1] = q[j].request_[1] => h[i][2] < q[j].request_[2]
OnTime(c, t) ==
    /\ t <= clock
    /\ LET q == server_rx[cid_tcp_socket_[c]] IN \A k \in 1 .. Len(q) : t <= q[k].time
PendingInv ==
    /\ \A i \in 1 .. Len(pending_client_requests_) :
           OnTime(pending_client_requests_[i].request_[1],
                  pending_client_requests_[i].recv_time_)
    /\ Ordered(pending_client_requests_)
    /\ Continues(sequenced, pending_client_requests_)

\* The engine gets each client's requests in their order.
Ascending ==
    \A i, j \in 1 .. Len(sequenced) :
        i < j /\ sequenced[i][1] = sequenced[j][1] => sequenced[i][2] < sequenced[j][2]

\* The engine gets no request twice.
RequestsOnce == \A i, j \in 1 .. Len(sequenced) : i # j => sequenced[i] # sequenced[j]

RequestInv ==
    /\ \A c \in Clients : OutInv(c) /\ TakenInv(c)
    /\ \A s \in Sockets : RxInv(s[1], s)
    /\ PendingInv
    /\ RequestsOnce

-----------------------------------------------------------------------------
(* Responses.                                                              *)

\* How many of the first n responses of history h went to client c, and that the
\* q-th of them is n.
CountTo(h, c, n) == Cardinality({k \in 1 .. n : h[k][1] = c})
NthIs(h, c, q, n) == \E i \in 1 .. Len(h) : h[i] = <<c, n>> /\ CountTo(h, c, i) = q

\* Messages on their way are numbered as the responses of the history.
Told(h, c, q) == \A i \in 1 .. Len(q) : NthIs(h, c, q[i].seq_num_, q[i].n)

\* Numbers below top, growing: first those in the kernel, then the server's.
WireOk(q, o, top) ==
    /\ \A i \in 1 .. Len(q) : q[i].seq_num_ \in 1 .. top - 1
    /\ \A i \in 1 .. Len(o) : o[i].seq_num_ \in 1 .. top - 1
    /\ \A i, j \in 1 .. Len(q) : i < j => q[i].seq_num_ < q[j].seq_num_
    /\ \A i, j \in 1 .. Len(o) : i < j => o[i].seq_num_ < o[j].seq_num_
    /\ \A i \in 1 .. Len(q), j \in 1 .. Len(o) : q[i].seq_num_ < o[j].seq_num_

\* The responses that the order server has passed on, and their numbers.
Passed == Len(responded) - Len(outgoing_responses_)
NumberInv ==
    /\ Passed \in Nat
    /\ \A k \in 1 .. Len(outgoing_responses_) :
           outgoing_responses_[k] = responded[Passed + k]
    /\ \A c \in Clients : cid_next_outgoing_seq_num_[c] = CountTo(responded, c, Passed) + 1
    /\ \A k \in 1 .. Len(responded) : cid_tcp_socket_[responded[k][1]] # NoSocket
    /\ \A k \in 1 .. Len(incoming_requests_) :
           cid_tcp_socket_[incoming_requests_[k][1]] # NoSocket

\* What is on its way to client c on socket s.
WireInv(c, s) ==
    /\ s # cid_tcp_socket_[c] => client_rx[s] = <<>> /\ server_outbound[s] = <<>>
    /\ WireOk(client_rx[s], server_outbound[s], cid_next_outgoing_seq_num_[c])
    /\ Told(responded, c, client_rx[s])
    /\ Told(responded, c, server_outbound[s])

\* What a client has got, the first responses of the history.  Only the
\* connection its first request came on brings anything.
AnswersAre(h, c, a) == \A k \in 1 .. Len(a) : NthIs(h, c, k, a[k])
AnswerInv(c) ==
    /\ AnswersAre(responded, c, answers[c])
    /\ next_exp_seq_num_[c] \in 1 .. cid_next_outgoing_seq_num_[c]
    /\ cid_tcp_socket_[c] = <<c, conn[c]>> => Len(answers[c]) = next_exp_seq_num_[c] - 1
    /\ cid_tcp_socket_[c] # <<c, conn[c]>> => next_exp_seq_num_[c] = 1
    /\ cid_tcp_socket_[c] = NoSocket => answers[c] = <<>>

ResponseInv ==
    /\ NumberInv
    /\ \A s \in Sockets : WireInv(s[1], s)
    /\ \A c \in Clients : AnswerInv(c)

\* On reliable connections there is no gap in the numbers on the way.
From(q, first) == \A k \in 1 .. Len(q) : q[k].seq_num_ = first + k - 1
NoGaps(q, o, first, next) ==
    /\ Len(q) + Len(o) = next - first
    /\ From(q, first) /\ From(o, first + Len(q))
GapInv ==
    Reliable =>
        /\ ~misnumbered
        /\ \A c \in Clients :
            LET s == cid_tcp_socket_[c]
            IN  /\ conn[c] <= 1
                /\ s # NoSocket => NoGaps(client_rx[s], server_outbound[s],
                                          next_exp_seq_num_[c], cid_next_outgoing_seq_num_[c])

-----------------------------------------------------------------------------
(* Counting responses.                                                     *)

\* Responses of history h other than fills answer the first `done' of the
\* requests sq, and none twice.
Answered(h, sq, done) ==
    /\ \A k \in 1 .. Len(h) : h[k][2] # 0 => \E i \in 1 .. done : sq[i] = h[k]
    /\ \A j, k \in 1 .. Len(h) : j # k /\ h[k][2] # 0 => h[j] # h[k]
Filled(h) == Cardinality({k \in 1 .. Len(h) : h[k][2] = 0})

\* The requests that the engine has taken from its queue.
Done == Len(sequenced) - Len(incoming_requests_)
CountInv ==
    /\ Done \in Nat
    /\ \A k \in 1 .. Len(incoming_requests_) : incoming_requests_[k] = sequenced[Done + k]
    /\ Answered(responded, sequenced, Done)
    /\ Filled(responded) <= load.fills

IInv == Shape /\ Own /\ RequestInv /\ ResponseInv /\ GapInv /\ CountInv

-----------------------------------------------------------------------------
(* Sequences, and the receive loops.                                       *)

\* A set of naturals that is not empty has a least element.
LEMMA Least ==
    ASSUME NEW T, T \subseteq Nat, T # {}
    PROVE  \E x \in T : \A y \in T : x <= y
  <1>1. PICK x \in T : \A y \in T : ~(<<y, x>> \in OpToRel(<, Nat))
    BY NatLessThanWellFounded, WFMin
  <1>2. \A y \in T : <<y, x>> \in OpToRel(<, Nat) <=> y < x
    BY DEF OpToRel
  <1>3. \A y \in T : ~(y < x)
    BY <1>1, <1>2
  <1> QED BY <1>3

\* The size of an interval.
LEMMA Interval ==
    ASSUME NEW a \in Int, NEW b \in Int, a <= b + 1
    PROVE  IsFiniteSet(a .. b) /\ Cardinality(a .. b) = b - a + 1
  BY FS_Interval

\* What is where in a concatenation.
IsJoin(p, s, t) ==
    /\ Len(p) = Len(s) + Len(t) /\ Len(s) \in Nat /\ Len(t) \in Nat
    /\ \A k \in 1 .. Len(s) : p[k] = s[k]
    /\ \A k \in 1 .. Len(t) : p[Len(s) + k] = t[k]
    /\ \A k \in 1 .. Len(p) :
           k \notin 1 .. Len(s) => k - Len(s) \in 1 .. Len(t) /\ p[k] = t[k - Len(s)]

\* Concatenation puts it there.
LEMMA Joined ==
    ASSUME NEW E, NEW s \in Seq(E), NEW t \in Seq(E)
    PROVE  s \o t \in Seq(E) /\ IsJoin(s \o t, s, t)
  BY DEF IsJoin

\* One more element.
LEMMA OneMore ==
    ASSUME NEW E, NEW s \in Seq(E), NEW e \in E
    PROVE  /\ Append(s, e) \in Seq(E) /\ Len(Append(s, e)) = Len(s) + 1
           /\ Len(s) \in Nat
           /\ \A k \in 1 .. Len(s) : Append(s, e)[k] = s[k]
           /\ Append(s, e)[Len(s) + 1] = e
           /\ \A k \in 1 .. Len(Append(s, e)) : k \notin 1 .. Len(s) => k = Len(s) + 1
  OBVIOUS

\* A function on 1 .. n is a sequence.
LEMMA Listed ==
    ASSUME NEW E, NEW n \in Nat, NEW f \in [1 .. n -> E]
    PROVE  f \in Seq(E) /\ Len(f) = n
  OBVIOUS

\* The numbers of a read, from the expected one on without a gap.
Numbers(msgs) == {msgs[k].seq_num_ : k \in 1 .. Len(msgs)}
NoGap(msgs, exp) == {q \in Numbers(msgs) : q >= exp /\ exp .. q \subseteq Numbers(msgs)}

\* They are the first ones that are there.
LEMMA NoGapIs ==
    ASSUME NEW M, NEW msgs \in Seq(M), NEW exp \in Nat,
           \A k \in 1 .. Len(msgs) : msgs[k].seq_num_ \in Nat
    PROVE  /\ Cardinality(NoGap(msgs, exp)) \in 0 .. Len(msgs)
           /\ \A i \in 1 .. Cardinality(NoGap(msgs, exp)) :
                  \E k \in 1 .. Len(msgs) : msgs[k].seq_num_ = exp + i - 1
           /\ (\A k \in 1 .. Len(msgs) : msgs[k].seq_num_ = exp + k - 1)
                  => Cardinality(NoGap(msgs, exp)) = Len(msgs)
  <1> DEFINE D == Numbers(msgs)
             L == Len(msgs)
             T == {m \in Nat : m >= exp /\ m \notin D}
             f == [k \in 1 .. L |-> msgs[k].seq_num_]
  <1>0. L \in Nat
    OBVIOUS
  <1>1. D \subseteq Nat
    BY DEF Numbers
  <1>2. IsFiniteSet(1 .. L) /\ Cardinality(1 .. L) = L
    <2>1. 1 \in Int /\ L \in Int /\ 1 <= L + 1 /\ L - 1 + 1 = L
      BY <1>0
    <2> QED BY <2>1, Interval
  <1>3. f \in Surjection(1 .. L, D)
    BY DEF Numbers, Surjection
  <1>4. IsFiniteSet(D) /\ Cardinality(D) <= L /\ Cardinality(D) \in Nat
    <2>1. IsFiniteSet(D) /\ Cardinality(D) <= Cardinality(1 .. L)
      BY <1>2, <1>3, FS_Surjection
    <2> QED BY <2>1, <1>2, FS_CardinalityType
  <1>5. ASSUME NEW m \in Nat, m >= exp, exp .. m - 1 \subseteq D
        PROVE  m - exp <= L
    <2>1. m - 1 \in Int /\ exp \in Int /\ exp <= (m - 1) + 1 /\ (m - 1) - exp + 1 = m - exp
      BY <1>5
    <2>2. Cardinality(exp .. m - 1) = m - exp
      BY <2>1, Interval
    <2>3. Cardinality(exp .. m - 1) <= Cardinality(D)
      BY <1>4, <1>5, FS_Subset
    <2> QED BY <2>2, <2>3, <1>0, <1>4
  <1>6. T # {}
    <2> SUFFICES ASSUME T = {} PROVE FALSE
      OBVIOUS
    <2>1. /\ exp + L + 1 \in Nat /\ exp + L + 1 >= exp
          /\ exp .. (exp + L + 1) - 1 \subseteq D
      BY <1>0
    <2>2. (exp + L + 1) - exp <= L
      BY <2>1, <1>5
    <2> QED BY <2>2, <1>0
  <1>7. PICK m \in T : \A y \in T : m <= y
    BY <1>6, Least
  <1>8. m \in Nat /\ m >= exp /\ m \notin D /\ \A y \in exp .. m - 1 : y \in D
    BY <1>7
  <1>9. NoGap(msgs, exp) = exp .. m - 1
    <2> HIDE DEF D
    <2>1. ASSUME NEW y \in D, y >= exp, exp .. y \subseteq D PROVE y \in exp .. m - 1
      BY <1>1, <1>8, <2>1
    <2>2. ASSUME NEW y \in exp .. m - 1 PROVE y \in D /\ y >= exp /\ exp .. y \subseteq D
      BY <1>1, <1>8, <2>2
    <2> QED BY <2>1, <2>2 DEF NoGap, D
  <1>10. Cardinality(NoGap(msgs, exp)) = m - exp
    <2>1. m - 1 \in Int /\ exp \in Int /\ exp <= (m - 1) + 1 /\ (m - 1) - exp + 1 = m - exp
      BY <1>8
    <2> QED BY <2>1, <1>9, Interval
  <1>11. m - exp \in 0 .. L
    BY <1>0, <1>5, <1>8
  <1>12. ASSUME NEW i \in 1 .. m - exp PROVE \E k \in 1 .. L : msgs[k].seq_num_ = exp + i - 1
    <2>1. exp + i - 1 \in D
      BY <1>8
    <2> QED BY <2>1 DEF Numbers
  <1>13. ASSUME \A k \in 1 .. L : msgs[k].seq_num_ = exp + k - 1 PROVE m - exp = L
    <2>1. ASSUME NEW y \in exp .. exp + L - 1 PROVE y \in D
      <3>1. y - exp + 1 \in 1 .. L /\ exp + (y - exp + 1) - 1 = y
        BY <1>0
      <3> QED BY <3>1, <1>13 DEF Numbers
    <2>2. m > exp + L - 1
      BY <2>1, <1>8, <1>0
    <2> QED BY <2>2, <1>8, <1>11, <1>0
  <1> QED BY <1>10, <1>11, <1>12, <1>13

\* The receive loop takes messages of the read, in the order of the numbers
\* from exp on, and all of them when no number is left out.
LEMMA ConsecutiveIs ==
    ASSUME NEW M, NEW msgs \in Seq(M), NEW exp \in Nat,
           \A k \in 1 .. Len(msgs) : msgs[k].seq_num_ \in Nat
    PROVE  /\ Consecutive(msgs, exp) \in Seq(M)
           /\ Len(Consecutive(msgs, exp)) \in 0 .. Len(msgs)
           /\ \A i \in 1 .. Len(Consecutive(msgs, exp)) : \E k \in 1 .. Len(msgs) :
                  Consecutive(msgs, exp)[i] = msgs[k] /\ msgs[k].seq_num_ = exp + i - 1
           /\ (\A k \in 1 .. Len(msgs) : msgs[k].seq_num_ = exp + k - 1)
                  => Len(Consecutive(msgs, exp)) = Len(msgs)
  <1> DEFINE N == Cardinality(NoGap(msgs, exp))
             g == Consecutive(msgs, exp)
             P(i, k) == msgs[k].seq_num_ = exp + i - 1
  <1>1. /\ N \in 0 .. Len(msgs)
        /\ \A i \in 1 .. N : \E k \in 1 .. Len(msgs) : P(i, k)
        /\ (\A k \in 1 .. Len(msgs) : msgs[k].seq_num_ = exp + k - 1) => N = Len(msgs)
    BY NoGapIs
  <1>8. FromOn(msgs, exp) \subseteq 1 .. Len(msgs)
    BY DEF FromOn
  <1>9. NoGap(msgs, exp) =
            {q \in {msgs[k].seq_num_ : k \in FromOn(msgs, exp)} :
                exp .. q \subseteq {msgs[k].seq_num_ : k \in FromOn(msgs, exp)}}
    BY DEF NoGap, Numbers, FromOn
  <1>2. g = [i \in 1 .. N |-> msgs[CHOOSE k \in FromOn(msgs, exp) : P(i, k)]]
    BY <1>9 DEF Consecutive, Picked
  <1> HIDE DEF N, g, P
  <1>3. ASSUME NEW i \in 1 .. N
        PROVE  \E k \in 1 .. Len(msgs) : g[i] = msgs[k] /\ P(i, k)
    <2>1. \E k \in FromOn(msgs, exp) : P(i, k)
      <3>1. PICK k \in 1 .. Len(msgs) : P(i, k)
        BY <1>1
      <3>2. msgs[k].seq_num_ = exp + i - 1
        BY <3>1 DEF P
      <3>3. i \in Nat /\ i >= 1 /\ exp \in Nat
        BY <1>1
      <3>4. msgs[k].seq_num_ >= exp
        BY ONLY <3>2, <3>3
      <3> QED BY <3>1, <3>4 DEF FromOn
    <2>2. /\ (CHOOSE k \in FromOn(msgs, exp) : P(i, k)) \in FromOn(msgs, exp)
          /\ P(i, CHOOSE k \in FromOn(msgs, exp) : P(i, k))
      BY <2>1, Zenon
    <2>3. g[i] = msgs[CHOOSE k \in FromOn(msgs, exp) : P(i, k)]
      BY <1>2, Zenon
    <2> QED BY <2>2, <2>3, <1>8, Zenon
  <1>4. \A k \in 1 .. Len(msgs) : msgs[k] \in M
    OBVIOUS
  <1>5. g \in [1 .. N -> M]
    <2>1. g = [i \in 1 .. N |-> g[i]]
      BY <1>2
    <2>2. \A i \in 1 .. N : g[i] \in M
      BY <1>3, <1>4
    <2> QED BY <2>1, <2>2
  <1>6. N \in Nat
    BY <1>1
  <1>7. g \in Seq(M) /\ Len(g) = N
    BY <1>5, <1>6, Listed
  <1> QED BY <1>1, <1>3, <1>7 DEF g, P

\* What the kernel takes of a buffer is the beginning of it, and all of it if
\* send buffers do not fill.
LEMMA SentIs ==
    ASSUME NEW E, NEW b \in Seq(E), NEW sent \in WholeParts(b)
    PROVE  /\ sent \in Seq(E) /\ Len(sent) \in 0 .. Len(b)
           /\ \A k \in 1 .. Len(sent) : sent[k] = b[k]
           /\ ~load.send_may_fail => sent = b
  <1>1. CASE load.send_may_fail
    <2>1. PICK n \in 0 .. Len(b) : sent = SubSeq(b, 1, n)
      BY <1>1 DEF WholeParts
    <2> QED BY <1>1, <2>1
  <1>2. CASE ~load.send_may_fail
    BY <1>2 DEF WholeParts
  <1> QED BY <1>1, <1>2

\* A socket is that of a client.
LEMMA SocketIs ==
    ASSUME NEW s \in Sockets
    PROVE  /\ s[1] \in Clients /\ s[2] \in 1 .. MaxRestarts + 1 /\ s = <<s[1], s[2]>>
           /\ s # NoSocket
  <1>1. s[1] \in Clients /\ s[2] \in 1 .. MaxRestarts + 1 /\ s = <<s[1], s[2]>>
    BY DEF Sockets
  <1>2. <<s[1], s[2]>> # <<>>
    <2>1. 1 \in DOMAIN <<s[1], s[2]>> /\ 1 \notin DOMAIN <<>>
      OBVIOUS
    <2> QED BY <2>1
  <1> QED BY <1>1, <1>2 DEF NoSocket

\* The requests of a read that the order server accepts.
LEMMA AcceptedIs ==
    ASSUME Shape, NEW s \in Sockets
    PROVE  /\ WholeAccepted(s) \in Seq(RequestMsg)
           /\ Len(WholeAccepted(s)) \in 0 .. Len(server_rx[s])
           /\ \A i \in 1 .. Len(WholeAccepted(s)) : \E k \in 1 .. Len(server_rx[s]) :
                  /\ WholeAccepted(s)[i] = server_rx[s][k].msg
                  /\ server_rx[s][k].msg.seq_num_ = cid_next_exp_seq_num_[s[1]] + i - 1
           /\ Len(WholeAccepted(s)) # 0 => cid_tcp_socket_[s[1]] \in {NoSocket, s}
  <1> DEFINE q == server_rx[s]
             msgs == [k \in 1 .. Len(q) |-> q[k].msg]
             exp == cid_next_exp_seq_num_[s[1]]
  <1>1. s[1] \in Clients
    BY SocketIs
  <1>2. q \in Seq(Packet) /\ exp \in Nat
    BY <1>1 DEF Shape
  <1>3. msgs \in [1 .. Len(q) -> RequestMsg] /\ Len(q) \in Nat
    <2>1. \A k \in 1 .. Len(q) : q[k] \in Packet
      BY <1>2
    <2>2. \A k \in 1 .. Len(q) : q[k].msg \in RequestMsg
      BY <2>1 DEF Packet
    <2> QED BY <2>2, <1>2
  <1>4. msgs \in Seq(RequestMsg) /\ Len(msgs) = Len(q)
    BY <1>3, Listed
  <1>5. \A k \in 1 .. Len(q) : msgs[k] = q[k].msg
    OBVIOUS
  <1>6. CASE cid_tcp_socket_[s[1]] \in {NoSocket, s}
    <2>1. WholeAccepted(s) = Consecutive(msgs, exp)
      BY <1>6 DEF WholeAccepted, Arrived
    <2> HIDE DEF msgs, exp, q
    <2>2. \A k \in 1 .. Len(msgs) : msgs[k].seq_num_ \in Nat
      BY <1>3, <1>4 DEF RequestMsg
    <2>3. /\ WholeAccepted(s) \in Seq(RequestMsg)
          /\ Len(WholeAccepted(s)) \in 0 .. Len(msgs)
          /\ \A i \in 1 .. Len(WholeAccepted(s)) : \E k \in 1 .. Len(msgs) :
                 WholeAccepted(s)[i] = msgs[k] /\ msgs[k].seq_num_ = exp + i - 1
      BY <2>1, <2>2, <1>2, <1>4, ConsecutiveIs
    <2>4. \A i \in 1 .. Len(WholeAccepted(s)) : \E k \in 1 .. Len(q) :
              WholeAccepted(s)[i] = q[k].msg /\ q[k].msg.seq_num_ = exp + i - 1
      BY <2>3, <1>4, <1>5
    <2>5. Len(WholeAccepted(s)) \in 0 .. Len(q)
      BY <2>3, <1>4
    <2> QED BY <2>3, <2>4, <2>5, <1>6 DEF q, exp
  <1>7. CASE cid_tcp_socket_[s[1]] \notin {NoSocket, s}
    <2>1. WholeAccepted(s) = <<>>
      BY <1>7 DEF WholeAccepted
    <2> QED BY <2>1, <1>3
  <1> QED BY <1>6, <1>7

-----------------------------------------------------------------------------
(* Every piece of state keeps its shape.                                   *)

\* The first state has the shape.
LEMMA InitShape == Init => Shape
  <1> SUFFICES ASSUME Init PROVE Shape
    OBVIOUS
  <1>1. MaxRestarts + 1 \in Nat
    BY GatewayAssumption
  <1>2. \A E : <<>> \in Seq(E)
    OBVIOUS
  <1>3. /\ client_outbound \in [Clients -> Seq(RequestMsg)]
        /\ answers \in [Clients -> Seq(Nat)]
        /\ server_rx \in [Sockets -> Seq(Packet)]
        /\ client_rx \in [Sockets -> Seq(ResponseMsg)]
        /\ server_outbound \in [Sockets -> Seq(ResponseMsg)]
    BY <1>2 DEF Init
  <1>4. /\ backlog \in Seq(Sockets) /\ receive_sockets_ \in Seq(Sockets)
        /\ pending_client_requests_ \in Seq(PendingRequest)
        /\ incoming_requests_ \in Seq(Item) /\ outgoing_responses_ \in Seq(Item)
        /\ sequenced \in Seq(Item) /\ responded \in Seq(Item)
    BY <1>2 DEF Init
  <1>5. /\ load \in Loads
        /\ conn \in [Clients -> 0 .. MaxRestarts + 1]
        /\ requested \in [Clients -> Nat]
        /\ next_outgoing_seq_num_ \in [Clients -> Nat]
        /\ next_exp_seq_num_ \in [Clients -> Nat]
        /\ clock \in Nat /\ at \in Nat \ {0}
        /\ cid_tcp_socket_ \in [Clients -> Sockets \cup {NoSocket}]
        /\ cid_next_exp_seq_num_ \in [Clients -> Nat]
        /\ cid_next_outgoing_seq_num_ \in [Clients -> Nat]
    BY <1>1 DEF Init
  <1>6. /\ misnumbered \in BOOLEAN /\ recv \in BOOLEAN
        /\ spc \in {"poll", "recv", "respond", "exit"}
    BY DEF Init
  <1> QED BY <1>3, <1>4, <1>5, <1>6 DEF Shape

\* The requests of the good messages, as they are put in the pending list.
Stamped(c, t, msgs) ==
    [k \in 1 .. Len(msgs) |-> [recv_time_ |-> t, request_ |-> <<c, msgs[k].n>>]]

\* What AddClientRequest adds.
LEMMA StampedIs ==
    ASSUME NEW c \in Clients, NEW t, NEW msgs \in Seq(RequestMsg),
           Len(msgs) # 0 => t \in Nat
    PROVE  /\ Stamped(c, t, msgs) \in Seq(PendingRequest)
           /\ Len(Stamped(c, t, msgs)) = Len(msgs)
           /\ \A k \in 1 .. Len(msgs) :
                  /\ Stamped(c, t, msgs)[k].recv_time_ = t
                  /\ Stamped(c, t, msgs)[k].request_ = <<c, msgs[k].n>>
  <1> DEFINE f == Stamped(c, t, msgs)
  <1>1. Len(msgs) \in Nat
    OBVIOUS
  <1>2. f \in [1 .. Len(msgs) -> PendingRequest]
    <2>1. ASSUME NEW k \in 1 .. Len(msgs)
          PROVE  [recv_time_ |-> t, request_ |-> <<c, msgs[k].n>>] \in PendingRequest
      <3>1. msgs[k] \in RequestMsg /\ Len(msgs) # 0
        OBVIOUS
      <3>2. t \in Nat /\ msgs[k].n \in Nat
        BY <3>1 DEF RequestMsg
      <3> QED BY <3>2 DEF PendingRequest, Item
    <2> QED BY <2>1 DEF Stamped
  <1>3. \A k \in 1 .. Len(msgs) :
            f[k].recv_time_ = t /\ f[k].request_ = <<c, msgs[k].n>>
    BY DEF Stamped
  <1> HIDE DEF f
  <1>4. f \in Seq(PendingRequest) /\ Len(f) = Len(msgs)
    BY <1>1, <1>2, Listed
  <1> QED BY <1>3, <1>4 DEF f

\* What the kernel adds to the buffer of a connection.
Arriving(t, sent) == [k \in 1 .. Len(sent) |-> [msg |-> sent[k], time |-> t + k]]

\* The messages sent, each with its own time.
LEMMA ArrivingIs ==
    ASSUME NEW t \in Nat, NEW sent \in Seq(RequestMsg)
    PROVE  /\ Arriving(t, sent) \in Seq(Packet) /\ Len(Arriving(t, sent)) = Len(sent)
           /\ \A k \in 1 .. Len(sent) :
                  Arriving(t, sent)[k].msg = sent[k] /\ Arriving(t, sent)[k].time = t + k
  <1> DEFINE f == Arriving(t, sent)
  <1>1. Len(sent) \in Nat
    OBVIOUS
  <1>2. f \in [1 .. Len(sent) -> Packet]
    BY DEF Arriving, Packet
  <1>3. \A k \in 1 .. Len(sent) : f[k].msg = sent[k] /\ f[k].time = t + k
    BY DEF Arriving
  <1> HIDE DEF f
  <1>4. f \in Seq(Packet) /\ Len(f) = Len(sent)
    BY <1>1, <1>2, Listed
  <1> QED BY <1>3, <1>4 DEF f

\* What load promises.
LEMMA LoadIs ==
    ASSUME Shape
    PROVE  /\ load.requests \in [Clients -> Nat] /\ load.restarts \in 0 .. MaxRestarts
           /\ load.fills \in Nat /\ load.max_pending \in Nat
           /\ load.send_may_fail \in BOOLEAN
  <1>1. load \in Load /\ MaxRequests \in Nat
    BY GatewayAssumption DEF Shape
  <1>2. load.requests \in [Clients -> 0 .. MaxRequests]
    BY <1>1 DEF Load
  <1> QED BY <1>1, <1>2 DEF Load

\* The client's actions keep the shape of the state.
LEMMA ShapeOfClient ==
    ASSUME Shape, NEW c \in Clients, Start(c) \/ SendRequest(c) \/ WholeClientSendAndRecv(c)
    PROVE  Shape'
  <1>1. CASE Start(c)
    <2>1. load.restarts \in 0 .. MaxRestarts /\ MaxRestarts \in Nat
      BY LoadIs, GatewayAssumption
    <2>2. conn[c] \in 0 .. MaxRestarts + 1 /\ conn[c] <= load.restarts
      BY <1>1 DEF Start, Shape
    <2>3. conn[c] + 1 \in 1 .. MaxRestarts + 1
      BY <2>1, <2>2
    <2>4. <<c, conn[c] + 1>> \in Sockets
      BY <2>3 DEF Sockets
    <2>5. backlog' \in Seq(Sockets) /\ conn' \in [Clients -> 0 .. MaxRestarts + 1]
      <3>1. /\ backlog \in Seq(Sockets) /\ conn \in [Clients -> 0 .. MaxRestarts + 1]
            /\ backlog' = Append(backlog, <<c, conn[c] + 1>>)
            /\ conn' = [conn EXCEPT ![c] = @ + 1]
        BY <1>1 DEF Start, Shape
      <3>2. backlog' \in Seq(Sockets)
        BY <3>1, <2>4
      <3> QED BY <3>1, <3>2, <2>1, <2>3
    <2>6. /\ next_outgoing_seq_num_' \in [Clients -> Nat]
          /\ next_exp_seq_num_' \in [Clients -> Nat]
          /\ client_outbound' \in [Clients -> Seq(RequestMsg)]
      <3>1. /\ next_outgoing_seq_num_ \in [Clients -> Nat]
            /\ next_exp_seq_num_ \in [Clients -> Nat]
            /\ client_outbound \in [Clients -> Seq(RequestMsg)]
        BY DEF Shape
      <3>2. /\ next_outgoing_seq_num_' = [next_outgoing_seq_num_ EXCEPT ![c] = 1]
            /\ next_exp_seq_num_' = [next_exp_seq_num_ EXCEPT ![c] = 1]
            /\ client_outbound' = [client_outbound EXCEPT ![c] = <<>>]
        BY <1>1 DEF Start
      <3>3. <<>> \in Seq(RequestMsg)
        OBVIOUS
      <3> QED BY ONLY <3>1, <3>2, <3>3
    <2> QED BY <1>1, <2>5, <2>6 DEF Start, Shape, kernelVars, engineVars
  <1>2. CASE SendRequest(c)
    <2> DEFINE m == [client_id_ |-> c, seq_num_ |-> next_outgoing_seq_num_[c],
                     n |-> requested[c] + 1]
    <2>1. m \in RequestMsg
      BY DEF Shape, RequestMsg
    <2>2. client_outbound' = [client_outbound EXCEPT ![c] = Append(@, m)]
      BY <1>2 DEF SendRequest
    <2> HIDE DEF m
    <2>3. client_outbound' \in [Clients -> Seq(RequestMsg)]
      BY <2>1, <2>2 DEF Shape
    <2>4. requested' \in [Clients -> Nat] /\ next_outgoing_seq_num_' \in [Clients -> Nat]
      <3>1. /\ requested \in [Clients -> Nat] /\ next_outgoing_seq_num_ \in [Clients -> Nat]
            /\ requested' = [requested EXCEPT ![c] = @ + 1]
            /\ next_outgoing_seq_num_' = [next_outgoing_seq_num_ EXCEPT ![c] = @ + 1]
        BY <1>2 DEF SendRequest, Shape
      <3> QED BY <3>1
    <2> QED BY <1>2, <2>3, <2>4 DEF SendRequest, Shape, kernelVars, serverVars, engineVars
  <1>3. CASE WholeClientSendAndRecv(c)
    <2> DEFINE s == <<c, conn[c]>>
               good == Consecutive(client_rx[s], next_exp_seq_num_[c])
               ns == [k \in 1 .. Len(good) |-> good[k].n]
    <2>1. s \in Sockets
      <3>1. conn[c] > 0 /\ conn[c] \in 0 .. MaxRestarts + 1 /\ MaxRestarts \in Nat
        BY <1>3, GatewayAssumption DEF WholeClientSendAndRecv, Shape
      <3>2. conn[c] \in 1 .. MaxRestarts + 1
        BY <3>1
      <3> QED BY <3>2 DEF Sockets
    <2>2. client_rx[s] \in Seq(ResponseMsg) /\ next_exp_seq_num_[c] \in Nat
      BY <2>1 DEF Shape
    <2>3. \A k \in 1 .. Len(client_rx[s]) : client_rx[s][k].seq_num_ \in Nat
      <3>1. \A k \in 1 .. Len(client_rx[s]) : client_rx[s][k] \in ResponseMsg
        BY <2>2
      <3> QED BY <3>1 DEF ResponseMsg
    <2>4. good \in Seq(ResponseMsg) /\ Len(good) \in Nat
      BY <2>2, <2>3, ConsecutiveIs
    <2>5. /\ client_rx' = [client_rx EXCEPT ![s] = <<>>]
          /\ answers' = [answers EXCEPT ![c] = @ \o ns]
          /\ misnumbered' = (misnumbered \/ Len(good) < Len(client_rx[s]))
          /\ next_exp_seq_num_' = [next_exp_seq_num_ EXCEPT ![c] = @ + Len(good)]
          /\ client_outbound' = [client_outbound EXCEPT ![c] = <<>>]
      BY <1>3 DEF WholeClientSendAndRecv
    <2>6. PICK sent \in WholeParts(client_outbound[c]) :
              /\ clock' = clock + Len(sent)
              /\ server_rx' = [server_rx EXCEPT ![s] = @ \o Arriving(clock, sent)]
      BY <1>3 DEF WholeClientSendAndRecv, Arriving
    <2> HIDE DEF good, s
    <2>7. ns \in Seq(Nat)
      <3>1. \A k \in 1 .. Len(good) : good[k] \in ResponseMsg
        BY <2>4
      <3>2. \A k \in 1 .. Len(good) : good[k].n \in Nat
        BY <3>1 DEF ResponseMsg
      <3>3. ns \in [1 .. Len(good) -> Nat]
        BY <3>2
      <3> QED BY <3>3, <2>4, Listed
    <2> HIDE DEF ns
    <2>8. sent \in Seq(RequestMsg) /\ Len(sent) \in Nat /\ clock \in Nat
      <3>1. client_outbound[c] \in Seq(RequestMsg)
        BY DEF Shape
      <3> QED BY <3>1, <2>6, SentIs DEF Shape
    <2>9. Arriving(clock, sent) \in Seq(Packet)
      BY <2>8, ArrivingIs
    <2>t. /\ client_rx \in [Sockets -> Seq(ResponseMsg)]
          /\ answers \in [Clients -> Seq(Nat)]
          /\ next_exp_seq_num_ \in [Clients -> Nat]
          /\ client_outbound \in [Clients -> Seq(RequestMsg)]
          /\ server_rx \in [Sockets -> Seq(Packet)]
      BY DEF Shape
    <2>10. /\ client_rx' \in [Sockets -> Seq(ResponseMsg)]
           /\ next_exp_seq_num_' \in [Clients -> Nat]
           /\ client_outbound' \in [Clients -> Seq(RequestMsg)]
      BY <2>t, <2>1, <2>4, <2>5
    <2>13. answers' \in [Clients -> Seq(Nat)]
      <3>1. answers[c] \o ns \in Seq(Nat)
        BY <2>t, <2>7, Joined
      <3> QED BY <3>1, <2>t, <2>5
    <2>11. clock' \in Nat /\ server_rx' \in [Sockets -> Seq(Packet)]
      <3>1. server_rx[s] \o Arriving(clock, sent) \in Seq(Packet)
        BY <2>t, <2>1, <2>9, Joined
      <3>2. server_rx' = [server_rx EXCEPT ![s] = server_rx[s] \o Arriving(clock, sent)]
        BY <2>6
      <3>3. server_rx' \in [Sockets -> Seq(Packet)]
        BY <3>1, <3>2, <2>t
      <3>4. clock' \in Nat
        BY <2>6, <2>8
      <3> QED BY <3>3, <3>4
    <2>12. misnumbered' \in BOOLEAN
      BY <2>5
    <2> QED BY <1>3, <2>10, <2>11, <2>12, <2>13
            DEF WholeClientSendAndRecv, Shape, serverVars, engineVars
  <1> QED BY <1>1, <1>2, <1>3

\* What a round trip on socket s does.
LEMMA ServerRound ==
    ASSUME Shape, WholeServerSendAndRecv
    PROVE  \E s \in Sockets :
           /\ server_rx' = [server_rx EXCEPT ![s] = <<>>]
           /\ recv' = (recv \/ server_rx[s] # <<>>)
           /\ cid_tcp_socket_' = [cid_tcp_socket_ EXCEPT ![s[1]] =
                  IF server_rx[s] # <<>> /\ @ = NoSocket THEN s ELSE @]
           /\ cid_next_exp_seq_num_' =
                  [cid_next_exp_seq_num_ EXCEPT ![s[1]] = @ + Len(WholeAccepted(s))]
           /\ pending_client_requests_' = pending_client_requests_ \o
                  Stamped(s[1], RxTime(server_rx[s]), WholeAccepted(s))
           /\ \E sent \in WholeParts(server_outbound[s]) :
                  client_rx' = [client_rx EXCEPT ![s] = @ \o sent]
           /\ server_outbound' = [server_outbound EXCEPT ![s] = <<>>]
           /\ Len(WholeAccepted(s)) # 0 => RxTime(server_rx[s]) \in Nat
  <1> DEFINE s == receive_sockets_[at]
  <1>1. s \in Sockets
    <2>1. receive_sockets_ \in Seq(Sockets) /\ at \in Nat \ {0} /\ at <= Len(receive_sockets_)
      BY DEF Shape, WholeServerSendAndRecv
    <2> QED BY <2>1
  <1>2. Len(WholeAccepted(s)) # 0 => RxTime(server_rx[s]) \in Nat
    <2>1. Len(WholeAccepted(s)) \in 0 .. Len(server_rx[s]) /\ server_rx[s] \in Seq(Packet)
      BY <1>1, AcceptedIs DEF Shape
    <2>2. Len(WholeAccepted(s)) # 0 => server_rx[s][Len(server_rx[s])] \in Packet
      BY <2>1
    <2> QED BY <2>2 DEF Packet, RxTime
  <1>3. /\ server_rx' = [server_rx EXCEPT ![s] = <<>>]
        /\ recv' = (recv \/ server_rx[s] # <<>>)
        /\ cid_tcp_socket_' = [cid_tcp_socket_ EXCEPT ![s[1]] =
               IF server_rx[s] # <<>> /\ @ = NoSocket THEN s ELSE @]
        /\ cid_next_exp_seq_num_' =
               [cid_next_exp_seq_num_ EXCEPT ![s[1]] = @ + Len(WholeAccepted(s))]
        /\ \E sent \in WholeParts(server_outbound[s]) :
               client_rx' = [client_rx EXCEPT ![s] = @ \o sent]
        /\ server_outbound' = [server_outbound EXCEPT ![s] = <<>>]
    BY DEF WholeServerSendAndRecv
  <1>4. pending_client_requests_' = pending_client_requests_ \o
                  Stamped(s[1], RxTime(server_rx[s]), WholeAccepted(s))
    BY DEF WholeServerSendAndRecv, AddWholeRequests, Stamped
  <1> HIDE DEF s
  <1> QED BY <1>1, <1>2, <1>3, <1>4

\* A round trip on a socket keeps the shape of the state.
LEMMA ShapeOfRound ==
    ASSUME Shape, WholeServerSendAndRecv PROVE Shape'
  <1>1. PICK s \in Sockets :
           /\ server_rx' = [server_rx EXCEPT ![s] = <<>>]
           /\ recv' = (recv \/ server_rx[s] # <<>>)
           /\ cid_tcp_socket_' = [cid_tcp_socket_ EXCEPT ![s[1]] =
                  IF server_rx[s] # <<>> /\ @ = NoSocket THEN s ELSE @]
           /\ cid_next_exp_seq_num_' =
                  [cid_next_exp_seq_num_ EXCEPT ![s[1]] = @ + Len(WholeAccepted(s))]
           /\ pending_client_requests_' = pending_client_requests_ \o
                  Stamped(s[1], RxTime(server_rx[s]), WholeAccepted(s))
           /\ \E sent \in WholeParts(server_outbound[s]) :
                  client_rx' = [client_rx EXCEPT ![s] = @ \o sent]
           /\ server_outbound' = [server_outbound EXCEPT ![s] = <<>>]
           /\ Len(WholeAccepted(s)) # 0 => RxTime(server_rx[s]) \in Nat
    BY ServerRound
  <1>2. PICK sent \in WholeParts(server_outbound[s]) :
           client_rx' = [client_rx EXCEPT ![s] = client_rx[s] \o sent]
    BY <1>1
  <1>t. /\ server_rx \in [Sockets -> Seq(Packet)]
        /\ client_rx \in [Sockets -> Seq(ResponseMsg)]
        /\ server_outbound \in [Sockets -> Seq(ResponseMsg)]
        /\ cid_tcp_socket_ \in [Clients -> Sockets \cup {NoSocket}]
        /\ cid_next_exp_seq_num_ \in [Clients -> Nat]
        /\ pending_client_requests_ \in Seq(PendingRequest)
        /\ at \in Nat \ {0} /\ at' = at + 1 /\ recv \in BOOLEAN
    BY DEF Shape, WholeServerSendAndRecv
  <1>3. s[1] \in Clients /\ WholeAccepted(s) \in Seq(RequestMsg) /\ Len(WholeAccepted(s)) \in Nat
    BY SocketIs, AcceptedIs
  <1>4. server_rx' \in [Sockets -> Seq(Packet)]
    BY <1>t, <1>1
  <1>5. server_outbound' \in [Sockets -> Seq(ResponseMsg)]
    BY <1>t, <1>1
  <1>6. client_rx' \in [Sockets -> Seq(ResponseMsg)]
    <2>1. client_rx[s] \o sent \in Seq(ResponseMsg)
      <3>1. sent \in Seq(ResponseMsg)
        BY <1>t, <1>2, SentIs
      <3> QED BY <3>1, <1>t, Joined
    <2> QED BY <2>1, <1>t, <1>2
  <1>7. cid_tcp_socket_' \in [Clients -> Sockets \cup {NoSocket}]
    BY <1>t, <1>1
  <1>8. cid_next_exp_seq_num_' \in [Clients -> Nat]
    BY <1>t, <1>1, <1>3
  <1>9. pending_client_requests_' \in Seq(PendingRequest)
    <2>1. Stamped(s[1], RxTime(server_rx[s]), WholeAccepted(s)) \in Seq(PendingRequest)
      BY <1>1, <1>3, StampedIs
    <2> QED BY <2>1, <1>t, <1>1, Joined
  <1>10. at' \in Nat \ {0}
    BY <1>t
  <1>11. recv' \in BOOLEAN
    BY <1>1
  <1> QED BY <1>4, <1>5, <1>6, <1>7, <1>8, <1>9, <1>10, <1>11
          DEF WholeServerSendAndRecv, Shape, clientVars, engineVars

\* The batch that SequenceAndPublish publishes.
Batch(q, p) == [k \in 1 .. Len(q) |-> q[p[k]].request_]

\* It has the pending requests in the order of the permutation.
LEMMA BatchIs ==
    ASSUME NEW q \in Seq(PendingRequest), NEW p \in [1 .. Len(q) -> 1 .. Len(q)]
    PROVE  /\ Batch(q, p) \in Seq(Item) /\ Len(Batch(q, p)) = Len(q)
           /\ \A k \in 1 .. Len(q) : p[k] \in 1 .. Len(q) /\ Batch(q, p)[k] = q[p[k]].request_
  <1> DEFINE f == Batch(q, p)
  <1>1. Len(q) \in Nat
    OBVIOUS
  <1>2. \A k \in 1 .. Len(q) : p[k] \in 1 .. Len(q) /\ f[k] = q[p[k]].request_
    BY DEF Batch
  <1>3. \A k \in 1 .. Len(q) : q[k] \in PendingRequest
    OBVIOUS
  <1>4. \A k \in 1 .. Len(q) : q[p[k]].request_ \in Item
    BY <1>2, <1>3 DEF PendingRequest
  <1>5. f \in [1 .. Len(q) -> Item]
    BY <1>4 DEF Batch
  <1> HIDE DEF f
  <1>6. f \in Seq(Item) /\ Len(f) = Len(q)
    BY <1>1, <1>5, Listed
  <1> QED BY <1>2, <1>6 DEF f

\* What the sequencer publishes.
LEMMA Published ==
    ASSUME Shape, SequenceAndPublish
    PROVE  \E p \in Sortings(pending_client_requests_) :
               /\ p \in [1 .. Len(pending_client_requests_) ->
                             1 .. Len(pending_client_requests_)]
               /\ incoming_requests_' = incoming_requests_ \o Batch(pending_client_requests_, p)
               /\ sequenced' = sequenced \o Batch(pending_client_requests_, p)
  BY DEF SequenceAndPublish, Batch, Sortings

\* The order server's other actions keep the shape of the state.
LEMMA ShapeOfServer ==
    ASSUME Shape, WholeServer PROVE Shape'
  <1>1. CASE Poll
    <2>1. receive_sockets_' \in Seq(Sockets) /\ backlog' \in Seq(Sockets)
      <3>1. /\ receive_sockets_ \in Seq(Sockets) /\ backlog \in Seq(Sockets)
            /\ receive_sockets_' = receive_sockets_ \o backlog /\ backlog' = <<>>
        BY <1>1 DEF Poll, Shape
      <3> QED BY <3>1, Joined
    <2>2. spc' \in {"poll", "recv", "respond", "exit"} /\ at' \in Nat \ {0}
      BY <1>1 DEF Poll
    <2>3. recv' \in BOOLEAN
      BY <1>1 DEF Poll
    <2> QED BY <1>1, <2>1, <2>2, <2>3 DEF Poll, Shape, clientVars, kernelVars, engineVars
  <1>2. CASE WholeServerSendAndRecv
    BY <1>2, ShapeOfRound
  <1>3. CASE WholeTooManyPending
    BY <1>3 DEF WholeTooManyPending, Shape, clientVars, kernelVars, engineVars
  <1>4. CASE SequenceAndPublish
    <2>1. PICK p \in [1 .. Len(pending_client_requests_) ->
                          1 .. Len(pending_client_requests_)] :
              /\ incoming_requests_' = incoming_requests_ \o Batch(pending_client_requests_, p)
              /\ sequenced' = sequenced \o Batch(pending_client_requests_, p)
      BY <1>4, Published
    <2>2. /\ incoming_requests_ \in Seq(Item) /\ sequenced \in Seq(Item)
          /\ pending_client_requests_ \in Seq(PendingRequest)
      BY DEF Shape
    <2>3. Batch(pending_client_requests_, p) \in Seq(Item)
      BY <2>2, BatchIs
    <2>4. incoming_requests_' \in Seq(Item) /\ sequenced' \in Seq(Item)
      BY <2>1, <2>2, <2>3, Joined
    <2>5. pending_client_requests_' \in Seq(PendingRequest)
      BY <1>4 DEF SequenceAndPublish
    <2> QED BY <1>4, <2>4, <2>5 DEF SequenceAndPublish, Shape, clientVars, kernelVars
  <1>5. CASE NothingReceived
    BY <1>5 DEF NothingReceived, Shape, clientVars, kernelVars, engineVars
  <1>6. CASE SendResponse
    <2> DEFINE c == Head(outgoing_responses_)[1]
               s == cid_tcp_socket_[c]
               m == [seq_num_ |-> cid_next_outgoing_seq_num_[c], client_id_ |-> c,
                     n |-> Head(outgoing_responses_)[2]]
    <2>1. outgoing_responses_ \in Seq(Item) /\ outgoing_responses_ # <<>>
      BY <1>6 DEF SendResponse, Shape
    <2>2. /\ Head(outgoing_responses_) \in Item
          /\ Tail(outgoing_responses_) \in Seq(Item)
      BY <2>1
    <2>3. c \in Clients /\ Head(outgoing_responses_)[2] \in Nat
      BY <2>2 DEF Item
    <2>4. m \in ResponseMsg
      BY <2>3 DEF Shape, ResponseMsg
    <2>5. /\ server_outbound' = [server_outbound EXCEPT ![s] = Append(@, m)]
          /\ cid_next_outgoing_seq_num_' = [cid_next_outgoing_seq_num_ EXCEPT ![c] = @ + 1]
          /\ outgoing_responses_' = Tail(outgoing_responses_)
      BY <1>6 DEF SendResponse
    <2> HIDE DEF c, s, m
    <2>6. /\ server_outbound \in [Sockets -> Seq(ResponseMsg)]
          /\ cid_next_outgoing_seq_num_ \in [Clients -> Nat]
      BY DEF Shape
    <2>7. server_outbound' \in [Sockets -> Seq(ResponseMsg)]
      <3>1. \A q \in Seq(ResponseMsg) : Append(q, m) \in Seq(ResponseMsg)
        BY <2>4
      <3>2. server_outbound' = [server_outbound EXCEPT ![s] = Append(server_outbound[s], m)]
        BY <2>5
      <3>3. s \in Sockets => Append(server_outbound[s], m) \in Seq(ResponseMsg)
        BY <3>1, <2>6
      <3> QED BY <3>2, <3>3, <2>6
    <2>8. cid_next_outgoing_seq_num_' \in [Clients -> Nat]
      BY <2>3, <2>5, <2>6
    <2>9. outgoing_responses_' \in Seq(Item)
      BY <2>2, <2>5
    <2> QED BY <1>6, <2>7, <2>8, <2>9 DEF SendResponse, Shape, clientVars, kernelVars
  <1>7. CASE NextRound
    BY <1>7 DEF NextRound, Shape, clientVars, kernelVars, engineVars
  <1> QED BY <1>1, <1>2, <1>3, <1>4, <1>5, <1>6, <1>7 DEF WholeServer

\* What a step of the engine does: the first request is answered, and perhaps
\* a fill reported.
LEMMA EngineAnswers ==
    ASSUME Shape, EngineStep
    PROVE  /\ incoming_requests_ \in Seq(Item) /\ incoming_requests_ # <<>>
           /\ Head(incoming_requests_) \in Item
           /\ incoming_requests_' = Tail(incoming_requests_)
           /\ \E fill \in Seq(Item) :
                  /\ outgoing_responses_' =
                         outgoing_responses_ \o (<<Head(incoming_requests_)>> \o fill)
                  /\ responded' = responded \o (<<Head(incoming_requests_)>> \o fill)
                  /\ \/ fill = <<>>
                     \/ /\ Cardinality({k \in 1 .. Len(responded) : responded[k][2] = 0})
                               < load.fills
                        /\ \E j \in 1 .. Len(responded) : fill = << <<responded[j][1], 0>> >>
  <1>1. incoming_requests_ \in Seq(Item) /\ incoming_requests_ # <<>>
    BY DEF Shape, EngineStep
  <1>2. Head(incoming_requests_) \in Item /\ incoming_requests_' = Tail(incoming_requests_)
    BY <1>1 DEF EngineStep
  <1> DEFINE known == {responded[k][1] : k \in 1 .. Len(responded)}
             filled == Cardinality({k \in 1 .. Len(responded) : responded[k][2] = 0})
             h == Head(incoming_requests_)
  <1>3. PICK fill \in {<<>>} \cup
                      (IF filled < load.fills THEN {<< <<c, 0>> >> : c \in known} ELSE {}) :
            /\ outgoing_responses_' = outgoing_responses_ \o (<<h>> \o fill)
            /\ responded' = responded \o (<<h>> \o fill)
    BY DEF EngineStep
  <1>4. \/ fill = <<>>
        \/ filled < load.fills /\ \E j \in 1 .. Len(responded) : fill = << <<responded[j][1], 0>> >>
    BY <1>3
  <1>5. responded \in Seq(Item) /\ outgoing_responses_ \in Seq(Item)
    BY DEF Shape
  <1>6. fill \in Seq(Item)
    <2>1. ASSUME NEW j \in 1 .. Len(responded) PROVE << <<responded[j][1], 0>> >> \in Seq(Item)
      <3>1. responded[j] \in Item
        BY <1>5
      <3>2. <<responded[j][1], 0>> \in Item
        BY <3>1 DEF Item
      <3> QED BY <3>2
    <2>2. <<>> \in Seq(Item)
      OBVIOUS
    <2> QED BY <2>1, <2>2, <1>4
  <1> HIDE DEF h, filled, known
  <1> QED BY <1>1, <1>2, <1>3, <1>4, <1>6 DEF h, filled

\* Every step keeps the shape of the state.
LEMMA ShapeKept ==
    ASSUME Shape, [WholeNext]_vars PROVE Shape'
  <1>1. CASE \E c \in Clients : Start(c) \/ SendRequest(c) \/ WholeClientSendAndRecv(c)
    BY <1>1, ShapeOfClient
  <1>2. CASE WholeServer
    BY <1>2, ShapeOfServer
  <1>3. CASE EngineStep
    <2>1. PICK fill \in Seq(Item) :
              /\ outgoing_responses_' =
                     outgoing_responses_ \o (<<Head(incoming_requests_)>> \o fill)
              /\ responded' = responded \o (<<Head(incoming_requests_)>> \o fill)
      BY <1>3, EngineAnswers
    <2>2. <<Head(incoming_requests_)>> \in Seq(Item) /\ incoming_requests_' \in Seq(Item)
      <3>1. /\ incoming_requests_ \in Seq(Item) /\ incoming_requests_ # <<>>
            /\ Head(incoming_requests_) \in Item
            /\ incoming_requests_' = Tail(incoming_requests_)
        BY <1>3, EngineAnswers
      <3> QED BY <3>1
    <2>3. <<Head(incoming_requests_)>> \o fill \in Seq(Item)
      BY <2>2, Joined
    <2>4. outgoing_responses_' \in Seq(Item) /\ responded' \in Seq(Item)
      <3>1. responded \in Seq(Item) /\ outgoing_responses_ \in Seq(Item)
        BY DEF Shape
      <3> QED BY <3>1, <2>1, <2>3, Joined
    <2> QED BY <1>3, <2>2, <2>4 DEF EngineStep, Shape, clientVars, kernelVars, serverVars
  <1>4. CASE UNCHANGED vars
    BY <1>4 DEF Shape, vars, clientVars, kernelVars, serverVars, engineVars
  <1>5. CASE EngineFatal
    BY <1>5 DEF EngineFatal, Shape, clientVars, kernelVars, engineVars
  <1> QED BY <1>1, <1>2, <1>3, <1>4, <1>5 DEF WholeNext

-----------------------------------------------------------------------------
(* Requests reach the engine in order: the sequences they go through.      *)

\* The fields of the requests a client has not sent.
LEMMA RequestFields ==
    ASSUME NEW o \in Seq(RequestMsg)
    PROVE  /\ Len(o) \in Nat
           /\ \A i \in 1 .. Len(o) : o[i].n \in Nat /\ o[i].seq_num_ \in Nat
  <1>1. Len(o) \in Nat /\ \A i \in 1 .. Len(o) : o[i] \in RequestMsg
    OBVIOUS
  <1> QED BY <1>1 DEF RequestMsg

\* The fields of what has arrived.
LEMMA PacketFields ==
    ASSUME NEW q \in Seq(Packet)
    PROVE  /\ Len(q) \in Nat
           /\ \A i \in 1 .. Len(q) :
                  q[i].msg.n \in Nat /\ q[i].msg.seq_num_ \in Nat /\ q[i].time \in Nat
  <1>1. Len(q) \in Nat /\ \A i \in 1 .. Len(q) : q[i] \in Packet
    OBVIOUS
  <1>2. \A i \in 1 .. Len(q) : q[i].msg \in RequestMsg /\ q[i].time \in Nat
    BY <1>1 DEF Packet
  <1> QED BY <1>1, <1>2 DEF RequestMsg

\* The fields of what the engine sees.
LEMMA ItemFields ==
    ASSUME NEW h \in Seq(Item)
    PROVE  /\ Len(h) \in Nat
           /\ \A i \in 1 .. Len(h) :
                  /\ h[i] \in Item /\ h[i] = <<h[i][1], h[i][2]>>
                  /\ h[i][1] \in Clients /\ h[i][2] \in Nat
  <1>1. Len(h) \in Nat /\ \A i \in 1 .. Len(h) : h[i] \in Item
    OBVIOUS
  <1> QED BY <1>1 DEF Item

\* The fields of pending requests.
LEMMA PendingFields ==
    ASSUME NEW q \in Seq(PendingRequest)
    PROVE  /\ Len(q) \in Nat
           /\ \A i \in 1 .. Len(q) :
                  /\ q[i].recv_time_ \in Nat
                  /\ q[i].request_ = <<q[i].request_[1], q[i].request_[2]>>
                  /\ q[i].request_[1] \in Clients /\ q[i].request_[2] \in Nat
  <1>1. Len(q) \in Nat /\ \A i \in 1 .. Len(q) : q[i] \in PendingRequest
    OBVIOUS
  <1>2. \A i \in 1 .. Len(q) : q[i].request_ \in Item /\ q[i].recv_time_ \in Nat
    BY <1>1 DEF PendingRequest
  <1> QED BY <1>1, <1>2 DEF Item

\* A message the client puts at the end, with the next number.
LEMMA OutMore ==
    ASSUME NEW o \in Seq(RequestMsg), NEW q \in Seq(Packet), NEW m \in RequestMsg,
           NEW next \in Nat, NEW req \in Nat, NEW t \in Nat,
           m.n = req + 1, m.seq_num_ = next, next \in 1 .. req + 1,
           OutOk(o, next, req), RxOk(q, req, t), Later(q, o)
    PROVE  /\ OutOk(Append(o, m), next + 1, req + 1)
           /\ RxOk(q, req + 1, t) /\ Later(q, Append(o, m))
           /\ Higher(q, o, next) => Higher(q, Append(o, m), next + 1)
           /\ \A n \in 1 .. req : BeforeOut(n, o) => BeforeOut(n, Append(o, m))
  <1> DEFINE p == Append(o, m)
  <1>1. /\ Len(p) = Len(o) + 1
        /\ \A k \in 1 .. Len(p) : /\ k \in 1 .. Len(o) => p[k] = o[k]
                                  /\ k \notin 1 .. Len(o) => k = Len(o) + 1 /\ p[k] = m
    BY OneMore
  <1>2. /\ Len(o) \in Nat
        /\ \A i \in 1 .. Len(o) : o[i].n \in Nat /\ o[i].seq_num_ \in Nat
    BY RequestFields
  <1>3. /\ Len(q) \in Nat
        /\ \A i \in 1 .. Len(q) :
               q[i].msg.n \in Nat /\ q[i].msg.seq_num_ \in Nat /\ q[i].time \in Nat
    BY PacketFields
  <1> HIDE DEF p
  <1>4. ASSUME NEW i \in 1 .. Len(p)
        PROVE p[i].seq_num_ \in 1 .. (next + 1) - 1 /\ p[i].n \in p[i].seq_num_ .. req + 1
    <2>1. CASE i \in 1 .. Len(o)
      <3>1. p[i] = o[i] /\ o[i].seq_num_ \in 1 .. next - 1 /\ o[i].n \in o[i].seq_num_ .. req
        BY <2>1, <1>1 DEF OutOk
      <3> QED BY <3>1
    <2>2. CASE i \notin 1 .. Len(o)
      <3>1. p[i] = m
        BY <2>2, <1>1
      <3> QED BY <3>1
    <2> QED BY <2>1, <2>2
  <1>5. ASSUME NEW i \in 1 .. Len(p), NEW j \in 1 .. Len(p), i < j
        PROVE  p[i].n < p[j].n /\ p[i].seq_num_ < p[j].seq_num_
    <2>1. i \in 1 .. Len(o) /\ p[i] = o[i]
      BY <1>1, <1>2, <1>5
    <2>2. CASE j \in 1 .. Len(o)
      BY <1>1, <1>5, <2>1, <2>2 DEF OutOk
    <2>3. CASE j \notin 1 .. Len(o)
      BY <1>1, <1>2, <2>1, <2>3 DEF OutOk
    <2> QED BY <2>2, <2>3
  <1>6. RxOk(q, req + 1, t)
    BY <1>3 DEF RxOk
  <1>7. ASSUME NEW i \in 1 .. Len(q), NEW j \in 1 .. Len(p) PROVE q[i].msg.n < p[j].n
    BY <1>1, <1>3 DEF RxOk, Later
  <1>8. ASSUME Higher(q, o, next), NEW i \in 1 .. Len(q)
        PROVE  /\ q[i].msg.seq_num_ < next + 1
               /\ \A j \in 1 .. Len(p) : q[i].msg.seq_num_ < p[j].seq_num_
    <2>1. q[i].msg.seq_num_ \in Nat /\ q[i].msg.seq_num_ < next
      BY <1>3, <1>8 DEF Higher
    <2>2. ASSUME NEW j \in 1 .. Len(p) PROVE q[i].msg.seq_num_ < p[j].seq_num_
      <3>1. CASE j \in 1 .. Len(o)
        BY <3>1, <1>1, <1>8 DEF Higher
      <3>2. CASE j \notin 1 .. Len(o)
        <4>1. p[j].seq_num_ = next
          BY <3>2, <1>1
        <4> QED BY <2>1, <4>1
      <3> QED BY <3>1, <3>2
    <2> QED BY <2>1, <2>2
  <1>9. ASSUME NEW n \in 1 .. req, BeforeOut(n, o) PROVE BeforeOut(n, p)
    BY <1>1, <1>9 DEF BeforeOut
  <1> QED BY <1>4, <1>5, <1>6, <1>7, <1>8, <1>9 DEF OutOk, Later, Higher, p

\* The beginning of a client's buffer arrives on its connection.
LEMMA RxMore ==
    ASSUME NEW o \in Seq(RequestMsg), NEW q \in Seq(Packet), NEW sent \in Seq(RequestMsg),
           NEW next \in Nat, NEW req \in Nat, NEW t \in Nat,
           Len(sent) \in 0 .. Len(o), \A k \in 1 .. Len(sent) : sent[k] = o[k],
           OutOk(o, next, req), RxOk(q, req, t), Later(q, o), Higher(q, o, next)
    PROVE  /\ RxOk(q \o Arriving(t, sent), req, t + Len(sent))
           /\ Higher(q \o Arriving(t, sent), <<>>, next)
           /\ \A n \in Nat : BeforeRx(n, q) /\ BeforeOut(n, o)
                                 => BeforeRx(n, q \o Arriving(t, sent))
           /\ \A u \in Nat : u <= t /\ (\A k \in 1 .. Len(q) : u <= q[k].time) =>
                  \A k \in 1 .. Len(q \o Arriving(t, sent)) : u <= (q \o Arriving(t, sent))[k].time
  <1> DEFINE a == Arriving(t, sent)
             p == q \o a
             L == Len(q)
  <1>1. /\ a \in Seq(Packet) /\ Len(a) = Len(sent)
        /\ \A k \in 1 .. Len(sent) : a[k].msg = sent[k] /\ a[k].time = t + k
    BY ArrivingIs
  <1> HIDE DEF a
  <1>2. /\ p \in Seq(Packet) /\ Len(p) = L + Len(sent) /\ L \in Nat
        /\ \A k \in 1 .. L : p[k] = q[k]
        /\ \A k \in 1 .. Len(p) : k \notin 1 .. L =>
               k - L \in 1 .. Len(sent) /\ p[k] = a[k - L]
    <2>1. p \in Seq(Packet) /\ IsJoin(p, q, a)
      BY <1>1, Joined
    <2> HIDE DEF p
    <2> QED BY <2>1, <1>1 DEF IsJoin
  <1>3. Len(o) \in Nat /\ \A i \in 1 .. Len(o) : o[i].n \in Nat /\ o[i].seq_num_ \in Nat
    BY RequestFields
  <1>4. \A i \in 1 .. L : q[i].msg.n \in Nat /\ q[i].msg.seq_num_ \in Nat /\ q[i].time \in Nat
    BY PacketFields
  <1> HIDE DEF p, L
  <1>5. ASSUME NEW k \in 1 .. Len(p), k \notin 1 .. L
        PROVE  /\ k - L \in 1 .. Len(o) /\ k - L \in 1 .. Len(sent)
               /\ p[k].msg = o[k - L] /\ p[k].time = t + (k - L)
    <2>1. k - L \in 1 .. Len(sent) /\ p[k] = a[k - L]
      BY <1>2, <1>5
    <2>2. k - L \in 1 .. Len(o)
      BY <2>1, <1>3
    <2> QED BY <2>1, <2>2, <1>1
  <1>6. ASSUME NEW i \in 1 .. Len(p)
        PROVE  /\ p[i].msg.seq_num_ \in 1 .. p[i].msg.n /\ p[i].msg.n \in 1 .. req
               /\ p[i].time <= t + Len(sent) /\ p[i].msg.seq_num_ < next
    <2>1. CASE i \in 1 .. L
      <3>1. /\ p[i] = q[i] /\ q[i].msg.seq_num_ \in 1 .. q[i].msg.n
            /\ q[i].msg.n \in 1 .. req /\ q[i].time <= t /\ q[i].msg.seq_num_ < next
            /\ q[i].time \in Nat
        BY <2>1, <1>2, <1>4 DEF RxOk, Higher, L
      <3>2. Len(sent) \in Nat
        BY <1>3
      <3> QED BY <3>1, <3>2
    <2>2. CASE i \notin 1 .. L
      <3>1. /\ i - L \in 1 .. Len(o) /\ i - L \in 1 .. Len(sent)
            /\ p[i].msg = o[i - L] /\ p[i].time = t + (i - L)
        BY <2>2, <1>5
      <3>2. o[i - L].seq_num_ \in 1 .. next - 1 /\ o[i - L].n \in o[i - L].seq_num_ .. req
        BY <3>1 DEF OutOk
      <3>3. Len(sent) \in Nat
        BY <1>3
      <3> QED BY <3>1, <3>2, <3>3
    <2> QED BY <2>1, <2>2
  <1>7. ASSUME NEW i \in 1 .. Len(p), NEW j \in 1 .. Len(p), i < j
        PROVE  /\ p[i].msg.n < p[j].msg.n /\ p[i].time <= p[j].time
               /\ p[i].msg.seq_num_ < p[j].msg.seq_num_
    <2>1. CASE j \in 1 .. L
      <3>1. i \in 1 .. L
        BY <2>1, <1>2, <1>7
      <3> QED BY <2>1, <3>1, <1>2, <1>7 DEF RxOk, L
    <2>2. CASE j \notin 1 .. L /\ i \in 1 .. L
      <3>1. p[i] = q[i] /\ q[i].time <= t /\ q[i].time \in Nat
        BY <2>2, <1>2, <1>4 DEF RxOk, L
      <3>2. j - L \in 1 .. Len(o) /\ p[j].msg = o[j - L] /\ p[j].time = t + (j - L)
        BY <2>2, <1>5
      <3>3. q[i].msg.n < o[j - L].n /\ q[i].msg.seq_num_ < o[j - L].seq_num_
        BY <2>2, <3>2 DEF Later, Higher, L
      <3> QED BY <3>1, <3>2, <3>3
    <2>3. CASE j \notin 1 .. L /\ i \notin 1 .. L
      <3>1. /\ i - L \in 1 .. Len(o) /\ p[i].msg = o[i - L] /\ p[i].time = t + (i - L)
            /\ j - L \in 1 .. Len(o) /\ p[j].msg = o[j - L] /\ p[j].time = t + (j - L)
        BY <2>3, <1>5
      <3>2. i - L < j - L /\ t + (i - L) <= t + (j - L)
        BY <1>2, <1>7
      <3>3. o[i - L].n < o[j - L].n /\ o[i - L].seq_num_ < o[j - L].seq_num_
        BY <3>1, <3>2 DEF OutOk
      <3> QED BY <3>1, <3>2, <3>3
    <2>4. i \notin 1 .. L => j \notin 1 .. L
      BY <1>2, <1>7
    <2> QED BY <2>1, <2>2, <2>3, <2>4
  <1>8. ASSUME NEW n \in Nat, BeforeRx(n, q), BeforeOut(n, o), NEW i \in 1 .. Len(p)
        PROVE  n < p[i].msg.n
    <2>1. CASE i \in 1 .. L
      BY <2>1, <1>2, <1>8 DEF BeforeRx, L
    <2>2. CASE i \notin 1 .. L
      BY <2>2, <1>5, <1>8 DEF BeforeOut
    <2> QED BY <2>1, <2>2
  <1>9. ASSUME NEW u \in Nat, u <= t, \A k \in 1 .. Len(q) : u <= q[k].time,
               NEW i \in 1 .. Len(p)
        PROVE  u <= p[i].time
    <2>1. CASE i \in 1 .. L
      BY <2>1, <1>2, <1>9 DEF L
    <2>2. CASE i \notin 1 .. L
      <3>1. p[i].time = t + (i - L) /\ i - L \in 1 .. Len(o)
        BY <2>2, <1>5
      <3> QED BY <3>1, <1>3, <1>9
    <2> QED BY <2>1, <2>2
  <1>10. RxOk(p, req, t + Len(sent))
    BY <1>6, <1>7 DEF RxOk
  <1>11. Higher(p, <<>>, next)
    BY <1>6 DEF Higher
  <1>12. \A n \in Nat : BeforeRx(n, q) /\ BeforeOut(n, o) => BeforeRx(n, p)
    BY <1>8 DEF BeforeRx
  <1> QED BY <1>9, <1>10, <1>11, <1>12 DEF p, a

\* Later requests of one client are added to the pending ones.
LEMMA PendingMore ==
    ASSUME NEW q \in Seq(PendingRequest), NEW h \in Seq(Item), NEW c \in Clients, NEW t,
           NEW msgs \in Seq(RequestMsg), Len(msgs) # 0 => t \in Nat,
           Ordered(q), Continues(h, q),
           \A i, j \in 1 .. Len(msgs) : i < j => msgs[i].n < msgs[j].n,
           \A i \in 1 .. Len(q), k \in 1 .. Len(msgs) :
               q[i].request_[1] = c => q[i].request_[2] < msgs[k].n /\ q[i].recv_time_ <= t,
           \A i \in 1 .. Len(h), k \in 1 .. Len(msgs) : h[i][1] = c => h[i][2] < msgs[k].n
    PROVE  /\ Ordered(q \o Stamped(c, t, msgs))
           /\ Continues(h, q \o Stamped(c, t, msgs))
  <1> DEFINE a == Stamped(c, t, msgs)
             p == q \o a
             L == Len(q)
  <1>1. /\ a \in Seq(PendingRequest) /\ Len(a) = Len(msgs)
        /\ \A k \in 1 .. Len(msgs) : a[k].recv_time_ = t /\ a[k].request_ = <<c, msgs[k].n>>
    <2>1. c \in Clients /\ msgs \in Seq(RequestMsg) /\ (Len(msgs) # 0 => t \in Nat)
      OBVIOUS
    <2> QED BY ONLY <2>1, StampedIs
  <1> HIDE DEF a
  <1>2. p \in Seq(PendingRequest) /\ IsJoin(p, q, a)
    BY <1>1, Joined
  <1> HIDE DEF p
  <1>3. L \in Nat
    OBVIOUS
  <1> HIDE DEF L
  <1>4. \A k \in 1 .. L : p[k] = q[k]
    BY <1>2 DEF IsJoin, L
  <1>5. ASSUME NEW k \in 1 .. Len(p), k \notin 1 .. L
        PROVE  /\ k - L \in 1 .. Len(msgs)
               /\ p[k].recv_time_ = t /\ p[k].request_[1] = c
               /\ p[k].request_[2] = msgs[k - L].n
    <2>1. k - L \in 1 .. Len(msgs) /\ p[k] = a[k - L]
      BY <1>1, <1>2, <1>5 DEF IsJoin, L
    <2>2. p[k].recv_time_ = t /\ p[k].request_ = <<c, msgs[k - L].n>>
      BY <2>1, <1>1
    <2> QED BY <2>1, <2>2
  <1>6. ASSUME NEW i \in 1 .. Len(p), NEW j \in 1 .. Len(p), i < j,
               p[i].request_[1] = p[j].request_[1]
        PROVE  p[i].request_[2] < p[j].request_[2] /\ p[i].recv_time_ <= p[j].recv_time_
    <2>1. CASE j \in 1 .. L
      <3>1. i \in 1 .. L
        BY <2>1, <1>3, <1>6
      <3> QED BY <2>1, <3>1, <1>4, <1>6 DEF Ordered, L
    <2>2. CASE j \notin 1 .. L /\ i \in 1 .. L
      <3>1. /\ j - L \in 1 .. Len(msgs) /\ p[j].recv_time_ = t /\ p[j].request_[1] = c
            /\ p[j].request_[2] = msgs[j - L].n /\ p[i] = q[i]
        BY <2>2, <1>4, <1>5
      <3> QED BY <2>2, <3>1, <1>6 DEF L
    <2>3. CASE j \notin 1 .. L /\ i \notin 1 .. L
      <3>1. /\ i - L \in 1 .. Len(msgs) /\ p[i].recv_time_ = t
            /\ p[i].request_[2] = msgs[i - L].n
            /\ j - L \in 1 .. Len(msgs) /\ p[j].recv_time_ = t
            /\ p[j].request_[2] = msgs[j - L].n
        BY <2>3, <1>5
      <3>2. i - L < j - L
        BY <1>3, <1>6
      <3>3. t \in Nat
        BY <3>1
      <3> QED BY <3>1, <3>2, <3>3
    <2>4. i \notin 1 .. L => j \notin 1 .. L
      BY <1>3, <1>6
    <2> QED BY <2>1, <2>2, <2>3, <2>4
  <1>7. ASSUME NEW i \in 1 .. Len(h), NEW j \in 1 .. Len(p), h[i][1] = p[j].request_[1]
        PROVE  h[i][2] < p[j].request_[2]
    <2>1. CASE j \in 1 .. L
      BY <2>1, <1>4, <1>7 DEF Continues, L
    <2>2. CASE j \notin 1 .. L
      <3>1. /\ j - L \in 1 .. Len(msgs) /\ p[j].request_[1] = c
            /\ p[j].request_[2] = msgs[j - L].n
        BY <2>2, <1>5
      <3> QED BY <3>1, <1>7
    <2> QED BY <2>1, <2>2
  <1> QED BY <1>6, <1>7 DEF Ordered, Continues, p, a

\* The requests of a history are in order, or at least each is there once.
InOrder(h) == \A i, j \in 1 .. Len(h) : i < j /\ h[i][1] = h[j][1] => h[i][2] < h[j][2]
Once(h) == \A i, j \in 1 .. Len(h) : i # j => h[i] # h[j]

\* The sorted batch continues the history: std::sort keeps each client's
\* requests apart, and in their order when it is stable.
LEMMA BatchContinues ==
    ASSUME NEW h \in Seq(Item), NEW q \in Seq(PendingRequest),
           NEW p \in [1 .. Len(q) -> 1 .. Len(q)], p \in Sortings(q),
           Ordered(q), Continues(h, q)
    PROVE  /\ Once(h) => Once(h \o Batch(q, p))
           /\ InOrder(h) /\ Len(q) <= StableSize => InOrder(h \o Batch(q, p))
  <1> DEFINE b == Batch(q, p)
             g == h \o b
             L == Len(h)
  <1>1. /\ b \in Seq(Item) /\ Len(b) = Len(q)
        /\ \A k \in 1 .. Len(q) : p[k] \in 1 .. Len(q) /\ b[k] = q[p[k]].request_
    BY BatchIs
  <1> HIDE DEF b
  <1>2. g \in Seq(Item) /\ IsJoin(g, h, b)
    BY <1>1, Joined
  <1> HIDE DEF g
  <1>3. L \in Nat /\ \A k \in 1 .. L : h[k] = <<h[k][1], h[k][2]>> /\ h[k][2] \in Nat
    BY ItemFields
  <1>4. /\ Len(q) \in Nat
        /\ \A i \in 1 .. Len(q) :
               /\ q[i].recv_time_ \in Nat
               /\ q[i].request_ = <<q[i].request_[1], q[i].request_[2]>>
               /\ q[i].request_[1] \in Clients /\ q[i].request_[2] \in Nat
    BY PendingFields
  <1> HIDE DEF L
  <1>5. \A k \in 1 .. L : g[k] = h[k]
    BY <1>2 DEF IsJoin, L
  <1>6. ASSUME NEW k \in 1 .. Len(g), k \notin 1 .. L
        PROVE  /\ k - L \in 1 .. Len(q) /\ p[k - L] \in 1 .. Len(q)
               /\ g[k] = q[p[k - L]].request_
    <2>1. k - L \in 1 .. Len(q) /\ g[k] = b[k - L]
      BY <1>1, <1>2, <1>6 DEF IsJoin, L
    <2> QED BY <2>1, <1>1
  <1>7. ASSUME NEW i \in 1 .. Len(g), NEW j \in 1 .. Len(g), i \in 1 .. L, j \notin 1 .. L,
               g[i][1] = g[j][1]
        PROVE  g[i][2] < g[j][2]
    <2>1. p[j - L] \in 1 .. Len(q) /\ g[j] = q[p[j - L]].request_ /\ g[i] = h[i]
      BY <1>5, <1>6, <1>7
    <2> QED BY <2>1, <1>7 DEF Continues, L
  <1>8. ASSUME NEW i \in 1 .. Len(g), NEW j \in 1 .. Len(g), i \in 1 .. L, j \notin 1 .. L
        PROVE  g[i] # g[j]
    <2>1. g[i] = g[j] => g[i][2] < g[j][2]
      BY <1>7, <1>8
    <2>2. g[i][2] \in Nat
      BY <1>3, <1>5, <1>8
    <2> QED BY <2>1, <2>2
  <1>9. ASSUME Once(h), NEW i \in 1 .. Len(g), NEW j \in 1 .. Len(g), i # j
        PROVE  g[i] # g[j]
    <2>1. CASE i \in 1 .. L /\ j \in 1 .. L
      BY <2>1, <1>5, <1>9 DEF Once, L
    <2>2. CASE i \notin 1 .. L /\ j \notin 1 .. L
      <3>1. /\ i - L \in 1 .. Len(q) /\ p[i - L] \in 1 .. Len(q)
            /\ g[i] = q[p[i - L]].request_
            /\ j - L \in 1 .. Len(q) /\ p[j - L] \in 1 .. Len(q)
            /\ g[j] = q[p[j - L]].request_ /\ i - L # j - L
        BY <2>2, <1>3, <1>6, <1>9
      <3>2. p[i - L] # p[j - L]
        BY <3>1 DEF Sortings
      <3>3. \A x, y \in 1 .. Len(q) : x < y => q[x].request_ # q[y].request_
        <4> TAKE x, y \in 1 .. Len(q)
        <4>1. x < y /\ q[x].request_ = q[y].request_ => q[x].request_[2] < q[y].request_[2]
          BY DEF Ordered
        <4> QED BY <4>1, <1>4
      <3>4. p[i - L] < p[j - L] \/ p[j - L] < p[i - L]
        BY <3>1, <3>2, <1>4
      <3> QED BY <3>1, <3>3, <3>4
    <2> QED BY <2>1, <2>2, <1>8
  <1>10. ASSUME InOrder(h), Len(q) <= StableSize,
                NEW i \in 1 .. Len(g), NEW j \in 1 .. Len(g), i < j, g[i][1] = g[j][1]
         PROVE  g[i][2] < g[j][2]
    <2>1. CASE i \in 1 .. L /\ j \in 1 .. L
      BY <2>1, <1>5, <1>10 DEF InOrder, L
    <2>2. CASE i \in 1 .. L /\ j \notin 1 .. L
      BY <2>2, <1>7, <1>10
    <2>3. CASE i \notin 1 .. L /\ j \notin 1 .. L
      <3>1. /\ i - L \in 1 .. Len(q) /\ p[i - L] \in 1 .. Len(q)
            /\ g[i] = q[p[i - L]].request_
            /\ j - L \in 1 .. Len(q) /\ p[j - L] \in 1 .. Len(q)
            /\ g[j] = q[p[j - L]].request_ /\ i - L < j - L
        BY <2>3, <1>3, <1>6, <1>10
      <3> DEFINE x == p[i - L]
                 y == p[j - L]
      <3>2. /\ x # y
            /\ \/ q[x].recv_time_ < q[y].recv_time_
               \/ q[x].recv_time_ = q[y].recv_time_ /\ x < y
        BY <3>1, <1>10 DEF Sortings
      <3> HIDE DEF x, y
      <3>3. x \in 1 .. Len(q) /\ y \in 1 .. Len(q) /\ q[x].request_[1] = q[y].request_[1]
        BY <3>1, <1>10 DEF x, y
      <3>4. CASE x < y
        <4>1. q[x].request_[2] < q[y].request_[2]
          BY <3>3, <3>4 DEF Ordered
        <4> QED BY <4>1, <3>1 DEF x, y
      <3>5. CASE y < x
        <4>1. q[y].recv_time_ <= q[x].recv_time_
          BY <3>3, <3>5 DEF Ordered
        <4> QED BY <4>1, <3>2, <3>3, <3>5, <1>4
      <3> QED BY <3>2, <3>3, <3>4, <3>5, <1>4
    <2>4. i \notin 1 .. L => j \notin 1 .. L
      BY <1>3, <1>10
    <2> QED BY <2>1, <2>2, <2>3, <2>4
  <1> QED BY <1>9, <1>10 DEF Once, InOrder, g, b

\* What the order server accepts of a read grows, and is older than the time
\* it is stamped with.
LEMMA AcceptedGrow ==
    ASSUME Shape, NEW s \in Sockets, NEW req \in Nat, NEW t \in Nat,
           RxOk(server_rx[s], req, t)
    PROVE  /\ \A i, j \in 1 .. Len(WholeAccepted(s)) :
                  i < j => WholeAccepted(s)[i].n < WholeAccepted(s)[j].n
           /\ Len(server_rx[s]) # 0 => RxTime(server_rx[s]) \in 0 .. t
           /\ \A k \in 1 .. Len(server_rx[s]) :
                  server_rx[s][k].time <= RxTime(server_rx[s])
           /\ cid_next_exp_seq_num_[s[1]] + Len(WholeAccepted(s)) - 1 <= req \/ Len(WholeAccepted(s)) = 0
  <1> DEFINE q == server_rx[s]
             g == WholeAccepted(s)
             e == cid_next_exp_seq_num_[s[1]]
  <1>1. /\ g \in Seq(RequestMsg) /\ Len(g) \in 0 .. Len(q)
        /\ \A i \in 1 .. Len(g) : \E k \in 1 .. Len(q) :
               g[i] = q[k].msg /\ q[k].msg.seq_num_ = e + i - 1
    BY AcceptedIs
  <1>2. /\ q \in Seq(Packet) /\ e \in Nat
    BY SocketIs DEF Shape
  <1> HIDE DEF q, g, e
  <1>3. /\ Len(q) \in Nat
        /\ \A i \in 1 .. Len(q) :
               q[i].msg.n \in Nat /\ q[i].msg.seq_num_ \in Nat /\ q[i].time \in Nat
    BY <1>2, PacketFields
  <1>4. RxOk(q, req, t)
    BY DEF q
  <1>5. ASSUME NEW i \in 1 .. Len(g), NEW j \in 1 .. Len(g), i < j PROVE g[i].n < g[j].n
    <2>1. PICK k \in 1 .. Len(q) : g[i] = q[k].msg /\ q[k].msg.seq_num_ = e + i - 1
      BY <1>1
    <2>2. PICK l \in 1 .. Len(q) : g[j] = q[l].msg /\ q[l].msg.seq_num_ = e + j - 1
      BY <1>1
    <2>3. q[k].msg.seq_num_ < q[l].msg.seq_num_
      BY <2>1, <2>2, <1>1, <1>2, <1>3, <1>5
    <2>4. ~(l < k) /\ l # k
      BY <2>3, <1>3, <1>4 DEF RxOk
    <2>5. k < l
      BY <2>4, <1>3
    <2> QED BY <2>1, <2>2, <2>5, <1>4 DEF RxOk
  <1>6. ASSUME Len(q) # 0 PROVE RxTime(q) \in 0 .. t
    <2>1. Len(q) \in 1 .. Len(q)
      BY <1>3, <1>6
    <2> QED BY <2>1, <1>3, <1>4 DEF RxOk, RxTime
  <1>7. ASSUME NEW k \in 1 .. Len(q) PROVE q[k].time <= RxTime(q)
    <2>1. Len(q) \in 1 .. Len(q)
      BY <1>3
    <2>2. CASE k = Len(q)
      BY <2>1, <2>2, <1>3 DEF RxTime
    <2>3. CASE k < Len(q)
      BY <2>1, <2>3, <1>4 DEF RxOk, RxTime
    <2> QED BY <2>2, <2>3, <1>3
  <1>8. ASSUME Len(g) # 0 PROVE e + Len(g) - 1 <= req
    <2>1. Len(g) \in 1 .. Len(g)
      BY <1>1, <1>3, <1>8
    <2>2. PICK k \in 1 .. Len(q) : q[k].msg.seq_num_ = e + Len(g) - 1
      BY <2>1, <1>1
    <2>3. q[k].msg.seq_num_ \in 1 .. q[k].msg.n /\ q[k].msg.n \in 1 .. req
      BY <1>4 DEF RxOk
    <2> QED BY <2>2, <2>3
  <1> QED BY <1>5, <1>6, <1>7, <1>8 DEF q, g, e

-----------------------------------------------------------------------------
(* Requests reach the engine in order: the steps.                          *)

\* The types of what concerns a client.
LEMMA ClientTypes ==
    ASSUME Shape, NEW c \in Clients
    PROVE  /\ client_outbound[c] \in Seq(RequestMsg) /\ requested[c] \in Nat
           /\ next_outgoing_seq_num_[c] \in Nat /\ conn[c] \in Nat
           /\ cid_next_exp_seq_num_[c] \in Nat /\ load.requests[c] \in Nat
           /\ cid_tcp_socket_[c] \in Sockets \cup {NoSocket}
  <1>1. conn[c] \in 0 .. MaxRestarts + 1
    BY DEF Shape
  <1>2. conn[c] \in Nat
    BY <1>1
  <1>3. load.requests[c] \in Nat
    BY LoadIs
  <1>4. /\ client_outbound[c] \in Seq(RequestMsg) /\ requested[c] \in Nat
        /\ next_outgoing_seq_num_[c] \in Nat /\ cid_next_exp_seq_num_[c] \in Nat
        /\ cid_tcp_socket_[c] \in Sockets \cup {NoSocket}
    BY DEF Shape
  <1> QED BY <1>2, <1>3, <1>4

\* Those of what concerns a socket.
LEMMA SocketTypes ==
    ASSUME Shape, NEW s \in Sockets
    PROVE  /\ server_rx[s] \in Seq(Packet) /\ s[1] \in Clients /\ s[2] \in Nat
           /\ s # NoSocket
  <1>1. s[2] \in 1 .. MaxRestarts + 1 /\ s[1] \in Clients /\ s # NoSocket
    BY SocketIs
  <1>2. s[2] \in Nat
    BY <1>1
  <1>3. server_rx[s] \in Seq(Packet)
    BY DEF Shape
  <1> QED BY <1>1, <1>2, <1>3

\* At first nothing is on the way.
LEMMA InitRequests == Init => RequestInv
  <1> SUFFICES ASSUME Init PROVE RequestInv
    OBVIOUS
  <1>0. Shape
    BY InitShape
  <1>1. \A c \in Clients : OutInv(c)
    <2> TAKE c \in Clients
    <2>1. /\ client_outbound[c] = <<>> /\ requested[c] = 0 /\ next_outgoing_seq_num_[c] = 1
          /\ load.requests[c] \in Nat
      BY <1>0, LoadIs DEF Init
    <2> QED BY <2>1 DEF OutInv, OutOk
  <1>2. \A c \in Clients : TakenInv(c)
    BY DEF Init, TakenInv, Taken
  <1>3. \A s \in Sockets : RxInv(s[1], s)
    BY DEF Init, RxInv, RxOk, Later, Higher
  <1>4. PendingInv /\ RequestsOnce
    BY DEF Init, PendingInv, RequestsOnce, Ordered, Continues
  <1> QED BY <1>1, <1>2, <1>3, <1>4 DEF RequestInv

\* Steps that leave the requests alone.
LEMMA RequestsFrame ==
    ASSUME RequestInv,
           UNCHANGED <<load, conn, requested, next_outgoing_seq_num_, client_outbound,
                       server_rx, clock, cid_tcp_socket_, cid_next_exp_seq_num_,
                       pending_client_requests_, sequenced>>
    PROVE  RequestInv'
  <1>1. ASSUME NEW c \in Clients PROVE OutInv(c)' /\ TakenInv(c)'
    BY DEF RequestInv, OutInv, TakenInv, Taken
  <1>2. ASSUME NEW s \in Sockets PROVE RxInv(s[1], s)'
    BY DEF RequestInv, RxInv
  <1>3. PendingInv' /\ RequestsOnce'
    BY DEF RequestInv, PendingInv, OnTime, RequestsOnce
  <1> QED BY <1>1, <1>2, <1>3 DEF RequestInv

\* A client that starts has nothing on its new connection.
LEMMA RequestsOfStart ==
    ASSUME Shape, RequestInv, NEW c \in Clients, Start(c)
    PROVE  RequestInv'
  <1>1. /\ \A d \in Clients :
               /\ conn'[d] = IF d = c THEN conn[c] + 1 ELSE conn[d]
               /\ client_outbound'[d] = IF d = c THEN <<>> ELSE client_outbound[d]
               /\ next_outgoing_seq_num_'[d] = IF d = c THEN 1 ELSE next_outgoing_seq_num_[d]
        /\ UNCHANGED <<load, requested, server_rx, clock, cid_tcp_socket_,
                       cid_next_exp_seq_num_, pending_client_requests_, sequenced>>
    BY DEF Start, Shape, kernelVars, engineVars
  <1>2. ASSUME NEW d \in Clients PROVE OutInv(d)'
    <2>1. OutInv(d) /\ requested[d] \in Nat
      BY ClientTypes DEF RequestInv
    <2>2. CASE d = c
      <3>1. OutOk(<<>>, 1, requested[c])
        BY DEF OutOk
      <3> QED BY <2>1, <2>2, <3>1, <1>1 DEF OutInv
    <2>3. CASE d # c
      BY <2>1, <2>3, <1>1 DEF OutInv
    <2> QED BY <2>2, <2>3
  <1>3. ASSUME NEW d \in Clients PROVE TakenInv(d)'
    <2>1. TakenInv(d) /\ conn[d] \in Nat
      BY ClientTypes DEF RequestInv
    <2>2. \A n \in Nat : Taken(d, n)' <=> Taken(d, n)
      BY <1>1 DEF Taken
    <2>3. CASE d = c
      <3>1. \A n : BeforeOut(n, <<>>)
        BY DEF BeforeOut
      <3>2. cid_tcp_socket_[c] # NoSocket => cid_tcp_socket_[c][2] \in Nat
        BY ClientTypes, SocketTypes DEF Shape
      <3> QED BY <2>1, <2>2, <2>3, <3>1, <3>2, <1>1 DEF TakenInv
    <2>4. CASE d # c
      BY <2>1, <2>2, <2>4, <1>1 DEF TakenInv
    <2> QED BY <2>3, <2>4
  <1>4. ASSUME NEW s \in Sockets PROVE RxInv(s[1], s)'
    <2>1. RxInv(s[1], s) /\ s[1] \in Clients /\ s[2] \in Nat /\ conn[s[1]] \in Nat
      BY SocketTypes, ClientTypes DEF RequestInv
    <2>2. CASE s[1] = c
      <3>1. Later(server_rx[s], <<>>)
        BY DEF Later
      <3>2. Higher(<<>>, <<>>, 1)
        BY DEF Higher
      <3> QED BY <2>1, <2>2, <3>1, <3>2, <1>1 DEF RxInv
    <2>3. CASE s[1] # c
      BY <2>1, <2>3, <1>1 DEF RxInv
    <2> QED BY <2>2, <2>3
  <1>5. PendingInv' /\ RequestsOnce'
    BY <1>1 DEF RequestInv, PendingInv, OnTime, RequestsOnce
  <1> QED BY <1>2, <1>3, <1>4, <1>5 DEF RequestInv

\* A new request is the last one of its client.
LEMMA RequestsOfSend ==
    ASSUME Shape, RequestInv, NEW c \in Clients, SendRequest(c)
    PROVE  RequestInv'
  <1> DEFINE m == [client_id_ |-> c, seq_num_ |-> next_outgoing_seq_num_[c],
                   n |-> requested[c] + 1]
             o == client_outbound[c]
             next == next_outgoing_seq_num_[c]
             req == requested[c]
  <1>1. /\ \A d \in Clients :
               /\ client_outbound'[d] = IF d = c THEN Append(o, m) ELSE client_outbound[d]
               /\ requested'[d] = IF d = c THEN req + 1 ELSE requested[d]
               /\ next_outgoing_seq_num_'[d] = IF d = c THEN next + 1
                                               ELSE next_outgoing_seq_num_[d]
        /\ req < load.requests[c]
        /\ UNCHANGED <<load, conn, server_rx, clock, cid_tcp_socket_,
                       cid_next_exp_seq_num_, pending_client_requests_, sequenced>>
    BY DEF SendRequest, Shape, kernelVars, serverVars, engineVars
  <1>2. m \in RequestMsg /\ m.n = req + 1 /\ m.seq_num_ = next
    BY ClientTypes DEF RequestMsg
  <1>3. /\ o \in Seq(RequestMsg) /\ next \in Nat /\ req \in Nat /\ clock \in Nat
        /\ load.requests[c] \in Nat
    BY ClientTypes DEF Shape
  <1>4. OutInv(c) /\ next \in 1 .. req + 1 /\ OutOk(o, next, req)
    BY DEF RequestInv, OutInv
  <1> HIDE DEF m, o, next, req
  <1>5. ASSUME NEW s \in Sockets, s[1] = c
        PROVE  /\ RxOk(server_rx[s], req + 1, clock) /\ Later(server_rx[s], Append(o, m))
               /\ Higher(server_rx[s], o, next) => Higher(server_rx[s], Append(o, m), next + 1)
               /\ \A n \in 1 .. req : BeforeOut(n, o) => BeforeOut(n, Append(o, m))
    <2>1. RxOk(server_rx[s], req, clock) /\ Later(server_rx[s], o)
      BY <1>5 DEF RequestInv, RxInv, req, o
    <2>2. server_rx[s] \in Seq(Packet)
      BY SocketTypes
    <2> QED BY <2>1, <2>2, <1>2, <1>3, <1>4, OutMore
  <1>6. /\ OutOk(Append(o, m), next + 1, req + 1)
        /\ \A n \in 1 .. req : BeforeOut(n, o) => BeforeOut(n, Append(o, m))
    <2>1. <<>> \in Seq(Packet) /\ RxOk(<<>>, req, clock) /\ Later(<<>>, o)
      BY DEF RxOk, Later
    <2> QED BY <2>1, <1>2, <1>3, <1>4, OutMore
  <1>7. ASSUME NEW d \in Clients PROVE OutInv(d)'
    <2>1. CASE d = c
      BY <2>1, <1>1, <1>3, <1>4, <1>6 DEF OutInv
    <2>2. CASE d # c
      BY <2>2, <1>1 DEF RequestInv, OutInv
    <2> QED BY <2>1, <2>2
  <1>8. ASSUME NEW d \in Clients PROVE TakenInv(d)'
    <2>1. TakenInv(d)
      BY DEF RequestInv
    <2>2. \A n \in Nat : Taken(d, n)' <=> Taken(d, n)
      BY <1>1 DEF Taken
    <2>3. CASE d = c
      <3>1. \A n \in Nat : Taken(c, n) =>
                n \in 1 .. req + 1 /\ BeforeOut(n, Append(o, m))
        BY <2>1, <2>3, <1>3, <1>6 DEF TakenInv, o, req
      <3>2. cid_next_exp_seq_num_[c] \in 1 .. req + 1 + 1
        BY <2>1, <2>3, <1>3 DEF TakenInv, req
      <3> QED BY <2>1, <2>2, <2>3, <3>1, <3>2, <1>1 DEF TakenInv
    <2>4. CASE d # c
      BY <2>1, <2>2, <2>4, <1>1 DEF TakenInv
    <2> QED BY <2>3, <2>4
  <1>9. ASSUME NEW s \in Sockets PROVE RxInv(s[1], s)'
    <2>1. RxInv(s[1], s) /\ s[1] \in Clients
      BY SocketTypes DEF RequestInv
    <2>2. CASE s[1] = c
      BY <2>1, <2>2, <1>1, <1>5 DEF RxInv, o, next
    <2>3. CASE s[1] # c
      BY <2>1, <2>3, <1>1 DEF RxInv
    <2> QED BY <2>2, <2>3
  <1>10. PendingInv' /\ RequestsOnce'
    BY <1>1 DEF RequestInv, PendingInv, OnTime, RequestsOnce
  <1> QED BY <1>7, <1>8, <1>9, <1>10 DEF RequestInv

\* What a client's round does.
LEMMA ClientRound ==
    ASSUME Shape, NEW c \in Clients, WholeClientSendAndRecv(c)
    PROVE  /\ <<c, conn[c]>> \in Sockets
           /\ client_rx' = [client_rx EXCEPT ![<<c, conn[c]>>] = <<>>]
           /\ \A d \in Clients :
                  client_outbound'[d] = IF d = c THEN <<>> ELSE client_outbound[d]
           /\ \E sent \in WholeParts(client_outbound[c]) :
                  /\ sent \in Seq(RequestMsg) /\ Len(sent) \in 0 .. Len(client_outbound[c])
                  /\ \A k \in 1 .. Len(sent) : sent[k] = client_outbound[c][k]
                  /\ clock' = clock + Len(sent)
                  /\ \A s \in Sockets :
                         server_rx'[s] = IF s = <<c, conn[c]>>
                                         THEN server_rx[<<c, conn[c]>>] \o
                                              Arriving(clock, sent)
                                         ELSE server_rx[s]
           /\ UNCHANGED <<load, conn, requested, next_outgoing_seq_num_,
                          serverVars, engineVars>>
  <1>1. <<c, conn[c]>> \in Sockets
    <2>1. conn[c] > 0 /\ conn[c] \in 0 .. MaxRestarts + 1 /\ MaxRestarts \in Nat
      BY GatewayAssumption DEF WholeClientSendAndRecv, Shape
    <2>2. conn[c] \in 1 .. MaxRestarts + 1
      BY <2>1
    <2> QED BY <2>2 DEF Sockets
  <1>2. /\ client_rx' = [client_rx EXCEPT ![<<c, conn[c]>>] = <<>>]
        /\ client_outbound' = [client_outbound EXCEPT ![c] = <<>>]
        /\ UNCHANGED <<load, conn, requested, next_outgoing_seq_num_,
                       serverVars, engineVars>>
    BY DEF WholeClientSendAndRecv
  <1>3. PICK sent \in WholeParts(client_outbound[c]) :
            /\ clock' = clock + Len(sent)
            /\ server_rx' = [server_rx EXCEPT ![<<c, conn[c]>>] = @ \o Arriving(clock, sent)]
    BY DEF WholeClientSendAndRecv, Arriving
  <1>4. /\ sent \in Seq(RequestMsg) /\ Len(sent) \in 0 .. Len(client_outbound[c])
        /\ \A k \in 1 .. Len(sent) : sent[k] = client_outbound[c][k]
    <2>1. client_outbound[c] \in Seq(RequestMsg)
      BY DEF Shape
    <2> QED BY <2>1, SentIs
  <1>5. server_rx \in [Sockets -> Seq(Packet)] /\ client_outbound \in [Clients -> Seq(RequestMsg)]
    BY DEF Shape
  <1>6. \A s \in Sockets :
            server_rx'[s] = IF s = <<c, conn[c]>>
                            THEN server_rx[<<c, conn[c]>>] \o Arriving(clock, sent)
                            ELSE server_rx[s]
    BY <1>3, <1>5
  <1>7. \A d \in Clients : client_outbound'[d] = IF d = c THEN <<>> ELSE client_outbound[d]
    BY <1>2, <1>5
  <1> QED BY <1>1, <1>2, <1>3, <1>4, <1>6, <1>7

\* What a client sends arrives after all that arrived before.
LEMMA RequestsOfClient ==
    ASSUME Shape, RequestInv, NEW c \in Clients, WholeClientSendAndRecv(c)
    PROVE  RequestInv'
  <1> DEFINE s0 == <<c, conn[c]>>
             o == client_outbound[c]
             next == next_outgoing_seq_num_[c]
             req == requested[c]
             q == server_rx[s0]
  <1>1. /\ s0 \in Sockets
        /\ \A d \in Clients :
               client_outbound'[d] = IF d = c THEN <<>> ELSE client_outbound[d]
        /\ UNCHANGED <<load, conn, requested, next_outgoing_seq_num_,
                       cid_tcp_socket_, cid_next_exp_seq_num_,
                       pending_client_requests_, sequenced>>
    BY ClientRound DEF serverVars, engineVars
  <1>2. PICK sent \in Seq(RequestMsg) :
            /\ Len(sent) \in 0 .. Len(o)
            /\ \A k \in 1 .. Len(sent) : sent[k] = o[k]
            /\ clock' = clock + Len(sent)
            /\ \A s \in Sockets :
                   server_rx'[s] = IF s = s0 THEN q \o Arriving(clock, sent) ELSE server_rx[s]
    BY ClientRound
  <1>3. /\ o \in Seq(RequestMsg) /\ next \in Nat /\ req \in Nat /\ clock \in Nat
        /\ q \in Seq(Packet) /\ s0[1] = c /\ s0[2] = conn[c]
    BY <1>1, ClientTypes, SocketTypes DEF Shape
  <1>4. /\ OutOk(o, next, req) /\ RxOk(q, req, clock) /\ Later(q, o) /\ Higher(q, o, next)
    <2>1. OutInv(c) /\ RxInv(s0[1], s0)
      BY <1>1 DEF RequestInv
    <2> QED BY <2>1, <1>3 DEF OutInv, RxInv
  <1> HIDE DEF s0, o, next, req, q
  <1> DEFINE p == q \o Arriving(clock, sent)
             t == clock + Len(sent)
  <1>5. /\ RxOk(p, req, t) /\ Higher(p, <<>>, next)
        /\ \A n \in Nat : BeforeRx(n, q) /\ BeforeOut(n, o) => BeforeRx(n, p)
        /\ \A u \in Nat : u <= clock /\ (\A k \in 1 .. Len(q) : u <= q[k].time) =>
               \A k \in 1 .. Len(p) : u <= p[k].time
    BY <1>2, <1>3, <1>4, RxMore
  <1>6. server_rx'[s0] = p /\ clock' = t /\ t \in Nat /\ t >= clock
    <2>1. Len(sent) \in Nat
      BY <1>2
    <2>2. clock' = t /\ t \in Nat /\ t >= clock
      BY <2>1, <1>2, <1>3
    <2>3. server_rx'[s0] = p
      BY <1>1, <1>2
    <2> QED BY <2>2, <2>3
  <1> HIDE DEF p, t
  <1>7. /\ \A x : BeforeOut(x, <<>>)
        /\ \A x : Later(x, <<>>)
        /\ OutOk(<<>>, next, req)
    BY DEF BeforeOut, Later, OutOk
  <1>8. ASSUME NEW d \in Clients PROVE OutInv(d)'
    <2>1. OutInv(d)
      BY DEF RequestInv
    <2>2. CASE d = c
      BY <2>1, <2>2, <1>1, <1>7 DEF OutInv, next, req
    <2>3. CASE d # c
      BY <2>1, <2>3, <1>1 DEF OutInv
    <2> QED BY <2>2, <2>3
  <1>9. ASSUME NEW d \in Clients PROVE TakenInv(d)'
    <2>1. TakenInv(d)
      BY DEF RequestInv
    <2>2. \A n \in Nat : Taken(d, n)' <=> Taken(d, n)
      BY <1>1 DEF Taken
    <2>3. ASSUME NEW n \in Nat, Taken(d, n)
          PROVE  /\ BeforeRx(n, server_rx'[cid_tcp_socket_[d]])
                 /\ BeforeOut(n, client_outbound'[d])
      <3>1. /\ cid_tcp_socket_[d] \in Sockets /\ cid_tcp_socket_[d][1] = d
            /\ BeforeRx(n, server_rx[cid_tcp_socket_[d]])
            /\ BeforeOut(n, client_outbound[d])
        BY <2>1, <2>3 DEF TakenInv
      <3>2. CASE d = c
        <4>1. BeforeOut(n, o)
          BY <3>1, <3>2 DEF o
        <4>2. cid_tcp_socket_[d] = s0 => BeforeRx(n, p)
          BY <3>1, <4>1, <1>5 DEF q
        <4> QED BY <3>1, <3>2, <4>2, <1>1, <1>2, <1>6, <1>7
      <3>3. CASE d # c
        <4>1. cid_tcp_socket_[d] # s0
          BY <3>1, <3>3, <1>3
        <4> QED BY <3>1, <3>3, <4>1, <1>1, <1>2
      <3> QED BY <3>2, <3>3
    <2> QED BY <2>1, <2>2, <2>3, <1>1 DEF TakenInv
  <1>10. ASSUME NEW s \in Sockets PROVE RxInv(s[1], s)'
    <2>1. RxInv(s[1], s) /\ s[1] \in Clients /\ server_rx[s] \in Seq(Packet)
      BY SocketTypes DEF RequestInv
    <2>2. CASE s = s0
      <3>1. Later(p, <<>>)
        BY <1>7
      <3>2. /\ s[1] = c /\ s[2] = conn'[c] /\ server_rx'[s] = p /\ clock' = t
            /\ requested'[c] = req /\ client_outbound'[c] = <<>>
            /\ next_outgoing_seq_num_'[c] = next /\ conn'[c] \in Nat
        BY <2>2, <1>1, <1>3, <1>6, ClientTypes DEF next, req
      <3>3. ~(s[2] > conn'[c])
        BY <3>2
      <3> QED BY <3>1, <3>2, <3>3, <1>5 DEF RxInv
    <2>3. CASE s # s0
      <3>1. server_rx'[s] = server_rx[s]
        BY <2>3, <1>2
      <3>2. RxOk(server_rx[s], requested[s[1]], clock')
        <4>1. RxOk(server_rx[s], requested[s[1]], clock)
          BY <2>1 DEF RxInv
        <4>2. \A i \in 1 .. Len(server_rx[s]) : server_rx[s][i].time \in Nat
          BY <2>1, PacketFields
        <4>3. \A i \in 1 .. Len(server_rx[s]) : server_rx[s][i].time <= t
          <5> TAKE i \in 1 .. Len(server_rx[s])
          <5>1. server_rx[s][i].time <= clock
            BY <4>1 DEF RxOk
          <5> QED BY <5>1, <4>2, <1>3, <1>6
        <4>4. RxOk(server_rx[s], requested[s[1]], t)
          BY <4>1, <4>3 DEF RxOk
        <4> QED BY <4>4, <1>6
      <3>3. CASE s[1] = c
        <4>1. s[2] # conn[c]
          <5>1. s = <<s[1], s[2]>>
            BY SocketIs
          <5> QED BY <5>1, <3>3, <2>3 DEF s0
        <4>2. Later(server_rx[s], <<>>)
          BY <1>7
        <4> QED BY <2>1, <3>1, <3>2, <3>3, <4>1, <4>2, <1>1 DEF RxInv
      <3>4. CASE s[1] # c
        BY <2>1, <3>1, <3>2, <3>4, <1>1 DEF RxInv
      <3> QED BY <3>3, <3>4
    <2> QED BY <2>2, <2>3
  <1>11. PendingInv'
    <2>1. PendingInv
      BY DEF RequestInv
    <2>2. ASSUME NEW i \in 1 .. Len(pending_client_requests_),
                 NEW d \in Clients, NEW u \in Nat,
                 d = pending_client_requests_[i].request_[1],
                 u = pending_client_requests_[i].recv_time_
          PROVE  OnTime(d, u)'
      <3>1. OnTime(d, u)
        BY <2>1, <2>2 DEF PendingInv
      <3>2. cid_tcp_socket_[d] \in Sockets
        <4>1. /\ pending_client_requests_[i].request_ =
                     <<d, pending_client_requests_[i].request_[2]>>
              /\ pending_client_requests_[i].request_[2] \in Nat
          BY <2>2, PendingFields DEF Shape
        <4>2. Taken(d, pending_client_requests_[i].request_[2])
          BY <4>1 DEF Taken
        <4>3. TakenInv(d)
          BY DEF RequestInv
        <4> QED BY <4>1, <4>2, <4>3 DEF TakenInv
      <3>3. u <= clock'
        BY <3>1, <1>3, <1>6 DEF OnTime
      <3>4. CASE cid_tcp_socket_[d] = s0
        <4>1. \A k \in 1 .. Len(p) : u <= p[k].time
          BY <3>1, <3>4, <1>5 DEF OnTime, q
        <4> QED BY <3>3, <3>4, <4>1, <1>1, <1>6 DEF OnTime
      <3>5. CASE cid_tcp_socket_[d] # s0
        <4>1. server_rx'[cid_tcp_socket_[d]] = server_rx[cid_tcp_socket_[d]]
          BY <3>2, <3>5, <1>2
        <4> QED BY <3>1, <3>3, <4>1, <1>1 DEF OnTime
      <3> QED BY <3>4, <3>5
    <2>3. \A i \in 1 .. Len(pending_client_requests_) :
              /\ pending_client_requests_[i].request_[1] \in Clients
              /\ pending_client_requests_[i].recv_time_ \in Nat
      BY PendingFields DEF Shape
    <2>4. \A i \in 1 .. Len(pending_client_requests_') :
              OnTime(pending_client_requests_[i].request_[1],
                     pending_client_requests_[i].recv_time_)'
      <3> SUFFICES ASSUME NEW i \in 1 .. Len(pending_client_requests_)
                   PROVE  OnTime(pending_client_requests_[i].request_[1],
                                 pending_client_requests_[i].recv_time_)'
        BY <1>1
      <3>1. PICK d \in Clients : d = pending_client_requests_[i].request_[1]
        BY <2>3
      <3>2. PICK u \in Nat : u = pending_client_requests_[i].recv_time_
        BY <2>3
      <3>3. OnTime(d, u)'
        BY <2>2, <3>1, <3>2
      <3> QED BY <3>1, <3>2, <3>3, <1>1 DEF OnTime
    <2> QED BY <2>1, <2>4, <1>1 DEF PendingInv
  <1>12. RequestsOnce'
    BY <1>1 DEF RequestInv, RequestsOnce
  <1> QED BY <1>8, <1>9, <1>10, <1>11, <1>12 DEF RequestInv

\* A request that is pending or in the history is taken.
LEMMA PendingTaken ==
    ASSUME Shape, RequestInv
    PROVE  /\ \A i \in 1 .. Len(pending_client_requests_) :
                  LET r == pending_client_requests_[i].request_
                  IN  /\ r[1] \in Clients /\ r[2] \in Nat /\ Taken(r[1], r[2])
                      /\ cid_tcp_socket_[r[1]] \in Sockets
                      /\ pending_client_requests_[i].recv_time_ \in Nat
           /\ \A i \in 1 .. Len(sequenced) :
                  /\ sequenced[i][1] \in Clients /\ sequenced[i][2] \in Nat
                  /\ Taken(sequenced[i][1], sequenced[i][2])
                  /\ cid_tcp_socket_[sequenced[i][1]] \in Sockets
  <1>1. ASSUME NEW d \in Clients, NEW n \in Nat, Taken(d, n)
        PROVE  cid_tcp_socket_[d] \in Sockets
    BY <1>1 DEF RequestInv, TakenInv
  <1>2. ASSUME NEW i \in 1 .. Len(pending_client_requests_), NEW r,
               r = pending_client_requests_[i].request_
        PROVE  r[1] \in Clients /\ r[2] \in Nat /\ Taken(r[1], r[2])
    <2>1. r = <<r[1], r[2]>> /\ r[1] \in Clients /\ r[2] \in Nat
      BY <1>2, PendingFields DEF Shape
    <2> QED BY <2>1, <1>2 DEF Taken
  <1>3. ASSUME NEW i \in 1 .. Len(sequenced), NEW r, r = sequenced[i]
        PROVE  r[1] \in Clients /\ r[2] \in Nat /\ Taken(r[1], r[2])
    <2>1. r = <<r[1], r[2]>> /\ r[1] \in Clients /\ r[2] \in Nat
      BY <1>3, ItemFields DEF Shape
    <2> QED BY <2>1, <1>3 DEF Taken
  <1>4. \A i \in 1 .. Len(pending_client_requests_) :
            pending_client_requests_[i].recv_time_ \in Nat
    BY PendingFields DEF Shape
  <1> QED BY <1>1, <1>2, <1>3, <1>4

\* Requests g of client c, read at time t, may follow what the server has accepted.
Follow(c, t, g) ==
    LET q == pending_client_requests_ \o Stamped(c, t, g)
    IN  Ordered(q) /\ Continues(sequenced, q)

\* Those accepted from a socket do, whether or not there is room for them.
LEMMA AcceptedFollow ==
    ASSUME Shape, RequestInv, NEW s \in Sockets, NEW c, c = s[1],
           NEW g, g = WholeAccepted(s), NEW T, T = RxTime(server_rx[s])
    PROVE  /\ c \in Clients /\ g \in Seq(RequestMsg) /\ (Len(g) # 0 => T \in Nat)
           /\ \A k \in 1 .. Len(g) : g[k].n \in 1 .. requested[c]
           /\ Follow(c, T, g)
  <1>1. c \in Clients
    BY SocketTypes
  <1>2. PICK q \in Seq(Packet) : q = server_rx[s]
    BY SocketTypes
  <1>3. PICK req \in Nat : req = requested[c]
    BY <1>1, ClientTypes
  <1>4. TakenInv(c) /\ RxInv(c, s) /\ PendingInv
    BY <1>1 DEF RequestInv
  <1>5. clock \in Nat /\ RxOk(q, req, clock)
    BY <1>2, <1>3, <1>4 DEF RxInv, Shape
  <1>6. /\ g \in Seq(RequestMsg) /\ Len(g) \in 0 .. Len(q)
        /\ \A i \in 1 .. Len(g) : \E k \in 1 .. Len(q) : g[i] = q[k].msg
        /\ Len(g) # 0 => cid_tcp_socket_[c] \in {NoSocket, s}
    BY <1>2, AcceptedIs
  <1>7. /\ \A i, j \in 1 .. Len(g) : i < j => g[i].n < g[j].n
        /\ Len(q) # 0 => T \in 0 .. clock
        /\ \A k \in 1 .. Len(q) : q[k].time <= T
    BY <1>2, <1>3, <1>5, AcceptedGrow
  <1>8. /\ Len(q) \in Nat
        /\ \A i \in 1 .. Len(q) : q[i].msg.n \in Nat /\ q[i].time \in Nat
    BY PacketFields
  <1>9. Len(g) # 0 => T \in Nat /\ Len(q) # 0
    BY <1>6, <1>7, <1>8
  <1>10. ASSUME NEW k \in 1 .. Len(g)
         PROVE  /\ g[k].n \in 1 .. req
                /\ \A n \in Nat : Taken(c, n) => n < g[k].n /\ cid_tcp_socket_[c] = s
    <2>1. PICK i \in 1 .. Len(q) : g[k] = q[i].msg
      BY <1>6
    <2>2. g[k].n \in 1 .. req
      BY <2>1, <1>5 DEF RxOk
    <2>3. ASSUME NEW n \in Nat, Taken(c, n) PROVE n < g[k].n /\ cid_tcp_socket_[c] = s
      <3>1. Len(g) # 0
        BY <1>6, <1>8
      <3>2. cid_tcp_socket_[c] = s /\ BeforeRx(n, q)
        BY <2>3, <3>1, <1>2, <1>4, <1>6 DEF TakenInv
      <3> QED BY <3>2, <2>1 DEF BeforeRx
    <2> QED BY <2>2, <2>3
  <1>11. ASSUME NEW i \in 1 .. Len(pending_client_requests_), NEW k \in 1 .. Len(g),
                pending_client_requests_[i].request_[1] = c
         PROVE  /\ pending_client_requests_[i].request_[2] < g[k].n
                /\ pending_client_requests_[i].recv_time_ <= T
    <2>1. /\ pending_client_requests_[i].request_[2] \in Nat
          /\ Taken(c, pending_client_requests_[i].request_[2])
          /\ pending_client_requests_[i].recv_time_ \in Nat
      BY <1>11, PendingTaken
    <2>2. pending_client_requests_[i].request_[2] < g[k].n /\ cid_tcp_socket_[c] = s
      BY <2>1, <1>10
    <2>3. OnTime(c, pending_client_requests_[i].recv_time_)
      BY <1>4, <1>11 DEF PendingInv
    <2>4. 1 \in 1 .. Len(q)
      BY <1>6, <1>8
    <2>5. pending_client_requests_[i].recv_time_ <= q[1].time
      BY <2>2, <2>3, <2>4, <1>2 DEF OnTime
    <2>6. q[1].time <= T /\ q[1].time \in Nat /\ T \in Nat
      BY <2>4, <1>7, <1>8
    <2> QED BY <2>1, <2>2, <2>5, <2>6
  <1>12. ASSUME NEW i \in 1 .. Len(sequenced), NEW k \in 1 .. Len(g), sequenced[i][1] = c
         PROVE  sequenced[i][2] < g[k].n
    BY <1>10, <1>12, PendingTaken
  <1>13. /\ Ordered(pending_client_requests_) /\ Continues(sequenced, pending_client_requests_)
         /\ pending_client_requests_ \in Seq(PendingRequest) /\ sequenced \in Seq(Item)
    BY <1>4 DEF PendingInv, Shape
  <1>14. Follow(c, T, g)
    BY <1>1, <1>6, <1>7, <1>9, <1>11, <1>12, <1>13, PendingMore DEF Follow
  <1> QED BY <1>1, <1>3, <1>6, <1>9, <1>10, <1>14

\* What the order server accepts comes after all it has taken from the client.
LEMMA RequestsOfRound ==
    ASSUME Shape, RequestInv, WholeServerSendAndRecv
    PROVE  RequestInv'
  <1>1. PICK s \in Sockets :
           /\ server_rx' = [server_rx EXCEPT ![s] = <<>>]
           /\ cid_tcp_socket_' = [cid_tcp_socket_ EXCEPT ![s[1]] =
                  IF server_rx[s] # <<>> /\ @ = NoSocket THEN s ELSE @]
           /\ cid_next_exp_seq_num_' =
                  [cid_next_exp_seq_num_ EXCEPT ![s[1]] = @ + Len(WholeAccepted(s))]
           /\ pending_client_requests_' = pending_client_requests_ \o
                  Stamped(s[1], RxTime(server_rx[s]), WholeAccepted(s))
           /\ Len(WholeAccepted(s)) # 0 => RxTime(server_rx[s]) \in Nat
    BY ServerRound
  <1>2. PICK c \in Clients : c = s[1]
    BY SocketTypes
  <1>3. PICK g \in Seq(RequestMsg) : g = WholeAccepted(s)
    BY AcceptedIs
  <1>4. PICK q \in Seq(Packet) : q = server_rx[s]
    BY SocketTypes
  <1>5. PICK T : T = RxTime(q)
    OBVIOUS
  <1>6. PICK e \in Nat : e = cid_next_exp_seq_num_[c]
    BY ClientTypes
  <1>7. PICK k0 \in Sockets \cup {NoSocket} : k0 = cid_tcp_socket_[c]
    BY ClientTypes
  <1>8. PICK req \in Nat : req = requested[c]
    BY ClientTypes
  <1>u. UNCHANGED <<load, conn, requested, next_outgoing_seq_num_, client_outbound,
                    clock, sequenced>>
    BY DEF WholeServerSendAndRecv, clientVars, engineVars
  <1>9. /\ \A r \in Sockets : server_rx'[r] = IF r = s THEN <<>> ELSE server_rx[r]
        /\ \A d \in Clients :
               /\ cid_tcp_socket_'[d] =
                      IF d = c /\ q # <<>> /\ k0 = NoSocket THEN s ELSE cid_tcp_socket_[d]
               /\ cid_next_exp_seq_num_'[d] = IF d = c THEN e + Len(g)
                                              ELSE cid_next_exp_seq_num_[d]
    <2>1. /\ server_rx \in [Sockets -> Seq(Packet)]
          /\ cid_tcp_socket_ \in [Clients -> Sockets \cup {NoSocket}]
          /\ cid_next_exp_seq_num_ \in [Clients -> Nat]
      BY DEF Shape
    <2>2. \A r \in Sockets : server_rx'[r] = IF r = s THEN <<>> ELSE server_rx[r]
      BY <2>1, <1>1
    <2>3. \A d \in Clients :
              cid_tcp_socket_'[d] =
                      IF d = c /\ q # <<>> /\ k0 = NoSocket THEN s ELSE cid_tcp_socket_[d]
      BY <2>1, <1>1, <1>2, <1>4, <1>7
    <2>4. \A d \in Clients :
              cid_next_exp_seq_num_'[d] = IF d = c THEN e + Len(g)
                                          ELSE cid_next_exp_seq_num_[d]
      BY <2>1, <1>1, <1>2, <1>3, <1>6
    <2> QED BY <2>2, <2>3, <2>4
  <1>10. pending_client_requests_' = pending_client_requests_ \o Stamped(c, T, g)
    BY <1>1, <1>2, <1>3, <1>4, <1>5
  <1>11. OutInv(c) /\ TakenInv(c) /\ RxInv(c, s) /\ PendingInv
    BY <1>2 DEF RequestInv
  <1>12. clock \in Nat /\ RxOk(q, req, clock) /\ Later(q, client_outbound[c])
    BY <1>4, <1>8, <1>11 DEF RxInv, Shape
  <1>13. /\ Len(g) \in 0 .. Len(q)
         /\ \A i \in 1 .. Len(g) : \E k \in 1 .. Len(q) : g[i] = q[k].msg
         /\ Len(g) # 0 => k0 \in {NoSocket, s}
    BY <1>2, <1>3, <1>4, <1>7, AcceptedIs
  <1>14. /\ \A i, j \in 1 .. Len(g) : i < j => g[i].n < g[j].n
         /\ Len(q) # 0 => T \in 0 .. clock
         /\ \A k \in 1 .. Len(q) : q[k].time <= T
         /\ e + Len(g) - 1 <= req \/ Len(g) = 0
    BY <1>2, <1>3, <1>4, <1>5, <1>6, <1>12, AcceptedGrow
  <1>15. /\ Len(q) \in Nat /\ (Len(q) # 0 => q # <<>>)
         /\ \A i \in 1 .. Len(q) : q[i].msg.n \in Nat /\ q[i].time \in Nat
    BY PacketFields
  \* The new ones.
  <1>16. ASSUME NEW k \in 1 .. Len(g)
         PROVE  /\ q # <<>> /\ k0 \in {NoSocket, s} /\ Len(q) # 0
                /\ cid_tcp_socket_'[c] = s
                /\ g[k].n \in 1 .. req
                /\ BeforeOut(g[k].n, client_outbound[c])
                /\ \A n \in Nat : Taken(c, n) => n < g[k].n /\ k0 = s
    <2>1. PICK i \in 1 .. Len(q) : g[k] = q[i].msg
      BY <1>13
    <2>2. q # <<>> /\ k0 \in {NoSocket, s} /\ Len(q) # 0
      BY <1>13, <1>15
    <2>3. cid_tcp_socket_'[c] = s
      BY <2>2, <1>7, <1>9
    <2>4. g[k].n \in 1 .. req
      BY <2>1, <1>12 DEF RxOk
    <2>5. BeforeOut(g[k].n, client_outbound[c])
      BY <2>1, <1>12 DEF Later, BeforeOut
    <2>6. ASSUME NEW n \in Nat, Taken(c, n) PROVE n < g[k].n /\ k0 = s
      <3>1. k0 = s /\ BeforeRx(n, q)
        BY <2>2, <2>6, <1>4, <1>7, <1>11 DEF TakenInv
      <3> QED BY <3>1, <2>1 DEF BeforeRx
    <2> QED BY <2>2, <2>3, <2>4, <2>5, <2>6
  <1>17. ASSUME NEW d \in Clients PROVE OutInv(d)'
    BY <1>u DEF RequestInv, OutInv
  <1>18. ASSUME NEW r \in Sockets PROVE RxInv(r[1], r)'
    <2>1. RxInv(r[1], r)
      BY DEF RequestInv
    <2>2. CASE r = s
      <3>1. /\ \A x, y : RxOk(<<>>, x, y) /\ Later(<<>>, x) /\ Higher(<<>>, x, y)
        BY DEF RxOk, Later, Higher
      <3>2. server_rx'[r] = <<>>
        BY <2>2, <1>9
      <3> QED BY <3>1, <3>2 DEF RxInv
    <2>3. CASE r # s
      BY <2>1, <2>3, <1>u, <1>9 DEF RxInv
    <2> QED BY <2>2, <2>3
  <1>19. /\ pending_client_requests_ \in Seq(PendingRequest)
         /\ Stamped(c, T, g) \in Seq(PendingRequest)
         /\ Len(Stamped(c, T, g)) = Len(g)
         /\ \A k \in 1 .. Len(g) : /\ Stamped(c, T, g)[k].recv_time_ = T
                                   /\ Stamped(c, T, g)[k].request_ = <<c, g[k].n>>
         /\ IsJoin(pending_client_requests_', pending_client_requests_, Stamped(c, T, g))
    <2>1. pending_client_requests_ \in Seq(PendingRequest)
      BY DEF Shape
    <2>2. Len(g) # 0 => T \in Nat
      BY <1>13, <1>14, <1>15
    <2>3. /\ Stamped(c, T, g) \in Seq(PendingRequest)
          /\ Len(Stamped(c, T, g)) = Len(g)
          /\ \A k \in 1 .. Len(g) : /\ Stamped(c, T, g)[k].recv_time_ = T
                                    /\ Stamped(c, T, g)[k].request_ = <<c, g[k].n>>
      BY <2>2, StampedIs
    <2>4. IsJoin(pending_client_requests_', pending_client_requests_, Stamped(c, T, g))
      BY <2>1, <2>3, <1>10, Joined
    <2> QED BY <2>1, <2>3, <2>4
  <1> DEFINE L == Len(pending_client_requests_)
  <1>20. /\ L \in Nat
         /\ \A i \in 1 .. L : pending_client_requests_'[i] = pending_client_requests_[i]
         /\ \A i \in 1 .. Len(pending_client_requests_') : i \notin 1 .. L =>
                /\ i - L \in 1 .. Len(g)
                /\ pending_client_requests_'[i].recv_time_ = T
                /\ pending_client_requests_'[i].request_ = <<c, g[i - L].n>>
    <2> DEFINE a == Stamped(c, T, g)
    <2>1. /\ Len(a) = Len(g)
          /\ \A k \in 1 .. Len(g) : a[k].recv_time_ = T /\ a[k].request_ = <<c, g[k].n>>
          /\ IsJoin(pending_client_requests_', pending_client_requests_, a)
      BY <1>19
    <2> HIDE DEF a
    <2>2. /\ L \in Nat
          /\ \A i \in 1 .. L : pending_client_requests_'[i] = pending_client_requests_[i]
          /\ \A i \in 1 .. Len(pending_client_requests_') : i \notin 1 .. L =>
                 i - L \in 1 .. Len(a) /\ pending_client_requests_'[i] = a[i - L]
      BY <2>1 DEF IsJoin
    <2> HIDE DEF L
    <2> QED BY <2>1, <2>2
  <1>21. ASSUME NEW d \in Clients, NEW n \in Nat, Taken(d, n)'
         PROVE  Taken(d, n) \/ (d = c /\ \E k \in 1 .. Len(g) : n = g[k].n)
    <2>1. CASE \E i \in 1 .. Len(sequenced) : sequenced[i] = <<d, n>>
      BY <2>1 DEF Taken
    <2>2. CASE \E i \in 1 .. Len(pending_client_requests_') :
                   pending_client_requests_'[i].request_ = <<d, n>>
      <3>1. PICK i \in 1 .. Len(pending_client_requests_') :
                pending_client_requests_'[i].request_ = <<d, n>>
        BY <2>2
      <3>2. CASE i \in 1 .. L
        BY <3>1, <3>2, <1>20 DEF Taken
      <3>3. CASE i \notin 1 .. L
        <4>1. i - L \in 1 .. Len(g) /\ <<d, n>> = <<c, g[i - L].n>>
          BY <3>1, <3>3, <1>20
        <4> QED BY <4>1
      <3> QED BY <3>2, <3>3
    <2> QED BY <2>1, <2>2, <1>21, <1>u DEF Taken
  <1>22. ASSUME NEW d \in Clients PROVE TakenInv(d)'
    <2>1. TakenInv(d)
      BY DEF RequestInv
    <2>2. cid_next_exp_seq_num_'[d] \in 1 .. requested'[d] + 1
      <3>1. CASE d = c
        <4>1. e \in 1 .. req + 1
          BY <1>6, <1>8, <1>11 DEF TakenInv
        <4>2. e + Len(g) \in 1 .. req + 1
          BY <4>1, <1>13, <1>14, <1>15
        <4> QED BY <3>1, <4>2, <1>8, <1>9, <1>u
      <3>2. CASE d # c
        BY <2>1, <3>2, <1>9, <1>u DEF TakenInv
      <3> QED BY <3>1, <3>2
    <2>3. cid_tcp_socket_'[d] # NoSocket =>
              /\ cid_tcp_socket_'[d] \in Sockets
              /\ cid_tcp_socket_'[d][1] = d /\ cid_tcp_socket_'[d][2] <= conn'[d]
      <3>1. CASE d = c /\ q # <<>> /\ k0 = NoSocket
        <4>1. s[2] <= conn[c]
          BY <3>1, <1>2, <1>4, <1>11, ClientTypes, SocketTypes DEF RxInv
        <4> QED BY <3>1, <4>1, <1>2, <1>9, <1>u
      <3>2. CASE ~(d = c /\ q # <<>> /\ k0 = NoSocket)
        BY <2>1, <3>2, <1>9, <1>u DEF TakenInv
      <3> QED BY <3>1, <3>2
    <2>4. ASSUME NEW n \in Nat, Taken(d, n)'
          PROVE  /\ cid_tcp_socket_'[d] # NoSocket
                 /\ n \in 1 .. requested'[d]
                 /\ BeforeRx(n, server_rx'[cid_tcp_socket_'[d]])
                 /\ BeforeOut(n, client_outbound'[d])
      <3>0. BeforeRx(n, <<>>)
        BY DEF BeforeRx
      <3>1. CASE Taken(d, n)
        <4>1. /\ cid_tcp_socket_[d] \in Sockets /\ cid_tcp_socket_[d] # NoSocket
              /\ n \in 1 .. requested[d]
              /\ BeforeRx(n, server_rx[cid_tcp_socket_[d]])
              /\ BeforeOut(n, client_outbound[d])
          BY <2>1, <3>1 DEF TakenInv
        <4>2. cid_tcp_socket_'[d] = cid_tcp_socket_[d]
          BY <4>1, <1>7, <1>9
        <4> QED BY <3>0, <4>1, <4>2, <1>9, <1>u
      <3>2. CASE d = c /\ \E k \in 1 .. Len(g) : n = g[k].n
        <4>1. PICK k \in 1 .. Len(g) : n = g[k].n
          BY <3>2
        <4>2. /\ cid_tcp_socket_'[c] = s /\ n \in 1 .. req
              /\ BeforeOut(n, client_outbound[c])
          BY <4>1, <1>16
        <4>3. server_rx'[s] = <<>> /\ s # NoSocket
          BY <1>9, SocketTypes
        <4> QED BY <3>0, <3>2, <4>2, <4>3, <1>8, <1>u
      <3> QED BY <2>4, <3>1, <3>2, <1>21
    <2> QED BY <2>2, <2>3, <2>4 DEF TakenInv
  <1>23. Ordered(pending_client_requests_') /\ Continues(sequenced, pending_client_requests_')
    <2>1. Follow(c, T, g)
      BY <1>2, <1>3, <1>4, <1>5, AcceptedFollow
    <2> QED BY <2>1, <1>10 DEF Follow
  <1>24. ASSUME NEW i \in 1 .. Len(pending_client_requests_'),
                NEW d \in Clients, NEW u \in Nat,
                d = pending_client_requests_'[i].request_[1],
                u = pending_client_requests_'[i].recv_time_
         PROVE  OnTime(d, u)'
    <2>1. CASE i \in 1 .. L
      <3>1. /\ d = pending_client_requests_[i].request_[1]
            /\ u = pending_client_requests_[i].recv_time_
        BY <2>1, <1>20, <1>24
      <3>2. OnTime(d, u) /\ cid_tcp_socket_[d] \in Sockets
        BY <2>1, <3>1, <1>11, PendingTaken DEF PendingInv
      <3>3. cid_tcp_socket_'[d] = cid_tcp_socket_[d]
        BY <3>2, <1>7, <1>9, SocketTypes
      <3>4. server_rx'[cid_tcp_socket_[d]] \in {<<>>, server_rx[cid_tcp_socket_[d]]}
        BY <3>2, <1>9
      <3> QED BY <3>2, <3>3, <3>4, <1>u DEF OnTime
    <2>2. CASE i \notin 1 .. L
      <3>1. /\ i - L \in 1 .. Len(g) /\ u = T /\ d = c
        BY <2>2, <1>20, <1>24
      <3>2. cid_tcp_socket_'[c] = s /\ Len(q) # 0
        BY <3>1, <1>16
      <3>3. u <= clock /\ server_rx'[s] = <<>>
        BY <3>1, <3>2, <1>9, <1>14
      <3> QED BY <3>1, <3>2, <3>3, <1>u DEF OnTime
    <2> QED BY <2>1, <2>2
  <1>25. PendingInv'
    <2>1. \A i \in 1 .. Len(pending_client_requests_') :
              OnTime(pending_client_requests_[i].request_[1],
                     pending_client_requests_[i].recv_time_)'
      <3> TAKE i \in 1 .. Len(pending_client_requests_')
      <3>1. /\ pending_client_requests_'[i].request_[1] \in Clients
            /\ pending_client_requests_'[i].recv_time_ \in Nat
        <4>1. pending_client_requests_' \in Seq(PendingRequest)
          BY <1>10, <1>19, Joined
        <4> QED BY <4>1, PendingFields
      <3>2. PICK d \in Clients : d = pending_client_requests_'[i].request_[1]
        BY <3>1
      <3>3. PICK u \in Nat : u = pending_client_requests_'[i].recv_time_
        BY <3>1
      <3>4. OnTime(d, u)'
        BY <1>24, <3>2, <3>3
      <3> QED BY <3>2, <3>3, <3>4 DEF OnTime
    <2> QED BY <2>1, <1>23, <1>u DEF PendingInv
  <1>26. RequestsOnce'
    BY <1>u DEF RequestInv, RequestsOnce
  <1> QED BY <1>17, <1>18, <1>22, <1>25, <1>26 DEF RequestInv

\* The sequencer hands on all that is pending.
LEMMA RequestsOfPublish ==
    ASSUME Shape, RequestInv, SequenceAndPublish
    PROVE  /\ RequestInv'
           /\ Ascending /\ Len(pending_client_requests_) <= StableSize => Ascending'
  <1>1. PICK p \in Sortings(pending_client_requests_) :
            /\ p \in [1 .. Len(pending_client_requests_) -> 1 .. Len(pending_client_requests_)]
            /\ sequenced' = sequenced \o Batch(pending_client_requests_, p)
    BY Published
  <1>2. /\ UNCHANGED <<load, conn, requested, next_outgoing_seq_num_, client_outbound,
                       server_rx, clock, cid_tcp_socket_, cid_next_exp_seq_num_>>
        /\ pending_client_requests_' = <<>>
    BY DEF SequenceAndPublish, clientVars, kernelVars
  <1>3. PICK q \in Seq(PendingRequest) : q = pending_client_requests_
    BY DEF Shape
  <1>4. PICK h \in Seq(Item) : h = sequenced
    BY DEF Shape
  <1>5. /\ Ordered(q) /\ Continues(h, q) /\ Once(h)
    BY <1>3, <1>4 DEF RequestInv, PendingInv, RequestsOnce, Once
  <1>6. PICK g : g = h \o Batch(q, p)
    OBVIOUS
  <1>7. sequenced' = g
    BY <1>1, <1>3, <1>4, <1>6
  <1>8. Once(g) /\ (InOrder(h) /\ Len(q) <= StableSize => InOrder(g))
    BY <1>1, <1>3, <1>5, <1>6, BatchContinues
  <1>9. ASSUME NEW d \in Clients, NEW n \in Nat, Taken(d, n)' PROVE Taken(d, n)
    <2>1. PICK i \in 1 .. Len(g) : g[i] = <<d, n>>
      BY <1>2, <1>7, <1>9 DEF Taken
    <2>2. /\ Batch(q, p) \in Seq(Item) /\ Len(Batch(q, p)) = Len(q)
          /\ \A k \in 1 .. Len(q) :
                 p[k] \in 1 .. Len(q) /\ Batch(q, p)[k] = q[p[k]].request_
      BY <1>1, <1>3, BatchIs
    <2>3. IsJoin(g, h, Batch(q, p))
      BY <2>2, <1>6, Joined
    <2>4. CASE i \in 1 .. Len(h)
      BY <2>1, <2>3, <2>4, <1>4 DEF IsJoin, Taken
    <2>5. CASE i \notin 1 .. Len(h)
      <3>1. i - Len(h) \in 1 .. Len(q) /\ g[i] = Batch(q, p)[i - Len(h)]
        BY <2>2, <2>3, <2>5 DEF IsJoin
      <3>2. p[i - Len(h)] \in 1 .. Len(q) /\ <<d, n>> = q[p[i - Len(h)]].request_
        BY <2>1, <2>2, <3>1
      <3> QED BY <3>2, <1>3 DEF Taken
    <2> QED BY <2>4, <2>5
  <1>10. ASSUME NEW d \in Clients PROVE OutInv(d)' /\ TakenInv(d)'
    <2>1. OutInv(d) /\ TakenInv(d)
      BY DEF RequestInv
    <2>2. OutInv(d)'
      BY <2>1, <1>2 DEF OutInv
    <2> QED BY <2>1, <2>2, <1>2, <1>9 DEF TakenInv
  <1>11. ASSUME NEW s \in Sockets PROVE RxInv(s[1], s)'
    BY <1>2 DEF RequestInv, RxInv
  <1>12. PendingInv'
    BY <1>2 DEF PendingInv, Ordered, Continues
  <1>13. RequestsOnce'
    BY <1>7, <1>8 DEF Once, RequestsOnce
  <1>14. RequestInv'
    BY <1>10, <1>11, <1>12, <1>13 DEF RequestInv
  <1>15. ASSUME Ascending, Len(pending_client_requests_) <= StableSize
         PROVE  Ascending'
    <2>1. InOrder(h) /\ Len(q) <= StableSize
      BY <1>3, <1>4, <1>15 DEF Ascending, InOrder
    <2> QED BY <2>1, <1>7, <1>8 DEF Ascending, InOrder
  <1> QED BY <1>14, <1>15

\* Every step keeps the requests in their places.
LEMMA RequestsKept ==
    ASSUME Shape, RequestInv, [WholeNext]_vars
    PROVE  /\ RequestInv'
           /\ Ascending /\ Len(pending_client_requests_) <= StableSize => Ascending'
  <1>1. ASSUME NEW c \in Clients, Start(c) PROVE RequestInv' /\ sequenced' = sequenced
    BY <1>1, RequestsOfStart DEF Start, engineVars
  <1>2. ASSUME NEW c \in Clients, SendRequest(c) PROVE RequestInv' /\ sequenced' = sequenced
    BY <1>2, RequestsOfSend DEF SendRequest, engineVars
  <1>3. ASSUME NEW c \in Clients, WholeClientSendAndRecv(c)
        PROVE  RequestInv' /\ sequenced' = sequenced
    BY <1>3, RequestsOfClient DEF WholeClientSendAndRecv, engineVars
  <1>4. CASE WholeServerSendAndRecv
    <2>1. RequestInv' /\ sequenced' = sequenced
      BY <1>4, RequestsOfRound DEF WholeServerSendAndRecv, engineVars
    <2> QED BY <2>1 DEF Ascending
  <1>5. CASE SequenceAndPublish
    BY <1>5, RequestsOfPublish
  <1>6. CASE Poll \/ WholeTooManyPending \/ NothingReceived \/ SendResponse \/ NextRound \/ EngineStep
             \/ EngineFatal \/ UNCHANGED vars
    <2>1. UNCHANGED <<load, conn, requested, next_outgoing_seq_num_, client_outbound,
                      server_rx, clock, cid_tcp_socket_, cid_next_exp_seq_num_,
                      pending_client_requests_, sequenced>>
      BY <1>6 DEF Poll, WholeTooManyPending, NothingReceived, SendResponse, NextRound, EngineStep,
                  EngineFatal, vars, clientVars, kernelVars, serverVars, engineVars
    <2>2. RequestInv' /\ sequenced' = sequenced
      BY <2>1, RequestsFrame
    <2> QED BY <2>2 DEF Ascending
  <1>7. sequenced' = sequenced /\ Ascending => Ascending'
    BY DEF Ascending
  <1> QED BY <1>1, <1>2, <1>3, <1>4, <1>5, <1>6, <1>7 DEF WholeNext, WholeServer

-----------------------------------------------------------------------------
(* While no send has been cut inside a record, every step is one of whole  *)
(* records.                                                                *)

\* No record is torn.
LEMMA NoneTorn ==
    ASSUME NEW msgs, \A k \in 1 .. Len(msgs) : msgs[k].seq_num_ # 0
    PROVE  TornIn(msgs) = 0
  <1>1. {k \in 1 .. Len(msgs) : msgs[k].seq_num_ = 0} = {}
    OBVIOUS
  <1> QED BY <1>1, FS_EmptySet DEF TornIn

\* Of one client's messages none is passed over for its client.
LEMMA OwnInSequence ==
    ASSUME NEW c, NEW msgs, NEW exp, \A k \in 1 .. Len(msgs) : msgs[k].client_id_ = c
    PROVE  InSequence(c, msgs, exp) = Consecutive(msgs, exp)
  <1> DEFINE own == {k \in 1 .. Len(msgs) : msgs[k].seq_num_ >= exp /\ msgs[k].client_id_ = c}
  <1>1. own = FromOn(msgs, exp)
    BY DEF FromOn
  <1>2. InSequence(c, msgs, exp) = Picked(own, msgs, exp)
    BY Zenon DEF InSequence, Picked
  <1>3. Consecutive(msgs, exp) = Picked(FromOn(msgs, exp), msgs, exp)
    BY DEF Consecutive
  <1> HIDE DEF own
  <1> QED BY <1>1, <1>2, <1>3

\* A send that cuts no record sends whole ones.
LEMMA WholeSent ==
    ASSUME NEW stream, NEW buffer, NEW part \in SentParts(buffer), Unbroken,
           Cut(stream, part) = {}
    PROVE  part.whole \in WholeParts(buffer) /\ Framed(stream, part) = {part.whole}
  <1>1. ~part.piece
    BY DEF Cut
  <1>2. Framed(stream, part) = {part.whole}
    BY DEF Framed, Unbroken
  <1>3. CASE load.send_may_fail
    BY <1>2, <1>3 DEF SentParts, WholeParts
  <1>4. CASE ~load.send_may_fail
    BY <1>2, <1>4 DEF SentParts, WholeParts
  <1> QED BY <1>3, <1>4

\* The client's.
LEMMA WholeClientStep ==
    ASSUME Shape, Own, Unbroken, Unbroken', NEW c \in Clients, ClientSendAndRecv(c)
    PROVE  WholeClientSendAndRecv(c)
  <1>1. PICK s \in Sockets : s = <<c, conn[c]>>
    <2>1. conn[c] \in 1 .. MaxRestarts + 1
      <3>1. conn[c] \in 0 .. MaxRestarts + 1 /\ MaxRestarts \in Nat
        BY GatewayAssumption DEF Shape
      <3>2. conn[c] > 0
        BY DEF ClientSendAndRecv
      <3> QED BY ONLY <3>1, <3>2
    <2> QED BY <2>1 DEF Sockets
  <1>2. PICK q \in Seq(ResponseMsg) : q = client_rx[s]
    BY DEF Shape
  <1>3. OwnOf(c, q)
    BY <1>1, <1>2 DEF Own
  <1>4. TornIn(q) = 0 /\ InSequence(c, q, next_exp_seq_num_[c]) = Consecutive(q, next_exp_seq_num_[c])
    BY <1>3, NoneTorn, OwnInSequence DEF OwnOf
  <1>5. PICK good : good = Consecutive(q, next_exp_seq_num_[c])
    OBVIOUS
  <1>6. /\ Len(good) \in Nat /\ next_exp_seq_num_[c] \in Nat
        /\ [k \in 1 .. Len(good) |-> good[k].n] \in Seq(Nat)
        /\ answers[c] \in Seq(Nat)
    <2>1. \A k \in 1 .. Len(q) : q[k].seq_num_ \in Nat
      <3>1. \A k \in 1 .. Len(q) : q[k] \in ResponseMsg
        BY <1>2
      <3> QED BY <3>1 DEF ResponseMsg
    <2>2. next_exp_seq_num_[c] \in Nat /\ answers[c] \in Seq(Nat)
      BY DEF Shape
    <2>3. good \in Seq(ResponseMsg)
      BY <1>5, <2>1, <2>2, <1>2, ConsecutiveIs
    <2>4. Len(good) \in Nat /\ \A k \in 1 .. Len(good) : good[k].n \in Nat
      <3>1. Len(good) \in Nat /\ \A k \in 1 .. Len(good) : good[k] \in ResponseMsg
        BY <2>3
      <3> QED BY <3>1 DEF ResponseMsg
    <2> QED BY <2>2, <2>4, Listed
  <1>7. PICK misread \in 0 .. 0 :
            /\ answers' = [answers EXCEPT ![c] =
                   @ \o [k \in 1 .. Len(good) |-> good[k].n] \o [k \in 1 .. misread |-> Garbled]]
            /\ misnumbered' = (misnumbered \/ Len(good) + misread < Len(q))
            /\ next_exp_seq_num_' = [next_exp_seq_num_ EXCEPT ![c] = @ + Len(good) + misread]
    BY <1>1, <1>2, <1>4, <1>5 DEF ClientSendAndRecv
  <1>8. misread = 0
    OBVIOUS
  <1>9. \A a, b \in Seq(Nat) : a \o b \o [k \in 1 .. 0 |-> Garbled] = a \o b
    OBVIOUS
  <1>10. /\ answers' = [answers EXCEPT ![c] = @ \o [k \in 1 .. Len(good) |-> good[k].n]]
         /\ misnumbered' = (misnumbered \/ Len(good) < Len(q))
         /\ next_exp_seq_num_' = [next_exp_seq_num_ EXCEPT ![c] = @ + Len(good)]
    <2>1. answers' = [answers EXCEPT ![c] = @ \o [k \in 1 .. Len(good) |-> good[k].n]]
      BY <1>6, <1>7, <1>8, <1>9
    <2>2. Len(good) + misread = Len(good)
      BY <1>6, <1>8
    <2>3. next_exp_seq_num_[c] + Len(good) + misread = next_exp_seq_num_[c] + Len(good)
      BY <1>6, <1>8
    <2> QED BY <2>1, <2>2, <2>3, <1>7
  <1>11. PICK part \in SentParts(client_outbound[c]) :
            /\ \E sent \in Framed(<<"requests", s>>, part) :
                /\ clock' = clock + Len(sent)
                /\ server_rx' = [server_rx EXCEPT ![s] = @ \o
                       [k \in 1 .. Len(sent) |-> [msg |-> sent[k], time |-> clock + k]]]
            /\ cut' = Cut(<<"requests", s>>, part)
    BY <1>1 DEF ClientSendAndRecv
  <1>12. /\ part.whole \in WholeParts(client_outbound[c])
         /\ Framed(<<"requests", s>>, part) = {part.whole}
    BY <1>11, WholeSent DEF Unbroken
  <1>13. \E sent \in WholeParts(client_outbound[c]) :
            /\ clock' = clock + Len(sent)
            /\ server_rx' = [server_rx EXCEPT ![s] = @ \o
                   [k \in 1 .. Len(sent) |-> [msg |-> sent[k], time |-> clock + k]]]
    BY <1>11, <1>12
  <1>14. cut' = cut
    BY DEF Unbroken
  <1>15. /\ conn[c] > 0
         /\ client_rx' = [client_rx EXCEPT ![s] = <<>>]
         /\ client_outbound' = [client_outbound EXCEPT ![c] = <<>>]
         /\ UNCHANGED <<load, conn, requested, next_outgoing_seq_num_, serverVars, engineVars>>
    BY <1>1 DEF ClientSendAndRecv
  <1> QED BY <1>1, <1>2, <1>5, <1>10, <1>13, <1>14, <1>15 DEF WholeClientSendAndRecv

\* What the server reads.
LEMMA WholeArrived ==
    ASSUME Shape, Own, NEW s \in Sockets
    PROVE  /\ TornIn(Arrived(s)) = 0
           /\ Accepted(s) = WholeAccepted(s)
           /\ Len(Arrived(s)) = Len(server_rx[s])
  <1>1. PICK q \in Seq(Packet) : q = server_rx[s]
    BY DEF Shape
  <1>2. PICK msgs : msgs = [k \in 1 .. Len(q) |-> q[k].msg]
    OBVIOUS
  <1>3. Len(q) \in Nat /\ \A k \in 1 .. Len(q) : q[k].msg \in RequestMsg
    <2>1. Len(q) \in Nat /\ \A k \in 1 .. Len(q) : q[k] \in Packet
      BY <1>1
    <2> QED BY <2>1 DEF Packet
  <1>4. Len(msgs) = Len(q)
    BY <1>2, <1>3, Listed
  <1>5. OwnPackets(s[1], q) /\ s[1] \in Clients
    BY <1>1, SocketIs DEF Own
  <1>6. \A k \in 1 .. Len(msgs) : msgs[k].client_id_ = s[1] /\ msgs[k].seq_num_ # 0
    BY <1>2, <1>4, <1>5 DEF OwnPackets
  <1>7. Arrived(s) = msgs
    BY <1>1, <1>2 DEF Arrived
  <1>8. TornIn(msgs) = 0 /\ \A e : InSequence(s[1], msgs, e) = Consecutive(msgs, e)
    BY <1>6, NoneTorn, OwnInSequence
  <1>9. Accepted(s) = WholeAccepted(s)
    BY <1>5, <1>7, <1>8 DEF Accepted, WholeAccepted, Open
  <1> QED BY <1>1, <1>4, <1>7, <1>8, <1>9

\* What it makes of it.
LEMMA WholeRequests ==
    ASSUME Shape, Own, NEW s \in Sockets, NEW misread \in Misreadings(TornIn(Arrived(s)), s)
    PROVE  /\ misread.named = {}
           /\ Requests(s, misread)
                  = [k \in 1 .. Len(WholeAccepted(s)) |-> <<s[1], WholeAccepted(s)[k].n>>]
           /\ Len(Requests(s, misread)) = Len(WholeAccepted(s))
  <1>1. /\ misread.named \in SUBSET Clients
        /\ misread.taken \in UNION {[1 .. j -> Open(s)] : j \in 0 .. 0}
        /\ Len(misread.taken)
              + Cardinality(misread.named \ {misread.taken[i] : i \in 1 .. Len(misread.taken)}) <= 0
    BY WholeArrived DEF Misreadings
  <1>2. misread.taken = <<>>
    <2>1. misread.taken \in [1 .. 0 -> Open(s)]
      BY <1>1
    <2> QED BY <2>1
  <1>3. misread.named = {}
    <2>1. misread.named \ {misread.taken[i] : i \in 1 .. Len(misread.taken)} = misread.named
      BY <1>2
    <2>2. Len(misread.taken) = 0
      BY <1>2
    <2>3. IsFiniteSet(misread.named)
      BY <1>1, GatewayAssumption, FS_Subset
    <2>4. Cardinality(misread.named) \in Nat
      BY <2>3, FS_CardinalityType
    <2>5. PICK n \in Nat : n = Cardinality(misread.named)
      BY <2>4
    <2>6. 0 + n <= 0
      BY <1>1, <2>1, <2>2, <2>5
    <2>7. n = 0
      BY <2>6
    <2> QED BY <2>3, <2>5, <2>7, FS_EmptySet
  <1>4. PICK g \in Seq(RequestMsg) : g = WholeAccepted(s)
    BY AcceptedIs
  <1>5. PICK r : r = [k \in 1 .. Len(g) |-> <<s[1], g[k].n>>]
    OBVIOUS
  <1>6. r \in Seq(Item) /\ Len(r) = Len(g)
    <2>1. s[1] \in Clients
      BY SocketIs
    <2>2. Len(g) \in Nat /\ \A k \in 1 .. Len(g) : g[k].n \in Nat
      <3>1. Len(g) \in Nat /\ \A k \in 1 .. Len(g) : g[k] \in RequestMsg
        OBVIOUS
      <3> QED BY <3>1 DEF RequestMsg
    <2> QED BY <1>5, <2>1, <2>2, Listed DEF Item
  <1>7. Requests(s, misread) = r \o [k \in 1 .. 0 |-> <<misread.taken[k], Garbled>>]
    BY <1>2, <1>4, <1>5, WholeArrived DEF Requests
  <1>8. r \o [k \in 1 .. 0 |-> <<misread.taken[k], Garbled>>] = r
    BY <1>6
  <1> QED BY <1>3, <1>4, <1>5, <1>6, <1>7, <1>8

\* The server's.
LEMMA WholeServerStep ==
    ASSUME Shape, Own, Unbroken, Unbroken', ServerSendAndRecv
    PROVE  WholeServerSendAndRecv
  <1>1. PICK s \in Sockets : s = receive_sockets_[at]
    <2>1. at \in 1 .. Len(receive_sockets_) /\ receive_sockets_ \in Seq(Sockets)
      BY DEF ServerSendAndRecv, Shape
    <2>2. receive_sockets_[at] \in Sockets
      BY <2>1
    <2> QED BY <2>2
  <1>2. PICK c \in Clients : c = s[1]
    BY SocketIs
  <1>3. PICK g \in Seq(RequestMsg) : g = WholeAccepted(s)
    BY AcceptedIs
  <1>4. Len(g) \in Nat /\ (cid_tcp_socket_[c] \notin {NoSocket, s} => g = <<>>)
    BY <1>2, <1>3 DEF WholeAccepted
  <1>5. PICK r : r = [k \in 1 .. Len(g) |-> <<c, g[k].n>>]
    OBVIOUS
  <1>6. Len(r) = Len(g)
    BY <1>4, <1>5, Listed
  <1>7. PICK named : named = IF 0 < Len(server_rx[s]) THEN {c} ELSE {}
    OBVIOUS
  <1>8. \E misread \in Misreadings(TornIn(Arrived(s)), s) :
            /\ cid_tcp_socket_' = [d \in Clients |->
                   IF d \in (misread.named \cup (IF TornIn(Arrived(s)) < Len(server_rx[s])
                                                 THEN {s[1]} ELSE {})) \cap Open(s)
                   THEN s ELSE cid_tcp_socket_[d]]
            /\ cid_next_exp_seq_num_' = [d \in Clients |->
                   cid_next_exp_seq_num_[d] + TakenOf(Requests(s, misread), d)]
            /\ pending_client_requests_' =
                   AddClientRequests(pending_client_requests_, RxTime(server_rx[s]),
                                     Requests(s, misread))
    BY <1>1 DEF ServerSendAndRecv
  <1>9. /\ cid_tcp_socket_' = [d \in Clients |->
               IF d \in named \cap Open(s) THEN s ELSE cid_tcp_socket_[d]]
        /\ cid_next_exp_seq_num_' = [d \in Clients |->
               cid_next_exp_seq_num_[d] + TakenOf(r, d)]
        /\ pending_client_requests_' =
               AddClientRequests(pending_client_requests_, RxTime(server_rx[s]), r)
    <2>1. TornIn(Arrived(s)) = 0
      BY WholeArrived
    <2>2. \A misread \in Misreadings(TornIn(Arrived(s)), s) :
              misread.named = {} /\ Requests(s, misread) = r
      BY <1>2, <1>3, <1>5, WholeRequests
    <2>3. {} \cup named = named
      OBVIOUS
    <2> QED BY <2>1, <2>2, <2>3, <1>2, <1>7, <1>8
  <1>10. server_rx[s] \in Seq(Packet)
    BY DEF Shape
  <1>11. 0 < Len(server_rx[s]) <=> server_rx[s] # <<>>
    BY <1>10
  <1>12. cid_tcp_socket_' = [cid_tcp_socket_ EXCEPT ![c] =
             IF server_rx[s] # <<>> /\ @ = NoSocket THEN s ELSE @]
    <2>1. cid_tcp_socket_ \in [Clients -> Sockets \cup {NoSocket}]
      BY DEF Shape
    <2>2. ASSUME NEW d \in Clients
          PROVE  (IF d \in named \cap Open(s) THEN s ELSE cid_tcp_socket_[d])
                     = IF d = c THEN (IF server_rx[s] # <<>> /\ cid_tcp_socket_[c] = NoSocket
                                      THEN s ELSE cid_tcp_socket_[c])
                       ELSE cid_tcp_socket_[d]
      BY <1>7, <1>11 DEF Open
    <2> QED BY <2>1, <2>2, <1>9
  <1>13. cid_next_exp_seq_num_' = [cid_next_exp_seq_num_ EXCEPT ![c] = @ + Len(g)]
    <2>1. cid_next_exp_seq_num_ \in [Clients -> Nat]
      BY DEF Shape
    <2>2. TakenOf(r, c) = Len(g)
      <3>1. {k \in 1 .. Len(r) : r[k][1] = c} = 1 .. Len(g)
        BY <1>5, <1>6
      <3>2. 1 \in Int /\ Len(g) \in Int /\ 1 <= Len(g) + 1 /\ Len(g) - 1 + 1 = Len(g)
        BY <1>4
      <3>3. Cardinality(1 .. Len(g)) = Len(g)
        BY <3>2, Interval
      <3> QED BY <3>1, <3>3 DEF TakenOf
    <2>3. ASSUME NEW d \in Clients, d # c PROVE TakenOf(r, d) = 0
      <3>1. {k \in 1 .. Len(r) : r[k][1] = d} = {}
        BY <1>5, <1>6, <2>3
      <3> QED BY <3>1, FS_EmptySet DEF TakenOf
    <2>4. \A d \in Clients :
              cid_next_exp_seq_num_[d] + TakenOf(r, d)
                  = IF d = c THEN cid_next_exp_seq_num_[c] + Len(g) ELSE cid_next_exp_seq_num_[d]
      BY <2>1, <2>2, <2>3
    <2> QED BY <2>1, <2>4, <1>9
  <1>14. pending_client_requests_' =
             AddWholeRequests(pending_client_requests_, c, RxTime(server_rx[s]), g)
    <2>1. AddClientRequests(pending_client_requests_, RxTime(server_rx[s]), r)
              = AddWholeRequests(pending_client_requests_, c, RxTime(server_rx[s]), g)
      BY <1>5, <1>6 DEF AddClientRequests, AddWholeRequests
    <2> QED BY <2>1, <1>9
  <1>15. PICK part \in SentParts(server_outbound[s]) :
            /\ \E sent \in Framed(<<"responses", s>>, part) :
                   client_rx' = [client_rx EXCEPT ![s] = @ \o sent]
            /\ cut' = Cut(<<"responses", s>>, part)
    BY <1>1 DEF ServerSendAndRecv
  <1>16. /\ part.whole \in WholeParts(server_outbound[s])
         /\ Framed(<<"responses", s>>, part) = {part.whole}
    BY <1>15, WholeSent DEF Unbroken
  <1>17. \E sent \in WholeParts(server_outbound[s]) :
            client_rx' = [client_rx EXCEPT ![s] = @ \o sent]
    BY <1>15, <1>16
  <1>18. cut' = cut
    BY DEF Unbroken
  <1>19. /\ spc = "recv" /\ at <= Len(receive_sockets_)
         /\ server_rx' = [server_rx EXCEPT ![s] = <<>>]
         /\ recv' = (recv \/ server_rx[s] # <<>>)
         /\ server_outbound' = [server_outbound EXCEPT ![s] = <<>>]
         /\ at' = at + 1
         /\ UNCHANGED <<load, clientVars, clock, spc, backlog, receive_sockets_,
                        cid_next_outgoing_seq_num_, engineVars>>
    BY <1>1 DEF ServerSendAndRecv
  <1> QED BY <1>1, <1>2, <1>3, <1>12, <1>13, <1>14, <1>17, <1>18, <1>19
          DEF WholeServerSendAndRecv

\* Any step: none finds a torn record.
LEMMA WholeStep ==
    ASSUME Shape, Own, Unbroken, Unbroken', [Next]_vars
    PROVE  [WholeNext]_vars
  <1>1. ASSUME NEW c \in Clients, ClientSendAndRecv(c) PROVE WholeNext
    BY <1>1, WholeClientStep DEF WholeNext
  <1>2. CASE ServerSendAndRecv
    BY <1>2, WholeServerStep DEF WholeNext, WholeServer
  <1>3. ASSUME spc = "recv", at <= Len(receive_sockets_)
        PROVE  receive_sockets_[at] \in Sockets
    <2>1. at \in 1 .. Len(receive_sockets_) /\ receive_sockets_ \in Seq(Sockets)
      BY <1>3 DEF Shape
    <2> QED BY <2>1
  <1>4. CASE TooManyPending
    <2>1. PICK s \in Sockets : s = receive_sockets_[at]
      BY <1>3, <1>4 DEF TooManyPending
    <2>2. PICK misread \in Misreadings(TornIn(Arrived(s)), s) : ~Fits(Requests(s, misread))
      BY <1>4, <2>1 DEF TooManyPending
    <2>3. Len(Requests(s, misread)) = Len(WholeAccepted(s))
      BY WholeRequests
    <2>4. ~Fits(WholeAccepted(receive_sockets_[at]))
      BY <2>1, <2>2, <2>3 DEF Fits
    <2> QED BY <1>4, <2>4 DEF TooManyPending, WholeTooManyPending, WholeNext, WholeServer
  <1>5. ~NoSuchClient
    <2> SUFFICES ASSUME NoSuchClient PROVE FALSE
      OBVIOUS
    <2>1. TornIn(Arrived(receive_sockets_[at])) > 0 /\ receive_sockets_[at] \in Sockets
      BY <1>3 DEF NoSuchClient
    <2>2. TornIn(Arrived(receive_sockets_[at])) = 0
      BY <2>1, WholeArrived
    <2> QED BY <2>1, <2>2
  <1> QED BY <1>1, <1>2, <1>4, <1>5 DEF Next, Server, WholeNext, WholeServer

\* A cut stays.
LEMMA CutStays == ASSUME [Next]_vars, Unbroken' PROVE Unbroken
  <1>1. \A stream, part : Cut(stream, part) = {} => cut = {}
    BY DEF Cut
  <1>2. ASSUME NEW c \in Clients, ClientSendAndRecv(c) PROVE Unbroken
    BY <1>1, <1>2 DEF ClientSendAndRecv, Unbroken
  <1>3. CASE ServerSendAndRecv
    BY <1>1, <1>3 DEF ServerSendAndRecv, Unbroken
  <1>4. cut' = cut => Unbroken
    BY DEF Unbroken
  <1>5. ASSUME NEW c \in Clients, Start(c) \/ SendRequest(c) PROVE cut' = cut
    BY <1>5 DEF Start, SendRequest, kernelVars
  <1>6. CASE Poll \/ TooManyPending \/ NoSuchClient \/ SequenceAndPublish \/ NothingReceived
             \/ SendResponse \/ NextRound \/ EngineStep \/ EngineFatal \/ UNCHANGED vars
    <2>1. cut' = cut
      BY <1>6 DEF Poll, TooManyPending, NoSuchClient, SequenceAndPublish, NothingReceived,
                  SendResponse, NextRound, EngineStep, EngineFatal, vars, kernelVars
    <2> QED BY <2>1, <1>4
  <1> QED BY <1>2, <1>3, <1>4, <1>5, <1>6 DEF Next, Server

\* At first nothing is on its way.
LEMMA InitOwn == Init => Own
  BY DEF Init, Own, OwnOf, OwnPackets

\* Every step sends messages of the right client.
LEMMA OwnKept ==
    ASSUME Shape, Own, RequestInv, [WholeNext]_vars
    PROVE  Own'
  <1>1. ASSUME NEW c \in Clients, Start(c) PROVE Own'
    <2>1. UNCHANGED <<server_rx, client_rx, server_outbound, cid_next_outgoing_seq_num_>>
      BY <1>1 DEF Start, kernelVars
    <2>2. ASSUME NEW d \in Clients PROVE OwnOf(d, client_outbound'[d])
      <3>1. client_outbound'[d] = IF d = c THEN <<>> ELSE client_outbound[d]
        BY <1>1 DEF Start, Shape
      <3> QED BY <3>1 DEF Own, OwnOf
    <2> QED BY <2>1, <2>2 DEF Own
  <1>2. ASSUME NEW c \in Clients, SendRequest(c) PROVE Own'
    <2>1. UNCHANGED <<server_rx, client_rx, server_outbound, cid_next_outgoing_seq_num_>>
      BY <1>2 DEF SendRequest, kernelVars, serverVars
    <2>2. PICK m : /\ m = [client_id_ |-> c, seq_num_ |-> next_outgoing_seq_num_[c],
                           n |-> requested[c] + 1]
                   /\ client_outbound' = [client_outbound EXCEPT ![c] = Append(@, m)]
      BY <1>2 DEF SendRequest
    <2>3. m \in RequestMsg /\ m.client_id_ = c /\ m.seq_num_ # 0
      <3>1. next_outgoing_seq_num_[c] \in Nat /\ requested[c] \in Nat
        BY DEF Shape
      <3>2. next_outgoing_seq_num_[c] # 0
        BY <3>1 DEF RequestInv, OutInv
      <3> QED BY <2>2, <3>1, <3>2 DEF RequestMsg
    <2>4. ASSUME NEW d \in Clients PROVE OwnOf(d, client_outbound'[d])
      <3>1. PICK o \in Seq(RequestMsg) : o = client_outbound[d]
        BY DEF Shape
      <3>2. client_outbound'[d] = IF d = c THEN Append(o, m) ELSE o
        BY <2>2, <3>1 DEF Shape
      <3>3. OwnOf(d, o)
        BY <3>1 DEF Own
      <3>4. OwnOf(c, o) => OwnOf(c, Append(o, m))
        BY <2>3, OneMore DEF OwnOf
      <3> QED BY <3>2, <3>3, <3>4
    <2> QED BY <2>1, <2>4 DEF Own
  <1>3. ASSUME NEW c \in Clients, WholeClientSendAndRecv(c) PROVE Own'
    <2>1. PICK s \in Sockets : s = <<c, conn[c]>> /\ s[1] = c
      <3>1. conn[c] \in 1 .. MaxRestarts + 1
        <4>1. conn[c] \in 0 .. MaxRestarts + 1 /\ MaxRestarts \in Nat
          BY GatewayAssumption DEF Shape
        <4>2. conn[c] > 0
          BY <1>3 DEF WholeClientSendAndRecv
        <4> QED BY ONLY <4>1, <4>2
      <3>2. <<c, conn[c]>> \in Sockets
        BY <3>1 DEF Sockets
      <3>3. <<c, conn[c]>>[1] = c
        OBVIOUS
      <3> QED BY <3>2, <3>3
    <2>2. PICK o \in Seq(RequestMsg) : o = client_outbound[c]
      BY DEF Shape
    <2>3. PICK q \in Seq(Packet) : q = server_rx[s]
      BY DEF Shape
    <2>4. PICK sent \in WholeParts(o) :
              server_rx' = [server_rx EXCEPT ![s] = @ \o
                  [k \in 1 .. Len(sent) |-> [msg |-> sent[k], time |-> clock + k]]]
      BY <1>3, <2>1, <2>2 DEF WholeClientSendAndRecv
    <2>5. /\ sent \in Seq(RequestMsg) /\ Len(sent) \in 0 .. Len(o)
          /\ \A k \in 1 .. Len(sent) : sent[k] = o[k]
      BY SentIs
    <2>6. PICK e : e = [k \in 1 .. Len(sent) |-> [msg |-> sent[k], time |-> clock + k]]
      OBVIOUS
    <2>7. e \in Seq(Packet) /\ Len(e) = Len(sent) /\ \A k \in 1 .. Len(e) : e[k].msg = o[k]
      <3>1. clock \in Nat /\ Len(sent) \in Nat
        BY <2>5 DEF Shape
      <3>2. \A k \in 1 .. Len(sent) : sent[k] \in RequestMsg /\ clock + k \in Nat
        BY <2>5, <3>1
      <3>3. e \in [1 .. Len(sent) -> Packet]
        BY <2>6, <3>2 DEF Packet
      <3>4. e \in Seq(Packet) /\ Len(e) = Len(sent)
        BY <3>1, <3>3, Listed
      <3> QED BY <3>4, <2>5, <2>6
    <2>8. OwnOf(c, o) /\ OwnPackets(c, q)
      BY <2>1, <2>2, <2>3 DEF Own
    <2>9. OwnPackets(c, q \o e)
      <3>1. q \o e \in Seq(Packet) /\ IsJoin(q \o e, q, e)
        BY <2>7, Joined
      <3>2. PICK p : p = q \o e
        OBVIOUS
      <3>3. ASSUME NEW i \in 1 .. Len(p)
            PROVE  p[i].msg.client_id_ = c /\ p[i].msg.seq_num_ # 0
        <4>1. CASE i \in 1 .. Len(q)
          BY <4>1, <3>1, <3>2, <2>8 DEF IsJoin, OwnPackets
        <4>2. CASE i \notin 1 .. Len(q)
          <5>1. PICK k : k = i - Len(q)
            OBVIOUS
          <5>2. k \in 1 .. Len(e) /\ p[i] = e[k]
            BY <4>2, <5>1, <3>1, <3>2 DEF IsJoin
          <5>3. p[i].msg = o[k] /\ k \in 1 .. Len(o)
            BY <5>2, <2>5, <2>7
          <5> QED BY <5>3, <2>8 DEF OwnOf
        <4> QED BY <4>1, <4>2
      <3> QED BY <3>2, <3>3 DEF OwnPackets
    <2>10. \A r \in Sockets : server_rx'[r] = IF r = s THEN q \o e ELSE server_rx[r]
      BY <2>3, <2>4, <2>6 DEF Shape
    <2>11. \A r \in Sockets : client_rx'[r] = IF r = s THEN <<>> ELSE client_rx[r]
      BY <1>3, <2>1 DEF WholeClientSendAndRecv, Shape
    <2>12. \A d \in Clients : client_outbound'[d] = IF d = c THEN <<>> ELSE client_outbound[d]
      BY <1>3 DEF WholeClientSendAndRecv, Shape
    <2>13. UNCHANGED <<server_outbound, cid_next_outgoing_seq_num_>>
      BY <1>3 DEF WholeClientSendAndRecv, serverVars
    <2>14. \A d : OwnOf(d, <<>>)
      BY DEF OwnOf
    <2> QED BY <2>1, <2>9, <2>10, <2>11, <2>12, <2>13, <2>14 DEF Own
  <1>4. CASE WholeServerSendAndRecv
    <2>1. PICK s \in Sockets : s = receive_sockets_[at]
      <3>1. at \in 1 .. Len(receive_sockets_) /\ receive_sockets_ \in Seq(Sockets)
        BY <1>4 DEF WholeServerSendAndRecv, Shape
      <3>2. receive_sockets_[at] \in Sockets
        BY <3>1
      <3> QED BY <3>2
    <2>2. PICK o \in Seq(ResponseMsg) : o = server_outbound[s]
      BY DEF Shape
    <2>3. PICK q \in Seq(ResponseMsg) : q = client_rx[s]
      BY DEF Shape
    <2>4. PICK sent \in WholeParts(o) : client_rx' = [client_rx EXCEPT ![s] = @ \o sent]
      BY <1>4, <2>1, <2>2 DEF WholeServerSendAndRecv
    <2>5. /\ sent \in Seq(ResponseMsg) /\ Len(sent) \in 0 .. Len(o)
          /\ \A k \in 1 .. Len(sent) : sent[k] = o[k]
      BY SentIs
    <2>6. OwnOf(s[1], o) /\ OwnOf(s[1], q)
      BY <2>2, <2>3 DEF Own
    <2>7. OwnOf(s[1], q \o sent)
      <3>1. IsJoin(q \o sent, q, sent)
        BY <2>5, Joined
      <3>2. PICK p : p = q \o sent
        OBVIOUS
      <3>3. ASSUME NEW i \in 1 .. Len(p)
            PROVE  p[i].client_id_ = s[1] /\ p[i].seq_num_ # 0
        <4>1. CASE i \in 1 .. Len(q)
          BY <4>1, <3>1, <3>2, <2>6 DEF IsJoin, OwnOf
        <4>2. CASE i \notin 1 .. Len(q)
          <5>1. PICK k : k = i - Len(q)
            OBVIOUS
          <5>2. k \in 1 .. Len(sent) /\ p[i] = sent[k]
            BY <4>2, <5>1, <3>1, <3>2 DEF IsJoin
          <5>3. p[i] = o[k] /\ k \in 1 .. Len(o)
            BY <5>2, <2>5
          <5> QED BY <5>3, <2>6 DEF OwnOf
        <4> QED BY <4>1, <4>2
      <3> QED BY <3>2, <3>3 DEF OwnOf
    <2>8. \A r \in Sockets : client_rx'[r] = IF r = s THEN q \o sent ELSE client_rx[r]
      BY <2>3, <2>4 DEF Shape
    <2>9. \A r \in Sockets : server_rx'[r] = IF r = s THEN <<>> ELSE server_rx[r]
      BY <1>4, <2>1 DEF WholeServerSendAndRecv, Shape
    <2>10. \A r \in Sockets : server_outbound'[r] = IF r = s THEN <<>> ELSE server_outbound[r]
      BY <1>4, <2>1 DEF WholeServerSendAndRecv, Shape
    <2>11. UNCHANGED <<client_outbound, cid_next_outgoing_seq_num_>>
      BY <1>4 DEF WholeServerSendAndRecv, clientVars
    <2>12. \A d : OwnOf(d, <<>>) /\ OwnPackets(d, <<>>)
      BY DEF OwnOf, OwnPackets
    <2> QED BY <2>7, <2>8, <2>9, <2>10, <2>11, <2>12 DEF Own
  <1>5. CASE SendResponse
    <2>1. outgoing_responses_ \in Seq(Item) /\ outgoing_responses_ # <<>>
      BY <1>5 DEF SendResponse, Shape
    <2>2. Head(outgoing_responses_) \in Item
      BY <2>1
    <2>3. PICK c \in Clients, n \in Nat : Head(outgoing_responses_) = <<c, n>>
      BY <2>2 DEF Item
    <2>4. PICK s : s = cid_tcp_socket_[c]
      OBVIOUS
    <2>5. s \in Sockets => s[1] = c
      <3>1. s # NoSocket => s[1] = c
        BY <2>4 DEF RequestInv, TakenInv
      <3> QED BY <3>1, SocketIs
    <2>6. PICK top \in Nat : top = cid_next_outgoing_seq_num_[c]
      BY DEF Shape
    <2>7. top # 0
      BY <2>6 DEF Own
    <2>8. PICK m : m = [seq_num_ |-> top, client_id_ |-> c, n |-> n]
      OBVIOUS
    <2>9. m \in ResponseMsg /\ m.client_id_ = c /\ m.seq_num_ # 0
      BY <2>7, <2>8 DEF ResponseMsg
    <2>10. /\ server_outbound' = [server_outbound EXCEPT ![s] = Append(@, m)]
           /\ cid_next_outgoing_seq_num_' = [cid_next_outgoing_seq_num_ EXCEPT ![c] = @ + 1]
      <3>1. Head(outgoing_responses_)[1] = c /\ Head(outgoing_responses_)[2] = n
        BY <2>3
      <3> QED BY <3>1, <1>5, <2>4, <2>6, <2>8 DEF SendResponse
    <2>11. ASSUME NEW r \in Sockets PROVE OwnOf(r[1], server_outbound'[r])
      <3>1. PICK o \in Seq(ResponseMsg) : o = server_outbound[r]
        BY DEF Shape
      <3>2. server_outbound'[r] = IF r = s THEN Append(o, m) ELSE o
        BY <2>10, <3>1 DEF Shape
      <3>3. OwnOf(r[1], o)
        BY <3>1 DEF Own
      <3>4. OwnOf(c, o) => OwnOf(c, Append(o, m))
        BY <2>9, OneMore DEF OwnOf
      <3> QED BY <3>2, <3>3, <3>4, <2>5
    <2>12. ASSUME NEW d \in Clients PROVE cid_next_outgoing_seq_num_'[d] # 0
      <3>1. PICK t \in Nat : t = cid_next_outgoing_seq_num_[d]
        BY DEF Shape
      <3>2. cid_next_outgoing_seq_num_'[d] = IF d = c THEN top + 1 ELSE t
        BY <2>6, <2>10, <3>1 DEF Shape
      <3>3. t # 0 /\ top + 1 # 0
        BY <3>1 DEF Own
      <3> QED BY <3>2, <3>3
    <2>13. UNCHANGED <<client_outbound, server_rx, client_rx>>
      BY <1>5 DEF SendResponse, clientVars, kernelVars
    <2> QED BY <2>11, <2>12, <2>13 DEF Own
  <1>6. CASE Poll \/ WholeTooManyPending \/ SequenceAndPublish \/ NothingReceived
             \/ NextRound \/ EngineStep \/ EngineFatal \/ UNCHANGED vars
    <2>1. UNCHANGED <<client_outbound, server_rx, client_rx, server_outbound,
                      cid_next_outgoing_seq_num_>>
      BY <1>6 DEF Poll, WholeTooManyPending, SequenceAndPublish, NothingReceived, NextRound,
                  EngineStep, EngineFatal, vars, clientVars, kernelVars, serverVars
    <2> QED BY <2>1 DEF Own
  <1> QED BY <1>1, <1>2, <1>3, <1>4, <1>5, <1>6 DEF WholeNext, WholeServer

-----------------------------------------------------------------------------
(* The request path.                                                       *)

\* The inductive invariant of the request path, while no send is cut inside a
\* record: nothing is lost track of.
THEOREM RequestPath == Spec => [](Unbroken => Shape /\ Own /\ RequestInv)
  <1>1. Init => Shape /\ Own /\ RequestInv
    BY InitShape, InitOwn, InitRequests
  <1>2. Shape /\ Own /\ RequestInv /\ [WholeNext]_vars => (Shape /\ Own /\ RequestInv)'
    BY ShapeKept, OwnKept, RequestsKept
  <1> QED BY <1>1, <1>2, WholeStep, CutStays, PTL DEF Spec

\* As long as no send is cut inside a record, and SequenceAndPublish never sorts
\* more requests than std::sort keeps stable, the engine gets each client's
\* requests in the order the client made them and none twice: across restarts,
\* messages that send buffers lose, several connections and any interleaving of
\* clients and server.
THEOREM RequestsStayInOrder ==
    Spec /\ [](Len(pending_client_requests_) <= StableSize) => [](Unbroken => RequestsInOrder)
  <1>1. Init => (Unbroken => Ascending)
    BY DEF Init, Ascending
  <1>2. /\ Shape /\ RequestInv /\ Ascending
        /\ Len(pending_client_requests_) <= StableSize
        /\ [WholeNext]_vars
        => Ascending'
    BY RequestsKept
  <1>3. Ascending => RequestsInOrder
    BY DEF Ascending, RequestsInOrder
  <1> QED BY <1>1, <1>2, <1>3, WholeStep, CutStays, RequestPath, PTL DEF Spec

\* Whatever the sort does, no request reaches the engine twice while no send is cut
\* inside a record.
THEOREM RequestsReachOnce == Spec => [](Unbroken => RequestsOnce)
  <1>1. Shape /\ RequestInv => RequestsOnce
    BY DEF RequestInv
  <1> QED BY <1>1, RequestPath, PTL

-----------------------------------------------------------------------------
(* Responses reach the client in order: counting and numbering.            *)

\* One response more to count.
LEMMA CountStep ==
    ASSUME NEW h, NEW c, NEW n \in Nat
    PROVE  /\ CountTo(h, c, n) \in Nat
           /\ h[n + 1][1] = c => CountTo(h, c, n + 1) = CountTo(h, c, n) + 1
           /\ h[n + 1][1] # c => CountTo(h, c, n + 1) = CountTo(h, c, n)
  <1> DEFINE A == {k \in 1 .. n : h[k][1] = c}
             B == {k \in 1 .. n + 1 : h[k][1] = c}
  <1>1. IsFiniteSet(1 .. n)
    BY Interval
  <1>2. IsFiniteSet(A)
    BY <1>1, FS_Subset
  <1>3. Cardinality(A) \in Nat
    BY <1>2, FS_CardinalityType
  <1>4. h[n + 1][1] = c => B = A \cup {n + 1} /\ n + 1 \notin A
    OBVIOUS
  <1>5. h[n + 1][1] # c => B = A
    OBVIOUS
  <1> HIDE DEF A, B
  <1>6. h[n + 1][1] = c => Cardinality(B) = Cardinality(A) + 1
    BY <1>2, <1>4, FS_AddElement
  <1> QED BY <1>3, <1>5, <1>6 DEF CountTo, A, B

\* Only the first n responses count.
LEMMA CountPrefix ==
    ASSUME NEW g, NEW h, NEW c, NEW n \in Nat, \A k \in 1 .. n : g[k] = h[k]
    PROVE  CountTo(g, c, n) = CountTo(h, c, n)
  <1>1. {k \in 1 .. n : g[k][1] = c} = {k \in 1 .. n : h[k][1] = c}
    OBVIOUS
  <1> QED BY <1>1 DEF CountTo

\* The history of responses only grows, so what was the q-th response stays it.
LEMMA NthStays ==
    ASSUME NEW h \in Seq(Item), NEW t \in Seq(Item), NEW c, NEW q, NEW n,
           NthIs(h, c, q, n)
    PROVE  NthIs(h \o t, c, q, n)
  <1> DEFINE g == h \o t
  <1>1. IsJoin(g, h, t)
    BY Joined
  <1> HIDE DEF g
  <1>2. PICK i \in 1 .. Len(h) : h[i] = <<c, n>> /\ CountTo(h, c, i) = q
    BY DEF NthIs
  <1>3. i \in 1 .. Len(g) /\ g[i] = h[i] /\ i \in Nat /\ \A k \in 1 .. i : g[k] = h[k]
    BY <1>1 DEF IsJoin
  <1>4. CountTo(g, c, i) = CountTo(h, c, i)
    BY <1>3, CountPrefix
  <1> QED BY <1>2, <1>3, <1>4 DEF NthIs, g

\* The fields of responses on their way.
LEMMA ResponseFields ==
    ASSUME NEW q \in Seq(ResponseMsg)
    PROVE  Len(q) \in Nat /\ \A i \in 1 .. Len(q) : q[i].n \in Nat /\ q[i].seq_num_ \in Nat
  <1>1. Len(q) \in Nat /\ \A i \in 1 .. Len(q) : q[i] \in ResponseMsg
    OBVIOUS
  <1> QED BY <1>1 DEF ResponseMsg

\* The server sends the beginning of its buffer and forgets the rest.
LEMMA WireSent ==
    ASSUME NEW q \in Seq(ResponseMsg), NEW o \in Seq(ResponseMsg), NEW sent \in Seq(ResponseMsg),
           NEW top \in Nat, NEW h, NEW c,
           Len(sent) \in 0 .. Len(o), \A k \in 1 .. Len(sent) : sent[k] = o[k],
           WireOk(q, o, top), Told(h, c, q), Told(h, c, o)
    PROVE  WireOk(q \o sent, <<>>, top) /\ Told(h, c, q \o sent)
  <1> DEFINE p == q \o sent
             L == Len(q)
  <1>1. IsJoin(p, q, sent)
    BY Joined
  <1> HIDE DEF p
  <1>2. Len(o) \in Nat /\ L \in Nat
    BY ResponseFields
  <1> HIDE DEF L
  <1>3. \A k \in 1 .. L : p[k] = q[k]
    BY <1>1 DEF IsJoin, L
  <1>4. ASSUME NEW k \in 1 .. Len(p), k \notin 1 .. L
        PROVE  k - L \in 1 .. Len(o) /\ p[k] = o[k - L]
    <2>1. k - L \in 1 .. Len(sent) /\ p[k] = sent[k - L]
      BY <1>1, <1>4 DEF IsJoin, L
    <2>2. k - L \in 1 .. Len(o)
      BY <2>1, <1>2
    <2> QED BY <2>1, <2>2
  <1>5. ASSUME NEW i \in 1 .. Len(p)
        PROVE  p[i].seq_num_ \in 1 .. top - 1 /\ NthIs(h, c, p[i].seq_num_, p[i].n)
    <2>1. CASE i \in 1 .. L
      BY <2>1, <1>3 DEF WireOk, Told, L
    <2>2. CASE i \notin 1 .. L
      BY <2>2, <1>4 DEF WireOk, Told
    <2> QED BY <2>1, <2>2
  <1>6. ASSUME NEW i \in 1 .. Len(p), NEW j \in 1 .. Len(p), i < j
        PROVE  p[i].seq_num_ < p[j].seq_num_
    <2>1. CASE i \in 1 .. L /\ j \in 1 .. L
      BY <2>1, <1>3, <1>6 DEF WireOk, L
    <2>2. CASE i \in 1 .. L /\ j \notin 1 .. L
      BY <2>2, <1>3, <1>4 DEF WireOk, L
    <2>3. CASE i \notin 1 .. L /\ j \notin 1 .. L
      <3>1. i - L \in 1 .. Len(o) /\ j - L \in 1 .. Len(o) /\ p[i] = o[i - L] /\ p[j] = o[j - L]
        BY <2>3, <1>4
      <3>2. i - L < j - L
        BY <1>2, <1>6
      <3> QED BY <3>1, <3>2 DEF WireOk
    <2>4. i \notin 1 .. L => j \notin 1 .. L
      BY <1>2, <1>6
    <2> QED BY <2>1, <2>2, <2>3, <2>4
  <1>7. WireOk(p, <<>>, top)
    BY <1>5, <1>6 DEF WireOk
  <1>8. Told(h, c, p)
    BY <1>5 DEF Told
  <1> QED BY <1>7, <1>8 DEF p

\* The server adds a response, with the next number.
LEMMA WireMore ==
    ASSUME NEW q \in Seq(ResponseMsg), NEW o \in Seq(ResponseMsg), NEW m \in ResponseMsg,
           NEW top \in Nat, NEW h, NEW c,
           top >= 1, m.seq_num_ = top, NthIs(h, c, top, m.n),
           WireOk(q, o, top), Told(h, c, o)
    PROVE  WireOk(q, Append(o, m), top + 1) /\ Told(h, c, Append(o, m))
  <1> DEFINE p == Append(o, m)
  <1>1. /\ Len(p) = Len(o) + 1
        /\ \A k \in 1 .. Len(p) : /\ k \in 1 .. Len(o) => p[k] = o[k]
                                  /\ k \notin 1 .. Len(o) => k = Len(o) + 1 /\ p[k] = m
    BY OneMore
  <1>2. /\ Len(o) \in Nat
        /\ \A i \in 1 .. Len(o) : o[i].seq_num_ \in Nat
    BY ResponseFields
  <1>3. Len(q) \in Nat /\ \A i \in 1 .. Len(q) : q[i].seq_num_ \in Nat
    BY ResponseFields
  <1> HIDE DEF p
  <1>4. \A i \in 1 .. Len(q) : q[i].seq_num_ \in 1 .. (top + 1) - 1
    <2> TAKE i \in 1 .. Len(q)
    <2>1. q[i].seq_num_ \in 1 .. top - 1
      BY DEF WireOk
    <2> QED BY <2>1
  <1>5. ASSUME NEW i \in 1 .. Len(p)
        PROVE  p[i].seq_num_ \in 1 .. (top + 1) - 1 /\ NthIs(h, c, p[i].seq_num_, p[i].n)
    <2>1. CASE i \in 1 .. Len(o)
      <3>1. p[i] = o[i] /\ o[i].seq_num_ \in 1 .. top - 1 /\ NthIs(h, c, o[i].seq_num_, o[i].n)
        BY <2>1, <1>1 DEF WireOk, Told
      <3> QED BY <3>1
    <2>2. CASE i \notin 1 .. Len(o)
      <3>1. p[i] = m
        BY <2>2, <1>1
      <3> QED BY <3>1
    <2> QED BY <2>1, <2>2
  <1>6. ASSUME NEW i \in 1 .. Len(p), NEW j \in 1 .. Len(p), i < j
        PROVE  p[i].seq_num_ < p[j].seq_num_
    <2>1. i \in 1 .. Len(o) /\ p[i] = o[i] /\ o[i].seq_num_ \in 1 .. top - 1
      BY <1>1, <1>2, <1>6 DEF WireOk
    <2>2. CASE j \in 1 .. Len(o)
      BY <2>1, <2>2, <1>1, <1>6 DEF WireOk
    <2>3. CASE j \notin 1 .. Len(o)
      <3>1. p[j] = m
        BY <2>3, <1>1
      <3> QED BY <2>1, <3>1
    <2> QED BY <2>2, <2>3
  <1>7. ASSUME NEW i \in 1 .. Len(q), NEW j \in 1 .. Len(p) PROVE q[i].seq_num_ < p[j].seq_num_
    <2>1. CASE j \in 1 .. Len(o)
      BY <2>1, <1>1 DEF WireOk
    <2>2. CASE j \notin 1 .. Len(o)
      <3>1. p[j] = m /\ q[i].seq_num_ \in 1 .. top - 1
        BY <2>2, <1>1 DEF WireOk
      <3> QED BY <3>1
    <2> QED BY <2>1, <2>2
  <1>8. \A i, j \in 1 .. Len(q) : i < j => q[i].seq_num_ < q[j].seq_num_
    BY DEF WireOk
  <1>9. WireOk(q, p, top + 1)
    BY <1>4, <1>5, <1>6, <1>7, <1>8 DEF WireOk
  <1>10. Told(h, c, p)
    BY <1>5 DEF Told
  <1> QED BY <1>9, <1>10 DEF p

\* ns is what the messages g say.
Says(g, ns) == Len(ns) = Len(g) /\ \A k \in 1 .. Len(ns) : ns[k] = g[k].n

\* A client that expects number exp has got all responses before.
Got(h, c, a, exp, top) == AnswersAre(h, c, a) /\ exp \in 1 .. top /\ Len(a) = exp - 1

\* The client takes the messages in sequence: the next responses.
LEMMA AnswersMore ==
    ASSUME NEW q \in Seq(ResponseMsg), NEW o \in Seq(ResponseMsg), NEW a \in Seq(Nat),
           NEW exp \in Nat, NEW top \in Nat, NEW h, NEW c, NEW ns \in Seq(Nat),
           Got(h, c, a, exp, top), WireOk(q, o, top), Told(h, c, q),
           Says(Consecutive(q, exp), ns)
    PROVE  Got(h, c, a \o ns, exp + Len(ns), top)
  <1> DEFINE g == Consecutive(q, exp)
             b == a \o ns
  <1>0. AnswersAre(h, c, a) /\ exp \in 1 .. top /\ Len(a) = exp - 1
    BY DEF Got
  <1>1. Len(q) \in Nat /\ \A i \in 1 .. Len(q) : q[i].seq_num_ \in Nat
    BY ResponseFields
  <1>2. /\ Len(g) \in 0 .. Len(q)
        /\ \A i \in 1 .. Len(g) : \E k \in 1 .. Len(q) :
               g[i] = q[k] /\ q[k].seq_num_ = exp + i - 1
    <2>1. /\ q \in Seq(ResponseMsg) /\ exp \in Nat
          /\ \A k \in 1 .. Len(q) : q[k].seq_num_ \in Nat
      BY <1>1
    <2> QED BY ONLY <2>1, ConsecutiveIs
  <1> HIDE DEF g
  <1>3. Len(ns) = Len(g) /\ \A k \in 1 .. Len(ns) : ns[k] = g[k].n
    BY DEF g, Says
  <1>4. IsJoin(b, a, ns)
    BY Joined
  <1> HIDE DEF b
  <1>5. ASSUME NEW i \in 1 .. Len(ns)
        PROVE  exp + i - 1 \in 1 .. top - 1 /\ NthIs(h, c, exp + i - 1, ns[i])
    <2>1. PICK k \in 1 .. Len(q) : g[i] = q[k] /\ q[k].seq_num_ = exp + i - 1
      BY <1>2, <1>3
    <2>2. q[k].seq_num_ \in 1 .. top - 1 /\ NthIs(h, c, q[k].seq_num_, q[k].n)
      BY DEF WireOk, Told
    <2> QED BY <2>1, <2>2, <1>3
  <1>6. exp + Len(ns) \in 1 .. top
    <2>1. CASE Len(ns) = 0
      BY <2>1, <1>0
    <2>2. CASE Len(ns) # 0
      <3>1. Len(ns) \in 1 .. Len(ns)
        BY <2>2, <1>1, <1>2, <1>3
      <3>2. exp + Len(ns) - 1 \in 1 .. top - 1
        BY <3>1, <1>5
      <3> QED BY <3>1, <3>2, <1>0
    <2> QED BY <2>1, <2>2
  <1>7. Len(b) = (exp + Len(ns)) - 1
    BY <1>0, <1>4 DEF IsJoin
  <1>8. ASSUME NEW k \in 1 .. Len(b) PROVE NthIs(h, c, k, b[k])
    <2>1. CASE k \in 1 .. Len(a)
      BY <2>1, <1>0, <1>4 DEF IsJoin, AnswersAre
    <2>2. CASE k \notin 1 .. Len(a)
      <3>1. k - Len(a) \in 1 .. Len(ns) /\ b[k] = ns[k - Len(a)]
        BY <2>2, <1>4 DEF IsJoin
      <3>2. exp + (k - Len(a)) - 1 = k
        BY <1>0, <1>4 DEF IsJoin
      <3> QED BY <3>1, <3>2, <1>5
    <2> QED BY <2>1, <2>2
  <1> QED BY <1>6, <1>7, <1>8 DEF AnswersAre, Got, b

-----------------------------------------------------------------------------
(* Responses reach the client in order: the steps.                         *)

\* The types of what responses go through.
LEMMA ResponseTypes ==
    ASSUME Shape
    PROVE  /\ \A c \in Clients :
                  /\ answers[c] \in Seq(Nat) /\ next_exp_seq_num_[c] \in Nat
                  /\ cid_next_outgoing_seq_num_[c] \in Nat
           /\ \A s \in Sockets : /\ client_rx[s] \in Seq(ResponseMsg)
                                 /\ server_outbound[s] \in Seq(ResponseMsg)
           /\ responded \in Seq(Item) /\ outgoing_responses_ \in Seq(Item)
           /\ incoming_requests_ \in Seq(Item)
           /\ Len(responded) \in Nat /\ Len(outgoing_responses_) \in Nat
           /\ Len(incoming_requests_) \in Nat
  <1>1. /\ \A c \in Clients :
               /\ answers[c] \in Seq(Nat) /\ next_exp_seq_num_[c] \in Nat
               /\ cid_next_outgoing_seq_num_[c] \in Nat
        /\ \A s \in Sockets : /\ client_rx[s] \in Seq(ResponseMsg)
                              /\ server_outbound[s] \in Seq(ResponseMsg)
        /\ responded \in Seq(Item) /\ outgoing_responses_ \in Seq(Item)
        /\ incoming_requests_ \in Seq(Item)
    BY DEF Shape
  <1>2. /\ Len(responded) \in Nat /\ Len(outgoing_responses_) \in Nat
        /\ Len(incoming_requests_) \in Nat
    BY <1>1
  <1> QED BY <1>1, <1>2

\* Nothing on a connection is in order.
LEMMA EmptyWire ==
    ASSUME NEW top, NEW h, NEW c
    PROVE  WireOk(<<>>, <<>>, top) /\ Told(h, c, <<>>) /\ AnswersAre(h, c, <<>>)
  BY DEF WireOk, Told, AnswersAre

\* At first there are no responses.
LEMMA InitResponses == Init => ResponseInv /\ GapInv
  <1> SUFFICES ASSUME Init PROVE ResponseInv /\ GapInv
    OBVIOUS
  <1>1. responded = <<>> /\ outgoing_responses_ = <<>> /\ incoming_requests_ = <<>>
    BY DEF Init
  <1>2. Passed = 0
    BY <1>1 DEF Passed
  <1>3. \A c : CountTo(<<>>, c, 0) = 0
    <2> TAKE c
    <2>1. {k \in 1 .. 0 : <<>>[k][1] = c} = {}
      OBVIOUS
    <2> QED BY <2>1, FS_EmptySet DEF CountTo
  <1>4. NumberInv
    BY <1>1, <1>2, <1>3 DEF NumberInv, Init
  <1>5. \A s \in Sockets : WireInv(s[1], s)
    <2> TAKE s \in Sockets
    <2>1. client_rx[s] = <<>> /\ server_outbound[s] = <<>>
      BY DEF Init
    <2> QED BY <2>1, EmptyWire DEF WireInv
  <1>6. \A c \in Clients : AnswerInv(c)
    <2> TAKE c \in Clients
    <2>1. /\ answers[c] = <<>> /\ next_exp_seq_num_[c] = 1 /\ cid_next_outgoing_seq_num_[c] = 1
          /\ cid_tcp_socket_[c] = NoSocket
      BY DEF Init
    <2> QED BY <2>1, EmptyWire DEF AnswerInv
  <1>7. GapInv
    BY DEF Init, GapInv
  <1> QED BY <1>4, <1>5, <1>6, <1>7 DEF ResponseInv

\* Steps that leave the responses alone.
LEMMA ResponsesFrame ==
    ASSUME ResponseInv, GapInv,
           UNCHANGED <<load, conn, next_exp_seq_num_, answers, misnumbered, client_rx,
                       server_outbound, cid_tcp_socket_, cid_next_outgoing_seq_num_,
                       incoming_requests_, outgoing_responses_, responded>>
    PROVE  ResponseInv' /\ GapInv'
  <1>1. NumberInv'
    BY DEF ResponseInv, NumberInv, Passed
  <1>2. ASSUME NEW s \in Sockets PROVE WireInv(s[1], s)'
    BY DEF ResponseInv, WireInv
  <1>3. ASSUME NEW c \in Clients PROVE AnswerInv(c)'
    BY DEF ResponseInv, AnswerInv
  <1>4. GapInv'
    BY DEF GapInv, Reliable
  <1> QED BY <1>1, <1>2, <1>3, <1>4 DEF ResponseInv

\* A client that starts again gets nothing any more.
LEMMA ResponsesOfStart ==
    ASSUME Shape, RequestInv, ResponseInv, GapInv, NEW c \in Clients, Start(c)
    PROVE  ResponseInv' /\ GapInv'
  <1>1. /\ \A d \in Clients :
               /\ conn'[d] = IF d = c THEN conn[c] + 1 ELSE conn[d]
               /\ next_exp_seq_num_'[d] = IF d = c THEN 1 ELSE next_exp_seq_num_[d]
        /\ conn[c] <= load.restarts
        /\ UNCHANGED <<load, answers, misnumbered, client_rx, server_outbound,
                       cid_tcp_socket_, cid_next_outgoing_seq_num_,
                       incoming_requests_, outgoing_responses_, responded>>
    BY DEF Start, Shape, kernelVars, engineVars
  <1>2. /\ conn[c] \in Nat
        /\ cid_tcp_socket_[c] # NoSocket =>
               /\ cid_tcp_socket_[c] \in Sockets /\ cid_tcp_socket_[c][2] \in Nat
               /\ cid_tcp_socket_[c][2] >= 1 /\ cid_tcp_socket_[c][2] <= conn[c]
    <2>1. TakenInv(c) /\ conn[c] \in Nat
      BY ClientTypes DEF RequestInv
    <2>2. ASSUME cid_tcp_socket_[c] # NoSocket
          PROVE  /\ cid_tcp_socket_[c] \in Sockets /\ cid_tcp_socket_[c][2] \in Nat
                 /\ cid_tcp_socket_[c][2] >= 1 /\ cid_tcp_socket_[c][2] <= conn[c]
      <3>1. cid_tcp_socket_[c] \in Sockets /\ cid_tcp_socket_[c][2] <= conn[c]
        BY <2>1, <2>2 DEF TakenInv
      <3>2. cid_tcp_socket_[c][2] \in 1 .. MaxRestarts + 1
        BY <3>1, SocketIs
      <3> QED BY <3>1, <3>2
    <2> QED BY <2>1, <2>2
  <1>3. cid_tcp_socket_[c] # <<c, conn[c] + 1>>
    <2>1. cid_tcp_socket_[c] = <<c, conn[c] + 1>> =>
              cid_tcp_socket_[c] # NoSocket /\ cid_tcp_socket_[c][2] = conn[c] + 1
      <3>1. <<c, conn[c] + 1>> # <<>>
        <4>1. 1 \in DOMAIN <<c, conn[c] + 1>> /\ 1 \notin DOMAIN <<>>
          OBVIOUS
        <4> QED BY <4>1
      <3> QED BY <3>1 DEF NoSocket
    <2> QED BY <2>1, <1>2
  <1>4. NumberInv'
    BY <1>1 DEF ResponseInv, NumberInv, Passed
  <1>5. ASSUME NEW s \in Sockets PROVE WireInv(s[1], s)'
    BY <1>1 DEF ResponseInv, WireInv
  <1>6. ASSUME NEW d \in Clients PROVE AnswerInv(d)'
    <2>1. AnswerInv(d) /\ cid_next_outgoing_seq_num_[d] \in Nat
      BY ResponseTypes DEF ResponseInv
    <2>2. CASE d = c
      <3>1. 1 \in 1 .. cid_next_outgoing_seq_num_[d]
        BY <2>1 DEF AnswerInv
      <3> QED BY <2>1, <2>2, <3>1, <1>1, <1>3 DEF AnswerInv
    <2>3. CASE d # c
      BY <2>1, <2>3, <1>1 DEF AnswerInv
    <2> QED BY <2>2, <2>3
  <1>7. GapInv'
    <2> SUFFICES ASSUME Reliable PROVE GapInv'
      BY <1>1 DEF GapInv, Reliable
    <2>1. conn[c] = 0
      BY <1>1, <1>2, LoadIs DEF Reliable
    <2>2. cid_tcp_socket_[c] = NoSocket
      BY <2>1, <1>2
    <2> QED BY <2>1, <2>2, <1>1 DEF GapInv
  <1> QED BY <1>4, <1>5, <1>6, <1>7 DEF ResponseInv

\* A client reads the next responses on its connection, all there are when
\* none was lost.
LEMMA ResponsesOfClient ==
    ASSUME Shape, RequestInv, ResponseInv, GapInv, NEW c \in Clients, WholeClientSendAndRecv(c)
    PROVE  ResponseInv' /\ GapInv'
  <1>1. PICK s \in Sockets : s = <<c, conn[c]>>
    BY ClientRound
  <1>2. PICK exp \in Nat : exp = next_exp_seq_num_[c]
    BY ResponseTypes
  <1>3. PICK top \in Nat : top = cid_next_outgoing_seq_num_[c]
    BY ResponseTypes
  <1>4. PICK q \in Seq(ResponseMsg) : q = client_rx[s]
    BY ResponseTypes
  <1>5. PICK o \in Seq(ResponseMsg) : o = server_outbound[s]
    BY ResponseTypes
  <1>6. PICK a \in Seq(Nat) : a = answers[c]
    BY ResponseTypes
  <1> DEFINE g == Consecutive(q, exp)
             f == [k \in 1 .. Len(g) |-> g[k].n]
  <1>7. /\ Len(q) \in Nat /\ \A k \in 1 .. Len(q) : q[k].seq_num_ \in Nat
    BY ResponseFields
  <1>8. /\ g \in Seq(ResponseMsg) /\ Len(g) \in 0 .. Len(q)
        /\ (\A k \in 1 .. Len(q) : q[k].seq_num_ = exp + k - 1) => Len(g) = Len(q)
    BY <1>7, ConsecutiveIs
  <1>9. f \in Seq(Nat) /\ Len(f) = Len(g) /\ \A k \in 1 .. Len(f) : f[k] = g[k].n
    <2>1. Len(g) \in Nat /\ \A k \in 1 .. Len(g) : g[k].n \in Nat
      BY <1>8, ResponseFields
    <2> HIDE DEF g
    <2>2. f \in [1 .. Len(g) -> Nat] /\ \A k \in 1 .. Len(g) : f[k] = g[k].n
      BY <2>1
    <2> HIDE DEF f
    <2> QED BY <2>1, <2>2, Listed
  <1>10. /\ client_rx' = [client_rx EXCEPT ![s] = <<>>]
         /\ answers' = [answers EXCEPT ![c] = @ \o f]
         /\ misnumbered' = (misnumbered \/ Len(g) < Len(client_rx[s]))
         /\ next_exp_seq_num_' = [next_exp_seq_num_ EXCEPT ![c] = @ + Len(g)]
         /\ UNCHANGED <<load, conn, server_outbound, cid_tcp_socket_,
                        cid_next_outgoing_seq_num_, incoming_requests_,
                        outgoing_responses_, responded>>
    BY <1>1, <1>2, <1>4 DEF WholeClientSendAndRecv, serverVars, engineVars
  <1> HIDE DEF g, f
  <1>11. /\ \A r \in Sockets : client_rx'[r] = IF r = s THEN <<>> ELSE client_rx[r]
         /\ \A d \in Clients :
                /\ answers'[d] = IF d = c THEN a \o f ELSE answers[d]
                /\ next_exp_seq_num_'[d] = IF d = c THEN exp + Len(g) ELSE next_exp_seq_num_[d]
         /\ misnumbered' = (misnumbered \/ Len(g) < Len(q))
    <2>1. /\ client_rx \in [Sockets -> Seq(ResponseMsg)]
          /\ answers \in [Clients -> Seq(Nat)] /\ next_exp_seq_num_ \in [Clients -> Nat]
      BY DEF Shape
    <2>2. \A r \in Sockets : client_rx'[r] = IF r = s THEN <<>> ELSE client_rx[r]
      BY <2>1, <1>10
    <2>3. \A d \in Clients :
                /\ answers'[d] = IF d = c THEN a \o f ELSE answers[d]
                /\ next_exp_seq_num_'[d] = IF d = c THEN exp + Len(g) ELSE next_exp_seq_num_[d]
      BY <2>1, <1>2, <1>6, <1>10
    <2> QED BY <2>2, <2>3, <1>4, <1>10
  <1>12. s[1] = c /\ s[2] = conn[c] /\ s # NoSocket
    BY <1>1, SocketIs
  <1>13. /\ WireInv(c, s) /\ AnswerInv(c)
    BY <1>12 DEF ResponseInv
  <1>14. NumberInv'
    BY <1>10 DEF ResponseInv, NumberInv, Passed
  <1>15. ASSUME NEW r \in Sockets PROVE WireInv(r[1], r)'
    <2>1. WireInv(r[1], r)
      BY DEF ResponseInv
    <2>2. CASE r = s
      <3>1. WireOk(<<>>, o, top)
        <4>1. WireOk(q, o, top)
          BY <1>3, <1>4, <1>5, <1>13 DEF WireInv
        <4> QED BY <4>1 DEF WireOk
      <3>2. Told(responded, c, <<>>)
        BY EmptyWire
      <3> QED BY <2>1, <2>2, <3>1, <3>2, <1>3, <1>5, <1>10, <1>11, <1>12 DEF WireInv
    <2>3. CASE r # s
      BY <2>1, <2>3, <1>10, <1>11 DEF WireInv
    <2> QED BY <2>2, <2>3
  <1>16. ASSUME NEW d \in Clients PROVE AnswerInv(d)'
    <2>1. AnswerInv(d)
      BY DEF ResponseInv
    <2>2. CASE d = c /\ cid_tcp_socket_[c] = s
      <3>1. /\ Got(responded, c, a, exp, top)
            /\ WireOk(q, o, top) /\ Told(responded, c, q)
        BY <2>2, <1>1, <1>2, <1>3, <1>4, <1>5, <1>6, <1>13 DEF AnswerInv, WireInv, Got
      <3>2. Says(Consecutive(q, exp), f)
        BY <1>9 DEF g, Says
      <3>3. Got(responded, c, a \o f, exp + Len(f), top)
        BY <3>1, <3>2, <1>9, AnswersMore
      <3>4. cid_tcp_socket_[c] = <<c, conn[c]>> /\ cid_tcp_socket_[c] # NoSocket
        BY <2>2, <1>1, <1>12
      <3> QED BY <2>2, <3>3, <3>4, <1>3, <1>9, <1>10, <1>11 DEF AnswerInv, Got
    <2>3. CASE d = c /\ cid_tcp_socket_[c] # s
      <3>1. Len(q) = 0
        BY <2>3, <1>4, <1>13 DEF WireInv
      <3>2. Len(g) = 0 /\ Len(f) = 0
        BY <3>1, <1>8, <1>9
      <3>3. f = <<>> /\ a \o f = a /\ exp + Len(g) = exp
        BY <3>2, <1>9
      <3> QED BY <2>1, <2>3, <3>3, <1>2, <1>6, <1>10, <1>11 DEF AnswerInv
    <2>4. CASE d # c
      BY <2>1, <2>4, <1>10, <1>11 DEF AnswerInv
    <2> QED BY <2>2, <2>3, <2>4
  <1>17. GapInv'
    <2> SUFFICES ASSUME Reliable PROVE GapInv'
      BY <1>10 DEF GapInv, Reliable
    <2>1. /\ ~misnumbered /\ \A d \in Clients : conn[d] <= 1
          /\ \A d \in Clients : cid_tcp_socket_[d] # NoSocket =>
                 NoGaps(client_rx[cid_tcp_socket_[d]], server_outbound[cid_tcp_socket_[d]],
                        next_exp_seq_num_[d], cid_next_outgoing_seq_num_[d])
      BY DEF GapInv
    <2>2. \A d \in Clients : cid_tcp_socket_[d] # NoSocket =>
              cid_tcp_socket_[d] \in Sockets /\ cid_tcp_socket_[d][1] = d
      BY DEF RequestInv, TakenInv
    <2>3. Len(g) = Len(q) /\ (cid_tcp_socket_[c] = s => NoGaps(q, o, exp, top))
      <3>1. CASE cid_tcp_socket_[c] = s
        <4>1. NoGaps(q, o, exp, top)
          BY <2>1, <3>1, <1>2, <1>3, <1>4, <1>5, <1>12
        <4>2. \A k \in 1 .. Len(q) : q[k].seq_num_ = exp + k - 1
          BY <4>1 DEF NoGaps, From
        <4> QED BY <4>1, <4>2, <1>8
      <3>2. CASE cid_tcp_socket_[c] # s
        <4>1. Len(q) = 0
          BY <3>2, <1>4, <1>13 DEF WireInv
        <4> QED BY <3>2, <4>1, <1>8
      <3> QED BY <3>1, <3>2
    <2>4. ~misnumbered'
      <3>1. ~(Len(g) < Len(q))
        BY <2>3, <1>7
      <3> QED BY <2>1, <3>1, <1>11
    <2>5. ASSUME NEW d \in Clients, cid_tcp_socket_[d] # NoSocket
          PROVE  NoGaps(client_rx'[cid_tcp_socket_[d]], server_outbound[cid_tcp_socket_[d]],
                        next_exp_seq_num_'[d], cid_next_outgoing_seq_num_[d])
      <3>1. CASE d = c /\ cid_tcp_socket_[c] = s
        <4>1. NoGaps(q, o, exp, top) /\ Len(o) \in Nat
          BY <2>3, <3>1, ResponseFields
        <4>2. From(o, (exp + Len(q)) + Len(<<>>)) /\ From(<<>>, exp + Len(q))
          BY <4>1, <1>7 DEF NoGaps, From
        <4>3. Len(<<>>) + Len(o) = top - (exp + Len(q))
          BY <4>1, <1>7 DEF NoGaps
        <4>4. NoGaps(<<>>, o, exp + Len(q), top)
          BY <4>2, <4>3 DEF NoGaps
        <4> QED BY <2>3, <3>1, <4>4, <1>3, <1>5, <1>11
      <3>2. CASE d = c /\ cid_tcp_socket_[c] # s
        <4>1. cid_tcp_socket_[c] \in Sockets
          BY <2>2, <2>5, <3>2
        <4>2. Len(g) = 0
          <5>1. Len(q) = 0
            BY <3>2, <1>4, <1>13 DEF WireInv
          <5> QED BY <5>1, <1>8
        <4>3. next_exp_seq_num_'[c] = next_exp_seq_num_[c]
          BY <4>2, <1>2, <1>11
        <4> QED BY <2>1, <2>5, <3>2, <4>1, <4>3, <1>11
      <3>3. CASE d # c
        <4>1. cid_tcp_socket_[d] \in Sockets /\ cid_tcp_socket_[d] # s
          BY <2>2, <2>5, <3>3, <1>12
        <4> QED BY <2>1, <2>5, <3>3, <4>1, <1>11
      <3> QED BY <3>1, <3>2, <3>3
    <2> QED BY <2>1, <2>4, <2>5, <1>10 DEF GapInv
  <1> QED BY <1>14, <1>15, <1>16, <1>17 DEF ResponseInv

\* A buffer without a gap, sent whole.
LEMMA NoGapsSent ==
    ASSUME NEW q \in Seq(ResponseMsg), NEW o \in Seq(ResponseMsg),
           NEW first \in Nat, NEW next \in Nat, NoGaps(q, o, first, next)
    PROVE  NoGaps(q \o o, <<>>, first, next)
  <1> DEFINE p == q \o o
  <1>1. IsJoin(p, q, o)
    BY Joined
  <1> HIDE DEF p
  <1>2. Len(p) + Len(<<>>) = next - first
    BY <1>1 DEF IsJoin, NoGaps
  <1>3. ASSUME NEW k \in 1 .. Len(p) PROVE p[k].seq_num_ = first + k - 1
    <2>1. CASE k \in 1 .. Len(q)
      BY <2>1, <1>1 DEF IsJoin, NoGaps, From
    <2>2. CASE k \notin 1 .. Len(q)
      <3>1. k - Len(q) \in 1 .. Len(o) /\ p[k] = o[k - Len(q)] /\ Len(q) \in Nat
        BY <2>2, <1>1 DEF IsJoin
      <3>2. p[k].seq_num_ = (first + Len(q)) + (k - Len(q)) - 1
        BY <3>1 DEF NoGaps, From
      <3> QED BY <3>1, <3>2
    <2> QED BY <2>1, <2>2
  <1>4. From(<<>>, first + Len(p))
    BY DEF From
  <1> QED BY <1>2, <1>3, <1>4 DEF NoGaps, From, p

\* The server sends what it has for a socket, and may learn which one a
\* client uses.
LEMMA ResponsesOfRound ==
    ASSUME Shape, RequestInv, ResponseInv, GapInv, WholeServerSendAndRecv
    PROVE  ResponseInv' /\ GapInv'
  <1>1. PICK s \in Sockets :
           /\ cid_tcp_socket_' = [cid_tcp_socket_ EXCEPT ![s[1]] =
                  IF server_rx[s] # <<>> /\ @ = NoSocket THEN s ELSE @]
           /\ \E sent \in WholeParts(server_outbound[s]) :
                  client_rx' = [client_rx EXCEPT ![s] = @ \o sent]
           /\ server_outbound' = [server_outbound EXCEPT ![s] = <<>>]
    BY ServerRound
  <1>2. PICK c \in Clients : c = s[1]
    BY SocketTypes
  <1>3. PICK q \in Seq(ResponseMsg) : q = client_rx[s]
    BY ResponseTypes
  <1>4. PICK o \in Seq(ResponseMsg) : o = server_outbound[s]
    BY ResponseTypes
  <1>5. PICK sent \in WholeParts(o) : client_rx' = [client_rx EXCEPT ![s] = q \o sent]
    BY <1>1, <1>3, <1>4
  <1>6. /\ sent \in Seq(ResponseMsg) /\ Len(sent) \in 0 .. Len(o)
        /\ \A k \in 1 .. Len(sent) : sent[k] = o[k]
        /\ ~load.send_may_fail => sent = o
    BY SentIs
  <1>7. PICK top \in Nat : top = cid_next_outgoing_seq_num_[c]
    BY ResponseTypes
  <1>u. UNCHANGED <<load, conn, next_exp_seq_num_, answers, misnumbered,
                    cid_next_outgoing_seq_num_, incoming_requests_, outgoing_responses_,
                    responded>>
    BY DEF WholeServerSendAndRecv, clientVars, engineVars
  <1>8. /\ \A r \in Sockets :
               /\ client_rx'[r] = IF r = s THEN q \o sent ELSE client_rx[r]
               /\ server_outbound'[r] = IF r = s THEN <<>> ELSE server_outbound[r]
        /\ \A d \in Clients :
               \/ cid_tcp_socket_'[d] = cid_tcp_socket_[d]
               \/ d = c /\ server_rx[s] # <<>> /\ cid_tcp_socket_[c] = NoSocket
                        /\ cid_tcp_socket_'[c] = s
    <2>1. /\ client_rx \in [Sockets -> Seq(ResponseMsg)]
          /\ server_outbound \in [Sockets -> Seq(ResponseMsg)]
          /\ cid_tcp_socket_ \in [Clients -> Sockets \cup {NoSocket}]
      BY DEF Shape
    <2>2. \A r \in Sockets :
              /\ client_rx'[r] = IF r = s THEN q \o sent ELSE client_rx[r]
              /\ server_outbound'[r] = IF r = s THEN <<>> ELSE server_outbound[r]
      BY <2>1, <1>1, <1>5
    <2>3. \A d \in Clients :
              \/ cid_tcp_socket_'[d] = cid_tcp_socket_[d]
              \/ d = c /\ server_rx[s] # <<>> /\ cid_tcp_socket_[c] = NoSocket
                       /\ cid_tcp_socket_'[c] = s
      BY <2>1, <1>1, <1>2
    <2> QED BY <2>2, <2>3
  <1>9. s # NoSocket /\ s[1] = c /\ s[2] \in Nat
    BY <1>2, SocketTypes
  <1>10. \A d \in Clients : cid_tcp_socket_[d] # NoSocket =>
             cid_tcp_socket_'[d] = cid_tcp_socket_[d]
    BY <1>8
  <1>11. WireInv(c, s) /\ AnswerInv(c)
    BY <1>2 DEF ResponseInv
  <1>12. NumberInv'
    <2>1. /\ \A k \in 1 .. Len(responded) : responded[k][1] \in Clients
          /\ \A k \in 1 .. Len(incoming_requests_) : incoming_requests_[k][1] \in Clients
      BY ResponseTypes, ItemFields
    <2>2. NumberInv
      BY DEF ResponseInv
    <2>3. /\ \A k \in 1 .. Len(responded) : cid_tcp_socket_'[responded[k][1]] # NoSocket
          /\ \A k \in 1 .. Len(incoming_requests_) :
                 cid_tcp_socket_'[incoming_requests_[k][1]] # NoSocket
      BY <2>1, <2>2, <1>10 DEF NumberInv
    <2> QED BY <2>2, <2>3, <1>u DEF NumberInv, Passed
  <1>13. ASSUME NEW r \in Sockets PROVE WireInv(r[1], r)'
    <2>1. WireInv(r[1], r) /\ r[1] \in Clients /\ r # NoSocket
      BY SocketTypes DEF ResponseInv
    <2>2. CASE r = s
      <3>1. WireOk(q, o, top) /\ Told(responded, c, q) /\ Told(responded, c, o)
        BY <1>3, <1>4, <1>7, <1>11 DEF WireInv
      <3>2. WireOk(q \o sent, <<>>, top) /\ Told(responded, c, q \o sent)
        BY <3>1, <1>6, WireSent
      <3>3. Told(responded, c, <<>>)
        BY EmptyWire
      <3>4. s # cid_tcp_socket_'[c] => q \o sent = <<>>
        <4>1. ASSUME s # cid_tcp_socket_'[c] PROVE s # cid_tcp_socket_[c]
          BY <4>1, <1>8
        <4>2. s # cid_tcp_socket_[c] => q = <<>> /\ o = <<>>
          BY <1>3, <1>4, <1>11 DEF WireInv
        <4>3. o = <<>> => sent = <<>>
          BY <1>6
        <4>4. <<>> \o <<>> = <<>>
          OBVIOUS
        <4> QED BY <4>1, <4>2, <4>3, <4>4
      <3>5. client_rx'[s] = q \o sent /\ server_outbound'[s] = <<>>
        BY <1>8
      <3> QED BY <2>2, <3>2, <3>3, <3>4, <3>5, <1>2, <1>7, <1>u DEF WireInv
    <2>3. CASE r # s
      <3>1. r # cid_tcp_socket_'[r[1]] => r # cid_tcp_socket_[r[1]]
        BY <2>1, <1>10
      <3>2. client_rx'[r] = client_rx[r] /\ server_outbound'[r] = server_outbound[r]
        BY <2>3, <1>8
      <3> QED BY <2>1, <3>1, <3>2, <1>u DEF WireInv
    <2> QED BY <2>2, <2>3
  <1>14. ASSUME NEW d \in Clients PROVE AnswerInv(d)'
    <2>1. AnswerInv(d)
      BY DEF ResponseInv
    <2>2. CASE cid_tcp_socket_'[d] = cid_tcp_socket_[d]
      BY <2>1, <2>2, <1>u DEF AnswerInv
    <2>3. CASE /\ d = c /\ server_rx[s] # <<>> /\ cid_tcp_socket_[c] = NoSocket
               /\ cid_tcp_socket_'[c] = s
      <3>1. NoSocket # <<c, conn[c]>>
        <4>1. 1 \in DOMAIN <<c, conn[c]>> /\ 1 \notin DOMAIN <<>>
          OBVIOUS
        <4> QED BY <4>1 DEF NoSocket
      <3>2. next_exp_seq_num_[c] = 1 /\ answers[c] = <<>>
        BY <2>1, <2>3, <3>1 DEF AnswerInv
      <3> QED BY <2>1, <2>3, <3>2, <1>9, <1>u DEF AnswerInv
    <2> QED BY <2>2, <2>3, <1>8
  <1>15. GapInv'
    <2> SUFFICES ASSUME Reliable PROVE GapInv'
      BY <1>u DEF GapInv, Reliable
    <2>1. /\ ~misnumbered /\ \A d \in Clients : conn[d] <= 1
          /\ \A d \in Clients : cid_tcp_socket_[d] # NoSocket =>
                 NoGaps(client_rx[cid_tcp_socket_[d]], server_outbound[cid_tcp_socket_[d]],
                        next_exp_seq_num_[d], cid_next_outgoing_seq_num_[d])
      BY DEF GapInv
    <2>2. \A d \in Clients : cid_tcp_socket_[d] # NoSocket =>
              cid_tcp_socket_[d] \in Sockets /\ cid_tcp_socket_[d][1] = d
      BY DEF RequestInv, TakenInv
    <2>3. sent = o
      BY <1>6 DEF Reliable
    <2>4. ASSUME NEW d \in Clients, NEW r, r = cid_tcp_socket_'[d], r # NoSocket
          PROVE  NoGaps(client_rx'[r], server_outbound'[r],
                        next_exp_seq_num_[d], cid_next_outgoing_seq_num_[d])
      <3>1. CASE r = cid_tcp_socket_[d] /\ r = s
        <4>1. NoGaps(q, o, next_exp_seq_num_[d], cid_next_outgoing_seq_num_[d])
          BY <2>1, <2>4, <3>1, <1>3, <1>4
        <4>2. NoGaps(q \o o, <<>>, next_exp_seq_num_[d], cid_next_outgoing_seq_num_[d])
          <5>1. next_exp_seq_num_[d] \in Nat /\ cid_next_outgoing_seq_num_[d] \in Nat
            BY ResponseTypes
          <5> QED BY <4>1, <5>1, NoGapsSent
        <4>3. client_rx'[s] = q \o o /\ server_outbound'[s] = <<>>
          BY <2>3, <1>8
        <4> QED BY <3>1, <4>2, <4>3
      <3>2. CASE r = cid_tcp_socket_[d] /\ r # s
        <4>1. r \in Sockets
          BY <2>2, <2>4, <3>2
        <4>2. client_rx'[r] = client_rx[r] /\ server_outbound'[r] = server_outbound[r]
          BY <3>2, <4>1, <1>8
        <4> QED BY <2>1, <2>4, <3>2, <4>2
      <3>3. CASE r # cid_tcp_socket_[d]
        <4>1. d = c /\ cid_tcp_socket_[c] = NoSocket /\ r = s
          BY <2>4, <3>3, <1>8
        <4>2. q = <<>> /\ o = <<>>
          BY <4>1, <1>3, <1>4, <1>9, <1>11 DEF WireInv
        <4>3. NoSocket # <<c, conn[c]>>
          <5>1. 1 \in DOMAIN <<c, conn[c]>> /\ 1 \notin DOMAIN <<>>
            OBVIOUS
          <5> QED BY <5>1 DEF NoSocket
        <4>4. next_exp_seq_num_[c] = 1
          BY <4>1, <4>3, <1>11 DEF AnswerInv
        <4>5. top = 1
          <5>1. NumberInv /\ Passed \in Nat
            BY DEF ResponseInv, NumberInv
          <5>2. \A k \in 1 .. Passed : k \in 1 .. Len(responded)
            BY <5>1, ResponseTypes DEF Passed
          <5>3. \A k \in 1 .. Passed : responded[k][1] # c
            BY <4>1, <5>1, <5>2 DEF NumberInv
          <5>4. {k \in 1 .. Passed : responded[k][1] = c} = {}
            BY <5>3
          <5>5. CountTo(responded, c, Passed) = 0
            BY <5>4, FS_EmptySet DEF CountTo
          <5> QED BY <5>1, <5>5, <1>7 DEF NumberInv
        <4>6. client_rx'[s] = <<>> /\ server_outbound'[s] = <<>>
          <5>1. <<>> \o <<>> = <<>>
            OBVIOUS
          <5> QED BY <2>3, <4>2, <5>1, <1>8
        <4>7. NoGaps(<<>>, <<>>, 1, 1)
          BY DEF NoGaps, From
        <4> QED BY <4>1, <4>4, <4>5, <4>6, <4>7, <1>7
      <3> QED BY <3>1, <3>2, <3>3
    <2>5. \A d \in Clients : cid_tcp_socket_'[d] # NoSocket =>
              NoGaps(client_rx'[cid_tcp_socket_'[d]], server_outbound'[cid_tcp_socket_'[d]],
                     next_exp_seq_num_[d], cid_next_outgoing_seq_num_[d])
      BY <2>4
    <2> QED BY <2>1, <2>5, <1>u DEF GapInv
  <1> QED BY <1>12, <1>13, <1>14, <1>15 DEF ResponseInv

\* The requests that the sequencer publishes are of clients with a socket.
LEMMA ResponsesOfPublish ==
    ASSUME Shape, RequestInv, ResponseInv, GapInv, SequenceAndPublish
    PROVE  ResponseInv' /\ GapInv'
  <1>1. PICK p \in [1 .. Len(pending_client_requests_) -> 1 .. Len(pending_client_requests_)] :
            incoming_requests_' = incoming_requests_ \o Batch(pending_client_requests_, p)
    BY Published
  <1>2. UNCHANGED <<load, conn, next_exp_seq_num_, answers, misnumbered, client_rx,
                    server_outbound, cid_tcp_socket_, cid_next_outgoing_seq_num_,
                    outgoing_responses_, responded>>
    BY DEF SequenceAndPublish, clientVars, kernelVars
  <1>3. PICK q \in Seq(PendingRequest) : q = pending_client_requests_
    BY DEF Shape
  <1>4. /\ Batch(q, p) \in Seq(Item) /\ Len(Batch(q, p)) = Len(q)
        /\ \A k \in 1 .. Len(q) : p[k] \in 1 .. Len(q) /\ Batch(q, p)[k] = q[p[k]].request_
    BY <1>1, <1>3, BatchIs
  <1>5. IsJoin(incoming_requests_', incoming_requests_, Batch(q, p))
    BY <1>1, <1>3, <1>4, ResponseTypes, Joined
  <1>6. ASSUME NEW k \in 1 .. Len(incoming_requests_')
        PROVE  cid_tcp_socket_[incoming_requests_'[k][1]] # NoSocket
    <2>1. CASE k \in 1 .. Len(incoming_requests_)
      BY <2>1, <1>5 DEF IsJoin, ResponseInv, NumberInv
    <2>2. CASE k \notin 1 .. Len(incoming_requests_)
      <3>1. PICK i \in 1 .. Len(q) : incoming_requests_'[k] = Batch(q, p)[i]
        BY <2>2, <1>4, <1>5 DEF IsJoin
      <3>2. p[i] \in 1 .. Len(q) /\ incoming_requests_'[k] = q[p[i]].request_
        BY <3>1, <1>4
      <3>3. cid_tcp_socket_[q[p[i]].request_[1]] \in Sockets
        BY <3>2, <1>3, PendingTaken
      <3>4. cid_tcp_socket_[q[p[i]].request_[1]] # NoSocket
        BY <3>3, SocketIs
      <3> QED BY <3>2, <3>4
    <2> QED BY <2>1, <2>2
  <1>7. NumberInv'
    BY <1>2, <1>6 DEF ResponseInv, NumberInv, Passed
  <1>8. ASSUME NEW s \in Sockets PROVE WireInv(s[1], s)'
    BY <1>2 DEF ResponseInv, WireInv
  <1>9. ASSUME NEW c \in Clients PROVE AnswerInv(c)'
    BY <1>2 DEF ResponseInv, AnswerInv
  <1>10. GapInv'
    BY <1>2 DEF GapInv, Reliable
  <1> QED BY <1>7, <1>8, <1>9, <1>10 DEF ResponseInv

\* One more response without a gap.
LEMMA NoGapsMore ==
    ASSUME NEW q \in Seq(ResponseMsg), NEW o \in Seq(ResponseMsg), NEW m \in ResponseMsg,
           NEW first \in Nat, NEW next \in Nat, NoGaps(q, o, first, next), m.seq_num_ = next
    PROVE  NoGaps(q, Append(o, m), first, next + 1)
  <1> DEFINE p == Append(o, m)
  <1>1. /\ Len(p) = Len(o) + 1 /\ Len(o) \in Nat
        /\ \A k \in 1 .. Len(o) : p[k] = o[k]
        /\ p[Len(o) + 1] = m
        /\ \A k \in 1 .. Len(p) : k \notin 1 .. Len(o) => k = Len(o) + 1
    BY OneMore
  <1> HIDE DEF p
  <1>2. Len(q) \in Nat
    OBVIOUS
  <1>3. Len(q) + Len(o) = next - first /\ From(q, first) /\ From(o, first + Len(q))
    BY DEF NoGaps
  <1>4. Len(q) + Len(p) = (next + 1) - first
    BY <1>1, <1>2, <1>3
  <1>5. ASSUME NEW k \in 1 .. Len(p) PROVE p[k].seq_num_ = (first + Len(q)) + k - 1
    <2>1. CASE k \in 1 .. Len(o)
      BY <2>1, <1>1, <1>3 DEF From
    <2>2. CASE k \notin 1 .. Len(o)
      <3>1. k = Len(o) + 1 /\ p[k].seq_num_ = next
        BY <2>2, <1>1
      <3> QED BY <3>1, <1>1, <1>2, <1>3
    <2> QED BY <2>1, <2>2
  <1>6. From(p, first + Len(q))
    BY <1>5 DEF From
  <1> QED BY <1>3, <1>4, <1>6 DEF NoGaps, p

\* A response is numbered by how many went to its client before it.
LEMMA ResponsesOfSend ==
    ASSUME Shape, RequestInv, ResponseInv, GapInv, SendResponse
    PROVE  ResponseInv' /\ GapInv'
  <1>1. PICK P \in Nat : P = Passed
    BY DEF ResponseInv, NumberInv
  <1>2. /\ outgoing_responses_ \in Seq(Item) /\ outgoing_responses_ # <<>>
        /\ outgoing_responses_' = Tail(outgoing_responses_)
    BY ResponseTypes DEF SendResponse
  <1>3. PICK m \in Nat : m = Len(outgoing_responses_)
    BY ResponseTypes
  <1>4. /\ Len(outgoing_responses_') = m - 1 /\ m >= 1
        /\ \A k \in 1 .. m - 1 : outgoing_responses_'[k] = outgoing_responses_[k + 1]
        /\ Head(outgoing_responses_) = outgoing_responses_[1]
        /\ outgoing_responses_[1] \in Item
    BY <1>2, <1>3
  <1>5. /\ \A k \in 1 .. m : outgoing_responses_[k] = responded[P + k]
        /\ Len(responded) = P + m
    BY <1>1, <1>3, ResponseTypes DEF ResponseInv, NumberInv, Passed
  <1>6. PICK c \in Clients, n \in Nat : outgoing_responses_[1] = <<c, n>>
    BY <1>4 DEF Item
  <1>7. responded[P + 1] = <<c, n>> /\ P + 1 \in 1 .. Len(responded)
    BY <1>4, <1>5, <1>6
  <1>8. cid_tcp_socket_[c] # NoSocket
    BY <1>7 DEF ResponseInv, NumberInv
  <1>9. PICK s \in Sockets : s = cid_tcp_socket_[c] /\ s[1] = c
    BY <1>8 DEF RequestInv, TakenInv
  <1>10. PICK top \in Nat : top = cid_next_outgoing_seq_num_[c]
    BY ResponseTypes
  <1>11. PICK o \in Seq(ResponseMsg) : o = server_outbound[s]
    BY ResponseTypes
  <1>12. PICK msg \in ResponseMsg : msg = [seq_num_ |-> top, client_id_ |-> c, n |-> n]
    BY DEF ResponseMsg
  <1>u. UNCHANGED <<load, conn, next_exp_seq_num_, answers, misnumbered, client_rx,
                    cid_tcp_socket_, incoming_requests_, responded>>
    BY DEF SendResponse, clientVars, kernelVars
  <1>13. /\ \A r \in Sockets :
                server_outbound'[r] = IF r = s THEN Append(o, msg) ELSE server_outbound[r]
         /\ \A d \in Clients : cid_next_outgoing_seq_num_'[d] =
                IF d = c THEN top + 1 ELSE cid_next_outgoing_seq_num_[d]
    <2>1. /\ server_outbound \in [Sockets -> Seq(ResponseMsg)]
          /\ cid_next_outgoing_seq_num_ \in [Clients -> Nat]
      BY DEF Shape
    <2>2. Head(outgoing_responses_)[1] = c /\ Head(outgoing_responses_)[2] = n
      BY <1>4, <1>6
    <2>3. /\ server_outbound' = [server_outbound EXCEPT ![s] = Append(@, msg)]
          /\ cid_next_outgoing_seq_num_' = [cid_next_outgoing_seq_num_ EXCEPT ![c] = @ + 1]
      BY <2>2, <1>9, <1>10, <1>12 DEF SendResponse
    <2> QED BY <2>1, <2>3, <1>10, <1>11
  <1>14. top = CountTo(responded, c, P) + 1
    BY <1>1, <1>10 DEF ResponseInv, NumberInv
  <1>15. CountTo(responded, c, P + 1) = top /\ top >= 1
    <2>1. responded[P + 1][1] = c
      BY <1>7
    <2> QED BY <2>1, <1>14, CountStep
  <1>16. NthIs(responded, c, top, n)
    BY <1>7, <1>15 DEF NthIs
  <1>17. Passed' = P + 1
    BY <1>1, <1>3, <1>4, <1>5, <1>u DEF Passed
  <1>18. NumberInv'
    <2>1. \A k \in 1 .. m - 1 : outgoing_responses_'[k] = responded[(P + 1) + k]
      <3> TAKE k \in 1 .. m - 1
      <3>1. k + 1 \in 1 .. m /\ P + (k + 1) = (P + 1) + k
        OBVIOUS
      <3> QED BY <3>1, <1>4, <1>5
    <2>2. ASSUME NEW d \in Clients
          PROVE  cid_next_outgoing_seq_num_'[d] = CountTo(responded, d, P + 1) + 1
      <3>1. CASE d = c
        BY <3>1, <1>13, <1>15
      <3>2. CASE d # c
        <4>1. responded[P + 1][1] # d
          BY <3>2, <1>7
        <4>2. CountTo(responded, d, P + 1) = CountTo(responded, d, P)
          BY <4>1, CountStep
        <4> QED BY <3>2, <4>2, <1>1, <1>13 DEF ResponseInv, NumberInv
      <3> QED BY <3>1, <3>2
    <2>3. P + 1 \in Nat
      OBVIOUS
    <2>4. /\ \A k \in 1 .. Len(responded) : cid_tcp_socket_[responded[k][1]] # NoSocket
          /\ \A k \in 1 .. Len(incoming_requests_) :
                 cid_tcp_socket_[incoming_requests_[k][1]] # NoSocket
      BY DEF ResponseInv, NumberInv
    <2> QED BY <2>1, <2>2, <2>3, <2>4, <1>4, <1>17, <1>u DEF NumberInv
  <1>19. ASSUME NEW r \in Sockets PROVE WireInv(r[1], r)'
    <2>1. WireInv(r[1], r) /\ r[1] \in Clients
      BY SocketTypes DEF ResponseInv
    <2>2. CASE r = s
      <3>1. PICK q \in Seq(ResponseMsg) : q = client_rx[s]
        BY ResponseTypes
      <3>2. WireOk(q, o, top) /\ Told(responded, c, q) /\ Told(responded, c, o)
        BY <2>1, <2>2, <3>1, <1>9, <1>10, <1>11 DEF WireInv
      <3>3. msg.seq_num_ = top /\ msg.n = n
        BY <1>12
      <3>4. WireOk(q, Append(o, msg), top + 1) /\ Told(responded, c, Append(o, msg))
        BY <3>2, <3>3, <1>15, <1>16, WireMore
      <3>5. /\ client_rx'[s] = q /\ server_outbound'[s] = Append(o, msg)
            /\ cid_next_outgoing_seq_num_'[c] = top + 1 /\ cid_tcp_socket_'[c] = s
        BY <3>1, <1>9, <1>13, <1>u
      <3> QED BY <2>2, <3>2, <3>4, <3>5, <1>9, <1>u DEF WireInv
    <2>3. CASE r # s /\ r[1] = c
      <3>1. client_rx[r] = <<>> /\ server_outbound[r] = <<>>
        BY <2>1, <2>3, <1>9 DEF WireInv
      <3>2. client_rx'[r] = <<>> /\ server_outbound'[r] = <<>>
        BY <2>3, <3>1, <1>13, <1>u
      <3> QED BY <3>2, EmptyWire DEF WireInv
    <2>4. CASE r # s /\ r[1] # c
      <3>1. /\ client_rx'[r] = client_rx[r] /\ server_outbound'[r] = server_outbound[r]
            /\ cid_next_outgoing_seq_num_'[r[1]] = cid_next_outgoing_seq_num_[r[1]]
        BY <2>1, <2>4, <1>13, <1>u
      <3> QED BY <2>1, <3>1, <1>u DEF WireInv
    <2> QED BY <2>2, <2>3, <2>4
  <1>20. ASSUME NEW d \in Clients PROVE AnswerInv(d)'
    <2>1. AnswerInv(d) /\ next_exp_seq_num_[d] \in Nat /\ cid_next_outgoing_seq_num_[d] \in Nat
      BY ResponseTypes DEF ResponseInv
    <2>2. next_exp_seq_num_[d] \in 1 .. cid_next_outgoing_seq_num_[d]
      BY <2>1 DEF AnswerInv
    <2>3. next_exp_seq_num_[d] \in 1 .. cid_next_outgoing_seq_num_'[d]
      <3>1. CASE d = c
        BY <3>1, <2>2, <1>10, <1>13
      <3>2. CASE d # c
        BY <3>2, <2>2, <1>13
      <3> QED BY <3>1, <3>2
    <2> QED BY <2>1, <2>3, <1>u DEF AnswerInv
  <1>21. GapInv'
    <2> SUFFICES ASSUME Reliable PROVE GapInv'
      BY <1>u DEF GapInv, Reliable
    <2>1. /\ ~misnumbered /\ \A d \in Clients : conn[d] <= 1
          /\ \A d \in Clients : cid_tcp_socket_[d] # NoSocket =>
                 NoGaps(client_rx[cid_tcp_socket_[d]], server_outbound[cid_tcp_socket_[d]],
                        next_exp_seq_num_[d], cid_next_outgoing_seq_num_[d])
      BY DEF GapInv
    <2>2. ASSUME NEW d \in Clients, NEW r, r = cid_tcp_socket_[d], r # NoSocket
          PROVE  NoGaps(client_rx[r], server_outbound'[r],
                        next_exp_seq_num_[d], cid_next_outgoing_seq_num_'[d])
      <3>1. r \in Sockets /\ r[1] = d
        BY <2>2 DEF RequestInv, TakenInv
      <3>2. NoGaps(client_rx[r], server_outbound[r],
                   next_exp_seq_num_[d], cid_next_outgoing_seq_num_[d])
        BY <2>1, <2>2
      <3>3. CASE d = c
        <4>1. r = s
          BY <2>2, <3>3, <1>9
        <4>2. PICK q \in Seq(ResponseMsg) : q = client_rx[s]
          BY ResponseTypes
        <4>3. PICK first \in Nat : first = next_exp_seq_num_[c]
          BY ResponseTypes
        <4>4. NoGaps(q, o, first, top)
          BY <3>2, <3>3, <4>1, <4>2, <4>3, <1>10, <1>11
        <4>5. msg.seq_num_ = top
          BY <1>12
        <4>6. NoGaps(q, Append(o, msg), first, top + 1)
          BY <4>4, <4>5, NoGapsMore
        <4> QED BY <3>3, <4>1, <4>2, <4>3, <4>6, <1>13
      <3>4. CASE d # c
        <4>1. r # s
          BY <3>1, <3>4, <1>9
        <4> QED BY <3>1, <3>2, <3>4, <4>1, <1>13
      <3> QED BY <3>3, <3>4
    <2>3. \A d \in Clients : cid_tcp_socket_[d] # NoSocket =>
              NoGaps(client_rx[cid_tcp_socket_[d]], server_outbound'[cid_tcp_socket_[d]],
                     next_exp_seq_num_[d], cid_next_outgoing_seq_num_'[d])
      BY <2>2
    <2> QED BY <2>1, <2>3, <1>u DEF GapInv
  <1> QED BY <1>18, <1>19, <1>20, <1>21 DEF ResponseInv

\* What was told of the history stays true of a longer one.
LEMMA ToldStays ==
    ASSUME NEW h \in Seq(Item), NEW t \in Seq(Item), NEW c, NEW q
    PROVE  /\ Told(h, c, q) => Told(h \o t, c, q)
           /\ AnswersAre(h, c, q) => AnswersAre(h \o t, c, q)
  <1>1. ASSUME Told(h, c, q), NEW i \in 1 .. Len(q)
        PROVE  NthIs(h \o t, c, q[i].seq_num_, q[i].n)
    <2>1. NthIs(h, c, q[i].seq_num_, q[i].n)
      BY <1>1 DEF Told
    <2> QED BY <2>1, NthStays
  <1>2. ASSUME AnswersAre(h, c, q), NEW k \in 1 .. Len(q)
        PROVE  NthIs(h \o t, c, k, q[k])
    <2>1. NthIs(h, c, k, q[k])
      BY <1>2 DEF AnswersAre
    <2> QED BY <2>1, NthStays
  <1> QED BY <1>1, <1>2 DEF Told, AnswersAre

\* The engine adds to the history and to its queue alike, for clients that have
\* a socket.
LEMMA ResponsesOfEngine ==
    ASSUME Shape, RequestInv, ResponseInv, GapInv, EngineStep
    PROVE  ResponseInv' /\ GapInv'
  <1>1. PICK h \in Seq(Item) : h = responded
    BY ResponseTypes
  <1>2. PICK o \in Seq(Item) : o = outgoing_responses_
    BY ResponseTypes
  <1>3. PICK in \in Seq(Item) : in = incoming_requests_ /\ in # <<>>
    BY ResponseTypes, EngineAnswers
  <1>4. Head(in) \in Item /\ incoming_requests_' = Tail(in) /\ Head(in) = in[1]
    BY <1>3, EngineAnswers
  <1>5. PICK fill \in Seq(Item) :
            /\ outgoing_responses_' = o \o (<<Head(in)>> \o fill)
            /\ responded' = h \o (<<Head(in)>> \o fill)
            /\ \/ fill = <<>>
               \/ \E j \in 1 .. Len(h) : fill = << <<h[j][1], 0>> >>
    BY <1>1, <1>2, <1>3, EngineAnswers
  <1>6. PICK new \in Seq(Item) : new = <<Head(in)>> \o fill /\ IsJoin(new, <<Head(in)>>, fill)
    <2>1. <<Head(in)>> \in Seq(Item)
      BY <1>4
    <2> QED BY <2>1, Joined
  <1>7. PICK g \in Seq(Item) : g = responded' /\ g = h \o new /\ IsJoin(g, h, new)
    BY <1>5, <1>6, Joined
  <1>8. PICK p \in Seq(Item) : p = outgoing_responses_' /\ IsJoin(p, o, new)
    BY <1>5, <1>6, Joined
  <1>u. UNCHANGED <<load, conn, next_exp_seq_num_, answers, misnumbered, client_rx,
                    server_outbound, cid_tcp_socket_, cid_next_outgoing_seq_num_>>
    BY DEF EngineStep, clientVars, kernelVars, serverVars
  <1>9. /\ \A k \in 1 .. Len(h) : cid_tcp_socket_[h[k][1]] # NoSocket
        /\ \A k \in 1 .. Len(in) : cid_tcp_socket_[in[k][1]] # NoSocket
    BY <1>1, <1>3 DEF ResponseInv, NumberInv
  <1>10. ASSUME NEW k \in 1 .. Len(new) PROVE cid_tcp_socket_[new[k][1]] # NoSocket
    <2>1. Len(<<Head(in)>>) = 1 /\ <<Head(in)>>[1] = Head(in)
      OBVIOUS
    <2>2. CASE k = 1
      <3>1. new[k] = in[1] /\ 1 \in 1 .. Len(in)
        BY <2>1, <2>2, <1>3, <1>4, <1>6 DEF IsJoin
      <3> QED BY <3>1, <1>9
    <2>3. CASE k # 1
      <3>1. k - 1 \in 1 .. Len(fill) /\ new[k] = fill[k - 1]
        BY <2>1, <2>3, <1>6 DEF IsJoin
      <3>2. PICK j \in 1 .. Len(h) : fill = << <<h[j][1], 0>> >>
        BY <3>1, <1>5
      <3>3. new[k][1] = h[j][1]
        BY <3>1, <3>2
      <3> QED BY <3>3, <1>9
    <2> QED BY <2>2, <2>3
  <1>11. PICK P \in Nat : P = Passed
    BY DEF ResponseInv, NumberInv
  <1>12. Len(h) = P + Len(o) /\ Len(h) \in Nat /\ Len(o) \in Nat
    BY <1>1, <1>2, <1>11, ResponseTypes DEF Passed
  <1>13. Passed' = P
    BY <1>7, <1>8, <1>12 DEF Passed, IsJoin
  <1>14. NumberInv'
    <2>1. ASSUME NEW k \in 1 .. Len(p) PROVE p[k] = g[P + k]
      <3>1. CASE k \in 1 .. Len(o)
        <4>1. p[k] = o[k] /\ o[k] = h[P + k]
          BY <3>1, <1>1, <1>2, <1>8, <1>11 DEF IsJoin, ResponseInv, NumberInv
        <4>2. P + k \in 1 .. Len(h)
          BY <3>1, <1>12
        <4> QED BY <4>1, <4>2, <1>7 DEF IsJoin
      <3>2. CASE k \notin 1 .. Len(o)
        <4>1. k - Len(o) \in 1 .. Len(new) /\ p[k] = new[k - Len(o)]
          BY <3>2, <1>8 DEF IsJoin
        <4>2. P + k = Len(h) + (k - Len(o))
          BY <1>12
        <4> QED BY <4>1, <4>2, <1>7 DEF IsJoin
      <3> QED BY <3>1, <3>2
    <2>2. ASSUME NEW d \in Clients
          PROVE  cid_next_outgoing_seq_num_[d] = CountTo(g, d, P) + 1
      <3>1. \A k \in 1 .. P : g[k] = h[k]
        BY <1>7, <1>12 DEF IsJoin
      <3>2. CountTo(g, d, P) = CountTo(h, d, P)
        BY <3>1, CountPrefix
      <3> QED BY <3>2, <1>1, <1>11 DEF ResponseInv, NumberInv
    <2>3. ASSUME NEW k \in 1 .. Len(g) PROVE cid_tcp_socket_[g[k][1]] # NoSocket
      <3>1. CASE k \in 1 .. Len(h)
        BY <3>1, <1>7, <1>9 DEF IsJoin
      <3>2. CASE k \notin 1 .. Len(h)
        BY <3>2, <1>7, <1>10 DEF IsJoin
      <3> QED BY <3>1, <3>2
    <2>4. ASSUME NEW k \in 1 .. Len(Tail(in)) PROVE cid_tcp_socket_[Tail(in)[k][1]] # NoSocket
      <3>1. k + 1 \in 1 .. Len(in) /\ Tail(in)[k] = in[k + 1]
        BY <1>3
      <3> QED BY <3>1, <1>9
    <2> QED BY <2>1, <2>2, <2>3, <2>4, <1>4, <1>7, <1>8, <1>13, <1>u DEF NumberInv
  <1>15. ASSUME NEW s \in Sockets PROVE WireInv(s[1], s)'
    <2>1. WireInv(s[1], s)
      BY DEF ResponseInv
    <2>2. PICK a : a = client_rx[s]
      OBVIOUS
    <2>3. PICK b : b = server_outbound[s]
      OBVIOUS
    <2>4. Told(h, s[1], a) /\ Told(h, s[1], b)
      BY <2>1, <2>2, <2>3, <1>1 DEF WireInv
    <2>5. Told(g, s[1], a) /\ Told(g, s[1], b)
      BY <2>4, <1>7, ToldStays
    <2> QED BY <2>1, <2>2, <2>3, <2>5, <1>7, <1>u DEF WireInv
  <1>16. ASSUME NEW c \in Clients PROVE AnswerInv(c)'
    <2>1. AnswerInv(c)
      BY DEF ResponseInv
    <2>2. PICK a : a = answers[c]
      OBVIOUS
    <2>3. AnswersAre(h, c, a)
      BY <2>1, <2>2, <1>1 DEF AnswerInv
    <2>4. AnswersAre(g, c, a)
      BY <2>3, <1>7, ToldStays
    <2> QED BY <2>1, <2>2, <2>4, <1>7, <1>u DEF AnswerInv
  <1>17. GapInv'
    BY <1>u DEF GapInv, Reliable
  <1> QED BY <1>14, <1>15, <1>16, <1>17 DEF ResponseInv

\* Every step keeps the responses in their places.
LEMMA ResponsesKept ==
    ASSUME Shape, RequestInv, ResponseInv, GapInv, [WholeNext]_vars
    PROVE  ResponseInv' /\ GapInv'
  <1>1. ASSUME NEW c \in Clients, Start(c) PROVE ResponseInv' /\ GapInv'
    BY <1>1, ResponsesOfStart
  <1>2. ASSUME NEW c \in Clients, SendRequest(c) PROVE ResponseInv' /\ GapInv'
    <2>1. UNCHANGED <<load, conn, next_exp_seq_num_, answers, misnumbered, client_rx,
                      server_outbound, cid_tcp_socket_, cid_next_outgoing_seq_num_,
                      incoming_requests_, outgoing_responses_, responded>>
      BY <1>2 DEF SendRequest, kernelVars, serverVars, engineVars
    <2> QED BY <2>1, ResponsesFrame
  <1>3. ASSUME NEW c \in Clients, WholeClientSendAndRecv(c) PROVE ResponseInv' /\ GapInv'
    BY <1>3, ResponsesOfClient
  <1>4. CASE WholeServerSendAndRecv
    BY <1>4, ResponsesOfRound
  <1>5. CASE SequenceAndPublish
    BY <1>5, ResponsesOfPublish
  <1>6. CASE SendResponse
    BY <1>6, ResponsesOfSend
  <1>7. CASE EngineStep
    BY <1>7, ResponsesOfEngine
  <1>8. CASE Poll \/ WholeTooManyPending \/ NothingReceived \/ NextRound \/ EngineFatal
             \/ UNCHANGED vars
    <2>1. UNCHANGED <<load, conn, next_exp_seq_num_, answers, misnumbered, client_rx,
                      server_outbound, cid_tcp_socket_, cid_next_outgoing_seq_num_,
                      incoming_requests_, outgoing_responses_, responded>>
      BY <1>8 DEF Poll, WholeTooManyPending, NothingReceived, NextRound, EngineFatal,
                  vars, clientVars, kernelVars, serverVars, engineVars
    <2> QED BY <2>1, ResponsesFrame
  <1> QED BY <1>1, <1>2, <1>3, <1>4, <1>5, <1>6, <1>7, <1>8 DEF WholeNext, WholeServer

\* The inductive invariant of the response path, on top of the request path's.
THEOREM ResponsePath ==
    Spec => [](Unbroken => Shape /\ Own /\ RequestInv /\ ResponseInv /\ GapInv)
  <1>1. Init => ResponseInv /\ GapInv
    BY InitResponses
  <1>2. Shape /\ RequestInv /\ ResponseInv /\ GapInv /\ [WholeNext]_vars => (ResponseInv /\ GapInv)'
    BY ResponsesKept
  <1> QED BY <1>1, <1>2, WholeStep, CutStays, RequestPath, PTL DEF Spec

\* A client's trading engine gets the responses the matching engine sent to it, in
\* their order, none twice and none left out before another, as long as no send is
\* cut inside a record, whatever restarts and messages lost from send buffers do:
\* under every load, and with no assumption on the sort.
THEOREM ResponsesStayInOrder == Spec => [](Unbroken => ResponsesInOrder)
  <1>1. ASSUME Shape, ResponseInv PROVE ResponsesInOrder
    <2>1. ASSUME NEW c \in Clients, NEW k \in 1 .. Len(answers[c])
          PROVE  \E i \in 1 .. Len(responded) :
                     responded[i] = <<c, answers[c][k]>> /\ RespondedTo(c, i) = k
      <3>1. NthIs(responded, c, k, answers[c][k])
        BY <1>1 DEF ResponseInv, AnswerInv, AnswersAre
      <3>2. \A i : RespondedTo(c, i) = CountTo(responded, c, i)
        BY DEF RespondedTo, CountTo
      <3> QED BY <3>1, <3>2 DEF NthIs
    <2> QED BY <2>1 DEF ResponsesInOrder
  <1> QED BY <1>1, ResponsePath, PTL

\* Send buffers that do not fill leave every record whole.
LEMMA CutWhenFull == Spec => [](Reliable => Unbroken)
  <1>1. Init => (Reliable => Unbroken)
    BY DEF Init, Unbroken
  <1>2. ASSUME Reliable => Unbroken, [Next]_vars PROVE (Reliable => Unbroken)'
    <2>1. ASSUME NEW stream, NEW buffer, NEW part \in SentParts(buffer), ~load.send_may_fail
          PROVE  Cut(stream, part) = cut
      BY <2>1 DEF SentParts, Cut
    <2>2. ASSUME NEW c \in Clients, ClientSendAndRecv(c), ~load.send_may_fail
          PROVE  cut' = cut /\ load' = load
      <3>1. \E stream, b : \E part \in SentParts(b) : cut' = Cut(stream, part)
        BY <2>2 DEF ClientSendAndRecv
      <3> QED BY <2>1, <2>2, <3>1 DEF ClientSendAndRecv
    <2>3. ASSUME ServerSendAndRecv, ~load.send_may_fail PROVE cut' = cut /\ load' = load
      <3>1. \E stream, b : \E part \in SentParts(b) : cut' = Cut(stream, part)
        BY <2>3 DEF ServerSendAndRecv
      <3> QED BY <2>1, <2>3, <3>1 DEF ServerSendAndRecv
    <2>4. load' = load
      BY <1>2 DEF Next, Server, Start, SendRequest, ClientSendAndRecv, Poll, ServerSendAndRecv,
              TooManyPending, NoSuchClient, SequenceAndPublish, NothingReceived, SendResponse,
              NextRound, EngineStep, EngineFatal, vars
    <2>5. ASSUME NEW c \in Clients, Start(c) \/ SendRequest(c) PROVE cut' = cut
      BY <2>5 DEF Start, SendRequest, kernelVars
    <2>6. ASSUME \/ Poll \/ TooManyPending \/ NoSuchClient \/ SequenceAndPublish
                 \/ NothingReceived \/ SendResponse \/ NextRound \/ EngineStep \/ EngineFatal
                 \/ UNCHANGED vars
          PROVE  cut' = cut
      BY <2>6 DEF Poll, TooManyPending, NoSuchClient, SequenceAndPublish, NothingReceived,
                  SendResponse, NextRound, EngineStep, EngineFatal, vars, kernelVars
    <2>7. Reliable => cut' = cut
      BY <1>2, <2>2, <2>3, <2>5, <2>6 DEF Reliable, Next, Server
    <2> QED BY <1>2, <2>4, <2>7 DEF Reliable, Unbroken
  <1> QED BY <1>1, <1>2, PTL DEF Spec

\* A client that never restarts, on connections whose send buffers never fill,
\* finds every response it reads in sequence.
THEOREM NoneMisnumbered == Spec => []NoMisnumbered
  <1>1. (Reliable => Unbroken) /\ (Unbroken => GapInv) => NoMisnumbered
    BY DEF GapInv, NoMisnumbered
  <1> QED BY <1>1, CutWhenFull, ResponsePath, PTL

-----------------------------------------------------------------------------
(* Sequence numbers stay below the number of messages: counting responses. *)

\* p is s and then e.
Extends(p, s, e) ==
    /\ Len(s) \in Nat /\ Len(p) = Len(s) + 1
    /\ \A k \in 1 .. Len(s) : p[k] = s[k]
    /\ p[Len(s) + 1] = e

\* As Append makes it.
LEMMA Appended ==
    ASSUME NEW E, NEW s \in Seq(E), NEW e \in E
    PROVE  Append(s, e) \in Seq(E) /\ Extends(Append(s, e), s, e)
  <1>1. /\ Append(s, e) \in Seq(E) /\ Len(Append(s, e)) = Len(s) + 1 /\ Len(s) \in Nat
        /\ \A k \in 1 .. Len(s) : Append(s, e)[k] = s[k]
        /\ Append(s, e)[Len(s) + 1] = e
    BY OneMore
  <1> QED BY <1>1 DEF Extends

\* Two elements at once or one after the other.
LEMMA TwoMore ==
    ASSUME NEW E, NEW s \in Seq(E), NEW e \in E, NEW f \in E
    PROVE  Extends(s \o (<<e>> \o <<f>>), Append(s, e), f)
  <1>1. PICK t \in Seq(E) : t = <<e>> \o <<f>> /\ IsJoin(t, <<e>>, <<f>>)
    <2>1. <<e>> \in Seq(E) /\ <<f>> \in Seq(E)
      OBVIOUS
    <2> QED BY <2>1, Joined
  <1>2. PICK g \in Seq(E) : g = s \o t /\ IsJoin(g, s, t)
    BY Joined
  <1>3. PICK p \in Seq(E) : p = Append(s, e) /\ Extends(p, s, e)
    BY Appended
  <1>4. Len(t) = 2 /\ t[1] = e /\ t[2] = f
    <2>1. /\ Len(<<e>>) = 1 /\ <<e>>[1] = e
          /\ Len(<<f>>) = 1 /\ <<f>>[1] = f
      OBVIOUS
    <2> QED BY <2>1, <1>1 DEF IsJoin
  <1>5. Len(s) \in Nat
    OBVIOUS
  <1>6. g[Len(s) + 1] = e /\ g[Len(s) + 2] = f /\ Len(g) = Len(s) + 2
    BY <1>2, <1>4 DEF IsJoin
  <1>7. /\ Len(p) = Len(s) + 1 /\ p[Len(s) + 1] = e
        /\ \A k \in 1 .. Len(s) : p[k] = s[k] /\ g[k] = s[k]
    BY <1>2, <1>3 DEF Extends, IsJoin
  <1>8. Extends(g, p, f)
    <2>1. Len(p) + 1 = Len(s) + 2 /\ Len(p) \in Nat
      BY <1>5, <1>7
    <2>2. ASSUME NEW k \in 1 .. Len(p) PROVE g[k] = p[k]
      <3>1. k \in 1 .. Len(s) \/ k = Len(s) + 1
        BY <1>5, <1>7
      <3> QED BY <3>1, <1>6, <1>7
    <2> QED BY <2>1, <2>2, <1>6 DEF Extends
  <1> QED BY <1>1, <1>2, <1>3, <1>8

\* The next request is answered.
LEMMA AnsweredMore ==
    ASSUME NEW h, NEW p, NEW e, NEW sq, NEW done \in Nat,
           Extends(p, h, e), Answered(h, sq, done), Once(sq), done + 1 \in 1 .. Len(sq),
           Len(sq) \in Nat, e = sq[done + 1], e[2] # 0
    PROVE  Answered(p, sq, done + 1)
  <1>1. ASSUME NEW k \in 1 .. Len(p) PROVE (k \in 1 .. Len(h) /\ p[k] = h[k]) \/ p[k] = e
    BY DEF Extends
  <1>2. ASSUME NEW k \in 1 .. Len(p), p[k][2] # 0 PROVE \E i \in 1 .. done + 1 : sq[i] = p[k]
    <2>1. CASE k \in 1 .. Len(h) /\ p[k] = h[k]
      <3>1. PICK i \in 1 .. done : sq[i] = h[k]
        BY <1>2, <2>1 DEF Answered
      <3>2. i \in 1 .. done + 1
        OBVIOUS
      <3> QED BY <2>1, <3>1, <3>2
    <2>2. CASE p[k] = e
      <3>1. done + 1 \in 1 .. done + 1
        OBVIOUS
      <3> QED BY <2>2, <3>1
    <2> QED BY <2>1, <2>2, <1>1
  <1>3. ASSUME NEW k \in 1 .. Len(h) PROVE h[k] # e
    <2> SUFFICES ASSUME h[k] = e PROVE FALSE
      OBVIOUS
    <2>1. PICK i \in 1 .. done : sq[i] = e
      BY DEF Answered
    <2>2. i \in 1 .. Len(sq) /\ i # done + 1
      OBVIOUS
    <2> QED BY <2>1, <2>2 DEF Once
  <1>4. ASSUME NEW j \in 1 .. Len(p), NEW k \in 1 .. Len(p), j # k, p[k][2] # 0
        PROVE  p[j] # p[k]
    <2>1. \A i \in 1 .. Len(p) : (i \in 1 .. Len(h) /\ p[i] = h[i])
                                 \/ (i = Len(h) + 1 /\ p[i] = e)
      BY DEF Extends
    <2>2. CASE j \in 1 .. Len(h) /\ k \in 1 .. Len(h)
      <3>1. p[j] = h[j] /\ p[k] = h[k]
        BY <2>2 DEF Extends
      <3> QED BY <2>2, <3>1, <1>4 DEF Answered
    <2>3. CASE j \notin 1 .. Len(h) \/ k \notin 1 .. Len(h)
      BY <2>1, <2>3, <1>3, <1>4
    <2> QED BY <2>2, <2>3
  <1> QED BY <1>2, <1>4 DEF Answered

\* A fill answers no request.
LEMMA AnsweredFill ==
    ASSUME NEW h, NEW p, NEW e, NEW sq, NEW done \in Nat,
           Extends(p, h, e), Answered(h, sq, done), e[2] = 0
    PROVE  Answered(p, sq, done)
  <1>1. ASSUME NEW k \in 1 .. Len(p) PROVE (k \in 1 .. Len(h) /\ p[k] = h[k]) \/ p[k] = e
    BY DEF Extends
  <1>2. ASSUME NEW k \in 1 .. Len(p), p[k][2] # 0 PROVE \E i \in 1 .. done : sq[i] = p[k]
    <2>1. k \in 1 .. Len(h) /\ p[k] = h[k]
      BY <1>1, <1>2
    <2> QED BY <1>2, <2>1 DEF Answered
  <1>3. ASSUME NEW j \in 1 .. Len(p), NEW k \in 1 .. Len(p), j # k, p[k][2] # 0
        PROVE  p[j] # p[k]
    <2>1. k \in 1 .. Len(h) /\ p[k] = h[k]
      BY <1>1, <1>3
    <2>2. CASE j \in 1 .. Len(h) /\ p[j] = h[j]
      BY <2>1, <2>2, <1>3 DEF Answered
    <2>3. CASE p[j] = e
      BY <2>3, <1>3
    <2> QED BY <2>2, <2>3, <1>1
  <1> QED BY <1>2, <1>3 DEF Answered

\* One response more is one fill more, or none.
LEMMA FilledMore ==
    ASSUME NEW h, NEW p, NEW e, Extends(p, h, e)
    PROVE  /\ Filled(h) \in Nat
           /\ Filled(p) = IF e[2] = 0 THEN Filled(h) + 1 ELSE Filled(h)
  <1> DEFINE A == {k \in 1 .. Len(h) : h[k][2] = 0}
             B == {k \in 1 .. Len(p) : p[k][2] = 0}
  <1>0. Len(h) \in Nat /\ Len(p) = Len(h) + 1 /\ p[Len(h) + 1] = e
    BY DEF Extends
  <1>1. IsFiniteSet(1 .. Len(h))
    BY <1>0, Interval
  <1>2. IsFiniteSet(A)
    BY <1>1, FS_Subset
  <1>3. Cardinality(A) \in Nat
    BY <1>2, FS_CardinalityType
  <1>4. e[2] = 0 => B = A \cup {Len(h) + 1} /\ Len(h) + 1 \notin A
    BY DEF Extends
  <1>5. e[2] # 0 => B = A
    BY DEF Extends
  <1> HIDE DEF A, B
  <1>6. e[2] = 0 => Cardinality(B) = Cardinality(A) + 1
    BY <1>2, <1>4, FS_AddElement
  <1> QED BY <1>3, <1>5, <1>6 DEF Filled, A, B

\* A longer list of requests.
LEMMA AnsweredOfMore ==
    ASSUME NEW h, NEW sq, NEW g, NEW t, NEW done \in Nat, IsJoin(g, sq, t),
           done <= Len(sq), Answered(h, sq, done)
    PROVE  Answered(h, g, done)
  <1>1. \A i \in 1 .. done : g[i] = sq[i]
    BY DEF IsJoin
  <1> QED BY <1>1 DEF Answered

\* Steps that leave requests and responses of the engine alone.
LEMMA CountFrame ==
    ASSUME CountInv, UNCHANGED <<load, incoming_requests_, sequenced, responded>>
    PROVE  CountInv'
  BY DEF CountInv, Done

\* The sequencer adds to the history and to the engine's queue alike.
LEMMA CountOfPublish ==
    ASSUME Shape, CountInv, SequenceAndPublish PROVE CountInv'
  <1>1. PICK q \in Seq(PendingRequest) : q = pending_client_requests_
    BY DEF Shape
  <1>2. PICK p \in [1 .. Len(q) -> 1 .. Len(q)] :
            /\ incoming_requests_' = incoming_requests_ \o Batch(q, p)
            /\ sequenced' = sequenced \o Batch(q, p)
    BY <1>1, Published
  <1>3. PICK t \in Seq(Item) : t = Batch(q, p)
    BY BatchIs
  <1>4. PICK in \in Seq(Item) : in = incoming_requests_
    BY DEF Shape
  <1>5. PICK sq \in Seq(Item) : sq = sequenced
    BY DEF Shape
  <1>6. PICK im \in Seq(Item) : im = incoming_requests_' /\ IsJoin(im, in, t)
    BY <1>2, <1>3, <1>4, Joined
  <1>7. PICK sm \in Seq(Item) : sm = sequenced' /\ IsJoin(sm, sq, t)
    BY <1>2, <1>3, <1>5, Joined
  <1>8. PICK d \in Nat : d = Done
    BY DEF CountInv
  <1>9. Len(sq) = d + Len(in) /\ Len(sq) \in Nat /\ Len(in) \in Nat
    BY <1>4, <1>5, <1>8 DEF Done
  <1>10. Done' = d
    BY <1>6, <1>7, <1>9 DEF Done, IsJoin
  <1>11. ASSUME NEW k \in 1 .. Len(im) PROVE im[k] = sm[d + k]
    <2>1. CASE k \in 1 .. Len(in)
      <3>1. im[k] = in[k] /\ in[k] = sq[d + k]
        BY <2>1, <1>4, <1>5, <1>6, <1>8 DEF IsJoin, CountInv
      <3>2. d + k \in 1 .. Len(sq)
        BY <2>1, <1>9
      <3> QED BY <3>1, <3>2, <1>7 DEF IsJoin
    <2>2. CASE k \notin 1 .. Len(in)
      <3>1. k - Len(in) \in 1 .. Len(t) /\ im[k] = t[k - Len(in)]
        BY <2>2, <1>6 DEF IsJoin
      <3>2. d + k = Len(sq) + (k - Len(in))
        BY <1>9
      <3> QED BY <3>1, <3>2, <1>7 DEF IsJoin
    <2> QED BY <2>1, <2>2
  <1>12. Answered(responded, sm, d)
    <2>1. Answered(responded, sq, d) /\ d <= Len(sq)
      BY <1>5, <1>8, <1>9 DEF CountInv
    <2> QED BY <2>1, <1>7, AnsweredOfMore
  <1>13. UNCHANGED <<load, responded>>
    BY DEF SequenceAndPublish
  <1> QED BY <1>6, <1>7, <1>10, <1>11, <1>12, <1>13 DEF CountInv

\* The engine answers the next request, and reports no more fills than there
\* may be.
LEMMA CountOfEngine ==
    ASSUME Shape, RequestInv, CountInv, EngineStep PROVE CountInv'
  <1>1. PICK h \in Seq(Item) : h = responded
    BY DEF Shape
  <1>2. PICK sq \in Seq(Item) : sq = sequenced
    BY DEF Shape
  <1>3. PICK in \in Seq(Item) : in = incoming_requests_ /\ in # <<>>
    BY EngineAnswers
  <1>4. PICK e \in Item : e = Head(in)
    BY <1>3, EngineAnswers
  <1>5. /\ incoming_requests_' = Tail(in) /\ e = in[1] /\ Len(in) \in Nat /\ Len(in) >= 1
        /\ Len(Tail(in)) = Len(in) - 1
        /\ \A k \in 1 .. Len(Tail(in)) : k + 1 \in 1 .. Len(in) /\ Tail(in)[k] = in[k + 1]
    BY <1>3, <1>4, EngineAnswers
  <1>6. PICK d \in Nat : d = Done
    BY DEF CountInv
  <1>7. Len(sq) = d + Len(in) /\ Len(sq) \in Nat
    BY <1>2, <1>3, <1>5, <1>6 DEF Done
  <1>8. d + 1 \in 1 .. Len(sq) /\ e = sq[d + 1]
    <2>1. d + 1 \in 1 .. Len(sq) /\ 1 \in 1 .. Len(in)
      BY <1>5, <1>7
    <2> QED BY <2>1, <1>2, <1>3, <1>5, <1>6 DEF CountInv
  <1>9. e[2] # 0
    <2>1. e[1] \in Clients /\ e[2] \in Nat /\ Taken(e[1], e[2])
      BY <1>2, <1>8, PendingTaken
    <2>2. e[2] \in 1 .. requested[e[1]]
      BY <2>1 DEF RequestInv, TakenInv
    <2> QED BY <2>2
  <1>u. load' = load /\ sequenced' = sequenced
    BY DEF EngineStep
  <1>10. Done' = d + 1
    <2>1. Done' = Len(sq) - Len(Tail(in))
      BY <1>2, <1>5, <1>u DEF Done
    <2>2. PICK x \in Nat : x = Len(in)
      BY <1>5
    <2>3. Len(Tail(in)) = x - 1 /\ Len(sq) = d + x
      BY <2>2, <1>5, <1>7
    <2>4. Len(sq) - Len(Tail(in)) = (d + x) - (x - 1)
      BY <2>3
    <2>5. (d + x) - (x - 1) = d + 1
      OBVIOUS
    <2> QED BY ONLY <2>1, <2>4, <2>5
  <1>11. \A k \in 1 .. Len(Tail(in)) : Tail(in)[k] = sq[(d + 1) + k]
    <2> TAKE k \in 1 .. Len(Tail(in))
    <2>1. k + 1 \in 1 .. Len(in) /\ Tail(in)[k] = in[k + 1] /\ d + (k + 1) = (d + 1) + k
      BY <1>5
    <2> QED BY <2>1, <1>2, <1>3, <1>6 DEF CountInv
  <1>12. PICK p \in Seq(Item) : p = Append(h, e) /\ Extends(p, h, e)
    BY Appended
  <1>13. Answered(p, sq, d + 1)
    <2>1. Answered(h, sq, d) /\ Once(sq)
      BY <1>1, <1>2, <1>6 DEF CountInv, RequestInv, RequestsOnce, Once
    <2> QED BY <2>1, <1>7, <1>8, <1>9, <1>12, AnsweredMore
  <1>14. Filled(p) = Filled(h) /\ Filled(h) \in Nat /\ Filled(h) <= load.fills
    <2>1. Filled(p) = Filled(h) /\ Filled(h) \in Nat
      BY <1>9, <1>12, FilledMore
    <2> QED BY <2>1, <1>1 DEF CountInv
  <1>15. PICK fill \in Seq(Item) :
             /\ responded' = h \o (<<e>> \o fill)
             /\ \/ fill = <<>>
                \/ /\ Cardinality({k \in 1 .. Len(h) : h[k][2] = 0}) < load.fills
                   /\ \E j \in 1 .. Len(h) : fill = << <<h[j][1], 0>> >>
    BY <1>1, <1>3, <1>4, EngineAnswers
  <1>16. CASE fill = <<>>
    <2>1. responded' = p
      BY <1>12, <1>15, <1>16
    <2> QED BY <2>1, <1>2, <1>5, <1>10, <1>11, <1>13, <1>14, <1>u DEF CountInv
  <1>17. CASE /\ Cardinality({k \in 1 .. Len(h) : h[k][2] = 0}) < load.fills
              /\ \E j \in 1 .. Len(h) : fill = << <<h[j][1], 0>> >>
    <2>1. PICK j \in 1 .. Len(h) : fill = << <<h[j][1], 0>> >>
      BY <1>17
    <2>2. PICK f \in Item : f = <<h[j][1], 0>>
      <3>1. h[j] \in Item
        OBVIOUS
      <3> QED BY <3>1 DEF Item
    <2>3. PICK g : g = h \o (<<e>> \o <<f>>) /\ Extends(g, p, f)
      BY <1>12, TwoMore
    <2>4. responded' = g
      BY <2>1, <2>2, <2>3, <1>15
    <2>5. f[2] = 0
      BY <2>2
    <2>6. Answered(g, sq, d + 1)
      BY <2>3, <2>5, <1>13, AnsweredFill
    <2>7. Filled(g) = Filled(p) + 1
      BY <2>3, <2>5, FilledMore
    <2>8. Filled(h) < load.fills
      BY <1>17 DEF Filled
    <2>9. Filled(g) <= load.fills
      BY <2>7, <2>8, <1>14, LoadIs
    <2> QED BY <2>4, <2>6, <2>9, <1>2, <1>5, <1>10, <1>11, <1>u DEF CountInv
  <1> QED BY <1>15, <1>16, <1>17

\* Every step keeps the count.
LEMMA CountKept ==
    ASSUME Shape, RequestInv, CountInv, [WholeNext]_vars
    PROVE  CountInv'
  <1>1. CASE SequenceAndPublish
    BY <1>1, CountOfPublish
  <1>2. CASE EngineStep
    BY <1>2, CountOfEngine
  <1>3. ASSUME NEW c \in Clients, Start(c) \/ SendRequest(c) \/ WholeClientSendAndRecv(c)
        PROVE  CountInv'
    <2>1. UNCHANGED <<load, incoming_requests_, sequenced, responded>>
      BY <1>3 DEF Start, SendRequest, WholeClientSendAndRecv, engineVars
    <2> QED BY <2>1, CountFrame
  <1>4. CASE Poll \/ WholeServerSendAndRecv \/ WholeTooManyPending \/ NothingReceived \/ SendResponse
             \/ NextRound \/ EngineFatal \/ UNCHANGED vars
    <2>1. UNCHANGED <<load, incoming_requests_, sequenced, responded>>
      BY <1>4 DEF Poll, WholeServerSendAndRecv, WholeTooManyPending, NothingReceived, SendResponse,
                  NextRound, EngineFatal, vars, engineVars
    <2> QED BY <2>1, CountFrame
  <1> QED BY <1>1, <1>2, <1>3, <1>4 DEF WholeNext, WholeServer

\* At first there is nothing to count.
LEMMA InitCount == Init => CountInv
  <1> SUFFICES ASSUME Init PROVE CountInv
    OBVIOUS
  <1>1. /\ incoming_requests_ = <<>> /\ sequenced = <<>> /\ responded = <<>>
        /\ load.fills \in Nat
    BY InitShape, LoadIs DEF Init
  <1>2. Done = 0
    BY <1>1 DEF Done
  <1>3. Filled(<<>>) = 0
    <2>1. {k \in 1 .. Len(<<>>) : <<>>[k][2] = 0} = {}
      OBVIOUS
    <2> QED BY <2>1, FS_EmptySet DEF Filled
  <1>4. Answered(<<>>, <<>>, 0)
    BY DEF Answered
  <1> QED BY <1>1, <1>2, <1>3, <1>4 DEF CountInv

\* All of the gateway's invariant.
THEOREM GatewayInvariant == Spec => [](Unbroken => IInv)
  <1>1. Init => CountInv
    BY InitCount
  <1>2. Shape /\ RequestInv /\ CountInv /\ [WholeNext]_vars => CountInv'
    BY CountKept
  <1>3. Shape /\ Own /\ RequestInv /\ ResponseInv /\ GapInv /\ CountInv => IInv
    BY DEF IInv
  <1> QED BY <1>1, <1>2, <1>3, WholeStep, CutStays, ResponsePath, PTL DEF Spec

\* The responses to a client: one for each of its requests at most, and the fills.
LEMMA ResponsesBounded ==
    ASSUME NEW h \in Seq(Item), NEW c, NEW sq, NEW done, NEW req \in Nat, NEW m \in 0 .. Len(h),
           Answered(h, sq, done),
           \A k \in 1 .. Len(h) : h[k][1] = c /\ h[k][2] # 0 => h[k][2] \in 1 .. req
    PROVE  /\ CountTo(h, c, m) \in Nat /\ Filled(h) \in Nat
           /\ CountTo(h, c, m) <= req + Filled(h)
  <1> DEFINE A == {k \in 1 .. m : h[k][1] = c}
             N == {k \in 1 .. Len(h) : h[k][1] = c /\ h[k][2] # 0}
             Z == {k \in 1 .. Len(h) : h[k][2] = 0}
             f == [k \in N |-> h[k][2]]
  <1>1. Len(h) \in Nat
    OBVIOUS
  <1>2. IsFiniteSet(1 .. Len(h)) /\ IsFiniteSet(1 .. req) /\ Cardinality(1 .. req) = req
    <2>1. 1 \in Int /\ req \in Int /\ 1 <= req + 1 /\ Len(h) \in Int /\ 1 <= Len(h) + 1
      BY <1>1
    <2>2. IsFiniteSet(1 .. Len(h))
      BY <2>1, Interval
    <2>3. IsFiniteSet(1 .. req) /\ Cardinality(1 .. req) = req - 1 + 1
      BY <2>1, Interval
    <2> QED BY <2>2, <2>3
  <1>3. IsFiniteSet(N) /\ IsFiniteSet(Z)
    BY <1>2, FS_Subset
  <1>4. \A k \in N : h[k] = <<c, h[k][2]>>
    <2>1. \A k \in 1 .. Len(h) : h[k] \in Item
      OBVIOUS
    <2>2. \A x \in Item : x = <<x[1], x[2]>>
      BY DEF Item
    <2> QED BY <2>1, <2>2
  <1>5. f \in Injection(N, 1 .. req)
    <2>1. f \in [N -> 1 .. req]
      OBVIOUS
    <2>2. ASSUME NEW j \in N, NEW k \in N, f[j] = f[k] PROVE j = k
      <3>1. h[j] = h[k]
        BY <2>2, <1>4
      <3> QED BY <3>1 DEF Answered
    <2> QED BY <2>1, <2>2 DEF Injection, IsInjective
  <1>6. Cardinality(N) <= req
    BY <1>2, <1>5, FS_Injection
  <1>7. A \in SUBSET (N \cup Z)
    BY <1>1
  <1> HIDE DEF A, N, Z, f
  <1>8. /\ IsFiniteSet(N \cup Z) /\ IsFiniteSet(N \cap Z)
        /\ Cardinality(N \cup Z) = Cardinality(N) + Cardinality(Z) - Cardinality(N \cap Z)
    BY <1>3, FS_Union, FS_Intersection
  <1>9. IsFiniteSet(A) /\ Cardinality(A) <= Cardinality(N \cup Z)
    BY <1>7, <1>8, FS_Subset
  <1>10. /\ Cardinality(A) \in Nat /\ Cardinality(N) \in Nat /\ Cardinality(Z) \in Nat
         /\ Cardinality(N \cup Z) \in Nat /\ Cardinality(N \cap Z) \in Nat
    BY <1>3, <1>8, <1>9, FS_CardinalityType
  <1>11. Cardinality(A) <= req + Cardinality(Z)
    BY <1>6, <1>8, <1>9, <1>10
  <1> QED BY <1>10, <1>11 DEF CountTo, Filled, A, Z

\* What is of its type in any state, whatever was cut.
Light ==
    /\ load \in Loads
    /\ conn \in [Clients -> 0 .. MaxRestarts + 1]
    /\ cut \subseteq {"requests", "responses"} \X Sockets
    /\ backlog \in Seq(Sockets) /\ receive_sockets_ \in Seq(Sockets) /\ at \in Nat \ {0}
    /\ cid_tcp_socket_ \in [Clients -> Sockets \cup {NoSocket}]
    /\ requested \in [Clients -> Nat] /\ next_outgoing_seq_num_ \in [Clients -> Nat]
    /\ \A c \in Clients : /\ requested[c] <= load.requests[c]
                          /\ next_outgoing_seq_num_[c] \in 1 .. requested[c] + 1
    /\ spc \in {"poll", "recv", "respond", "exit"}
    /\ misnumbered \in BOOLEAN

\* Every step keeps it.
LEMMA LightKept ==
    ASSUME Light, [Next]_vars
    PROVE  Light'
  <1>0. /\ load \in Loads /\ load \in Load
        /\ conn \in [Clients -> 0 .. MaxRestarts + 1]
        /\ cut \subseteq {"requests", "responses"} \X Sockets
        /\ backlog \in Seq(Sockets) /\ receive_sockets_ \in Seq(Sockets) /\ at \in Nat \ {0}
        /\ cid_tcp_socket_ \in [Clients -> Sockets \cup {NoSocket}]
        /\ requested \in [Clients -> Nat] /\ next_outgoing_seq_num_ \in [Clients -> Nat]
        /\ load.requests \in [Clients -> 0 .. MaxRequests] /\ MaxRequests \in Nat
        /\ load.restarts \in 0 .. MaxRestarts /\ MaxRestarts \in Nat
    BY GatewayAssumption DEF Light, Load
  <1>1. ASSUME NEW c \in Clients, Start(c) PROVE Light'
    <2>1. conn[c] + 1 \in 1 .. MaxRestarts + 1
      BY <1>0, <1>1 DEF Start
    <2>2. <<c, conn[c] + 1>> \in Sockets
      BY <2>1 DEF Sockets
    <2>3. backlog' \in Seq(Sockets)
      BY <1>0, <1>1, <2>2 DEF Start
    <2>4. conn' \in [Clients -> 0 .. MaxRestarts + 1]
      BY <1>0, <1>1, <2>1 DEF Start
    <2>5. /\ next_outgoing_seq_num_' \in [Clients -> Nat]
          /\ \A d \in Clients : next_outgoing_seq_num_'[d]
                                    = IF d = c THEN 1 ELSE next_outgoing_seq_num_[d]
      BY <1>0, <1>1 DEF Start
    <2>6. UNCHANGED <<load, requested, cut, receive_sockets_, at, cid_tcp_socket_, spc, misnumbered>>
      BY <1>1 DEF Start, kernelVars
    <2>7. ASSUME NEW d \in Clients PROVE next_outgoing_seq_num_'[d] \in 1 .. requested[d] + 1
      <3>1. requested[d] \in Nat /\ next_outgoing_seq_num_[d] \in 1 .. requested[d] + 1
        BY <1>0 DEF Light
      <3> QED BY <3>1, <2>5
    <2> QED BY <2>3, <2>4, <2>5, <2>6, <2>7 DEF Light
  <1>2. ASSUME NEW c \in Clients, SendRequest(c) PROVE Light'
    <2>1. /\ requested' = [requested EXCEPT ![c] = @ + 1]
          /\ next_outgoing_seq_num_' = [next_outgoing_seq_num_ EXCEPT ![c] = @ + 1]
          /\ requested[c] < load.requests[c]
      BY <1>2 DEF SendRequest
    <2>2. UNCHANGED <<load, conn, cut, backlog, receive_sockets_, at, cid_tcp_socket_, spc,
                      misnumbered>>
      BY <1>2 DEF SendRequest, kernelVars, serverVars
    <2>3. requested' \in [Clients -> Nat] /\ next_outgoing_seq_num_' \in [Clients -> Nat]
      BY <1>0, <2>1
    <2>4. ASSUME NEW d \in Clients
          PROVE  /\ requested'[d] <= load.requests[d]
                 /\ next_outgoing_seq_num_'[d] \in 1 .. requested'[d] + 1
      <3>1. requested[d] <= load.requests[d] /\ next_outgoing_seq_num_[d] \in 1 .. requested[d] + 1
        BY DEF Light
      <3>2. /\ requested'[d] = IF d = c THEN requested[d] + 1 ELSE requested[d]
            /\ next_outgoing_seq_num_'[d] = IF d = c THEN next_outgoing_seq_num_[d] + 1
                                            ELSE next_outgoing_seq_num_[d]
        BY <1>0, <2>1
      <3>3. requested[d] \in Nat /\ load.requests[d] \in Nat
        BY <1>0
      <3> QED BY <3>1, <3>2, <3>3, <2>1
    <2> QED BY <2>2, <2>3, <2>4 DEF Light
  <1>3. ASSUME NEW way \in {"requests", "responses"}, NEW s \in Sockets, NEW part
        PROVE  Cut(<<way, s>>, part) \subseteq {"requests", "responses"} \X Sockets
    BY <1>0 DEF Cut
  <1>4. ASSUME NEW c \in Clients, ClientSendAndRecv(c) PROVE Light'
    <2>1. <<c, conn[c]>> \in Sockets
      <3>1. conn[c] \in 1 .. MaxRestarts + 1
        BY <1>0, <1>4 DEF ClientSendAndRecv
      <3> QED BY <3>1 DEF Sockets
    <2>2. cut' \subseteq {"requests", "responses"} \X Sockets
      <3>1. \E part : cut' = Cut(<<"requests", <<c, conn[c]>> >>, part)
        BY <1>4 DEF ClientSendAndRecv
      <3> QED BY <3>1, <2>1, <1>3
    <2>3. misnumbered' \in BOOLEAN
      BY <1>4 DEF ClientSendAndRecv
    <2>4. UNCHANGED <<load, conn, requested, next_outgoing_seq_num_, backlog, receive_sockets_, at,
                      cid_tcp_socket_, spc>>
      BY <1>4 DEF ClientSendAndRecv, serverVars
    <2> QED BY <2>2, <2>3, <2>4 DEF Light
  <1>5. CASE Poll
    <2>1. receive_sockets_' \in Seq(Sockets) /\ backlog' \in Seq(Sockets) /\ at' \in Nat \ {0}
      <3>1. receive_sockets_ \o backlog \in Seq(Sockets)
        BY <1>0, Joined
      <3> QED BY <3>1, <1>5 DEF Poll
    <2>2. /\ spc' = "recv"
          /\ UNCHANGED <<load, conn, requested, next_outgoing_seq_num_, cut, cid_tcp_socket_,
                         misnumbered>>
      BY <1>5 DEF Poll, clientVars, kernelVars
    <2> QED BY <2>1, <2>2 DEF Light
  <1>6. CASE ServerSendAndRecv
    <2>1. PICK s \in Sockets : s = receive_sockets_[at]
      <3>1. at \in 1 .. Len(receive_sockets_)
        BY <1>0, <1>6 DEF ServerSendAndRecv
      <3>2. receive_sockets_[at] \in Sockets
        BY <1>0, <3>1
      <3> QED BY <3>2
    <2>2. cut' \subseteq {"requests", "responses"} \X Sockets
      <3>1. \E part : cut' = Cut(<<"responses", s>>, part)
        BY <1>6, <2>1 DEF ServerSendAndRecv
      <3> QED BY <3>1, <1>3
    <2>3. cid_tcp_socket_' \in [Clients -> Sockets \cup {NoSocket}]
      <3>1. PICK misread :
                cid_tcp_socket_' = [c \in Clients |->
                    IF c \in (misread.named \cup (IF TornIn(Arrived(s)) < Len(server_rx[s])
                                                  THEN {s[1]} ELSE {})) \cap Open(s)
                    THEN s ELSE cid_tcp_socket_[c]]
        BY <1>6, <2>1 DEF ServerSendAndRecv
      <3> QED BY <3>1, <1>0
    <2>4. /\ at' = at + 1
          /\ UNCHANGED <<load, conn, requested, next_outgoing_seq_num_, backlog, receive_sockets_,
                         spc, misnumbered>>
      BY <1>6 DEF ServerSendAndRecv, clientVars
    <2>5. at' \in Nat \ {0}
      BY <1>0, <2>4
    <2> QED BY <2>2, <2>3, <2>4, <2>5 DEF Light
  <1>7. CASE TooManyPending \/ NoSuchClient \/ SequenceAndPublish \/ NothingReceived
             \/ SendResponse \/ NextRound \/ EngineStep \/ EngineFatal \/ UNCHANGED vars
    <2>1. UNCHANGED <<load, conn, requested, next_outgoing_seq_num_, cut, backlog,
                      receive_sockets_, at, cid_tcp_socket_, misnumbered>>
      BY <1>7 DEF TooManyPending, NoSuchClient, SequenceAndPublish, NothingReceived,
                  SendResponse, NextRound, EngineStep, EngineFatal, vars, clientVars, kernelVars,
                  serverVars
    <2>2. spc' \in {"poll", "recv", "respond", "exit"}
      BY <1>7 DEF TooManyPending, NoSuchClient, SequenceAndPublish, NothingReceived,
                  SendResponse, NextRound, EngineStep, EngineFatal, vars, serverVars, Light
    <2> QED BY <2>1, <2>2 DEF Light
  <1> QED BY <1>1, <1>2, <1>4, <1>5, <1>6, <1>7 DEF Next, Server

\* The type invariant: while no send is cut inside a record no sequence number on
\* either side runs past the messages there are to number, whatever clients,
\* kernel, server and engine do.
THEOREM TypeCorrect == Spec => []TypeOK
  <1>1. ASSUME IInv, Light PROVE TypeOK
    <2>0. Shape /\ RequestInv /\ ResponseInv /\ CountInv
      BY <1>1 DEF IInv
    <2>1. /\ cid_tcp_socket_ \in [Clients -> Sockets \cup {NoSocket}]
          /\ requested \in [Clients -> Nat]
          /\ responded \in Seq(Item) /\ outgoing_responses_ \in Seq(Item)
          /\ cid_next_outgoing_seq_num_ \in [Clients -> Nat]
          /\ next_exp_seq_num_ \in [Clients -> Nat]
          /\ next_outgoing_seq_num_ \in [Clients -> Nat]
          /\ cid_next_exp_seq_num_ \in [Clients -> Nat]
      BY <2>0 DEF Shape
    <2>2. load.requests \in [Clients -> Nat] /\ load.fills \in Nat
      BY <2>0, LoadIs
    <2>3. PICK h \in Seq(Item) : h = responded
      BY <2>1
    <2>4. PICK P \in Nat : P = Passed
      BY <2>0 DEF ResponseInv, NumberInv
    <2>5. P \in 0 .. Len(h)
      <3>1. Len(h) \in Nat /\ Len(outgoing_responses_) \in Nat
        BY <2>1
      <3>2. P = Len(h) - Len(outgoing_responses_)
        BY <2>3, <2>4 DEF Passed
      <3> QED BY <3>1, <3>2
    <2>6. Answered(h, sequenced, Done) /\ Filled(h) <= load.fills
      BY <2>0, <2>3 DEF CountInv
    <2>7. ASSUME NEW c \in Clients
          PROVE  /\ requested[c] \in 0 .. load.requests[c]
                 /\ next_outgoing_seq_num_[c] \in 1 .. load.requests[c] + 1
                 /\ cid_next_exp_seq_num_[c] \in 1 .. load.requests[c] + 1
                 /\ {next_exp_seq_num_[c], cid_next_outgoing_seq_num_[c]} \subseteq
                        1 .. load.requests[c] + load.fills + 1
      <3>1. PICK req \in Nat : req = requested[c]
        BY <2>1
      <3>2. PICK r \in Nat : r = load.requests[c]
        BY <2>2
      <3>3. PICK top \in Nat : top = cid_next_outgoing_seq_num_[c]
        BY <2>1
      <3>4. OutInv(c) /\ TakenInv(c) /\ AnswerInv(c)
        BY <2>0 DEF RequestInv, ResponseInv
      <3>5. /\ req <= r /\ next_outgoing_seq_num_[c] \in 1 .. req + 1
            /\ cid_next_exp_seq_num_[c] \in 1 .. req + 1
        BY <3>1, <3>2, <3>4 DEF OutInv, TakenInv
      <3>6. next_exp_seq_num_[c] \in 1 .. top
        BY <3>3, <3>4 DEF AnswerInv
      <3>7. top = CountTo(h, c, P) + 1
        BY <2>0, <2>3, <2>4, <3>3 DEF ResponseInv, NumberInv
      <3>8. ASSUME NEW k \in 1 .. Len(h), h[k][1] = c, h[k][2] # 0
            PROVE  h[k][2] \in 1 .. req
        <4>1. PICK i \in 1 .. Done : sequenced[i] = h[k]
          BY <2>6, <3>8 DEF Answered
        <4>2. i \in 1 .. Len(sequenced)
          <5>0. sequenced \in Seq(Item) /\ incoming_requests_ \in Seq(Item)
            BY <2>0 DEF Shape
          <5>1. Len(sequenced) \in Nat /\ Len(incoming_requests_) \in Nat
            BY ONLY <5>0
          <5> QED BY <5>1 DEF Done
        <4>3. h[k][2] \in Nat /\ Taken(c, h[k][2])
          BY <2>0, <3>8, <4>1, <4>2, PendingTaken
        <4> QED BY <3>1, <3>4, <4>3 DEF TakenInv
      <3>9. /\ CountTo(h, c, P) \in Nat /\ Filled(h) \in Nat
            /\ CountTo(h, c, P) <= req + Filled(h)
        BY <2>5, <2>6, <3>8, ResponsesBounded
      <3>10. PICK x \in Nat : x = CountTo(h, c, P)
        BY <3>9
      <3>11. PICK y \in Nat : y = Filled(h)
        BY <3>9
      <3>12. PICK z \in Nat : z = load.fills
        BY <2>2
      <3>13. top = x + 1 /\ x <= req + y /\ y <= z
        BY <2>6, <3>7, <3>9, <3>10, <3>11, <3>12
      <3>14. top \in 1 .. r + z + 1 /\ next_exp_seq_num_[c] \in 1 .. r + z + 1
        BY <3>5, <3>6, <3>13
      <3>15. req \in 0 .. r /\ next_outgoing_seq_num_[c] \in 1 .. r + 1
             /\ cid_next_exp_seq_num_[c] \in 1 .. r + 1
        BY <3>5
      <3> QED BY <3>1, <3>2, <3>3, <3>12, <3>14, <3>15
    <2> QED BY <2>7, <1>1 DEF TypeOK, Light
  <1>2. ASSUME Light, ~Unbroken PROVE TypeOK
    <2>1. ASSUME NEW c \in Clients
          PROVE  /\ requested[c] \in 0 .. load.requests[c]
                 /\ next_outgoing_seq_num_[c] \in 1 .. load.requests[c] + 1
      <3>1. /\ requested[c] \in Nat /\ requested[c] <= load.requests[c]
            /\ next_outgoing_seq_num_[c] \in 1 .. requested[c] + 1
            /\ load.requests[c] \in Nat
        BY <1>2, GatewayAssumption DEF Light, Load
      <3> QED BY <3>1
    <2> QED BY <2>1, <1>2 DEF TypeOK, Light
  <1>3. Init => Light
    <2> SUFFICES ASSUME Init PROVE Light
      OBVIOUS
    <2>1. load \in Loads /\ load.requests \in [Clients -> 0 .. MaxRequests] /\ MaxRestarts \in Nat
      BY GatewayAssumption DEF Init, Load
    <2>2. /\ load.requests \in [Clients -> Nat] /\ 0 \in 0 .. MaxRestarts + 1
          /\ <<>> \in Seq(Sockets) /\ 1 \in Nat \ {0}
      BY <2>1, GatewayAssumption
    <2>3. conn \in [Clients -> 0 .. MaxRestarts + 1]
      BY <2>2 DEF Init
    <2>4. \A c \in Clients : requested[c] <= load.requests[c]
                             /\ next_outgoing_seq_num_[c] \in 1 .. requested[c] + 1
      BY <2>2 DEF Init
    <2> QED BY <2>1, <2>2, <2>3, <2>4 DEF Init, Light
  <1> QED BY <1>1, <1>2, <1>3, LightKept, GatewayInvariant, PTL DEF Spec

-----------------------------------------------------------------------------
(* The exchange ends only on a burst: counting requests.                   *)

\* Different requests of a finite set, in a history and after it, are no more
\* than the set has.
LEMMA NoMoreThanMade ==
    ASSUME NEW h \in Seq(Item), NEW q \in Seq(PendingRequest), NEW M, IsFiniteSet(M),
           Once(h), Ordered(q), Continues(h, q),
           \A i \in 1 .. Len(h) : h[i] \in M,
           \A i \in 1 .. Len(q) : q[i].request_ \in M
    PROVE  Cardinality(M) \in Nat /\ Len(h) + Len(q) <= Cardinality(M)
  <1>1. PICK a \in Nat, b \in Nat : a = Len(h) /\ b = Len(q)
    OBVIOUS
  <1>2. PICK f : f = [i \in 1 .. a + b |-> IF i <= a THEN h[i] ELSE q[i - a].request_]
    OBVIOUS
  <1>3. ASSUME NEW i \in 1 .. a + b
        PROVE  /\ i <= a => i \in 1 .. a /\ f[i] = h[i]
               /\ ~(i <= a) => i - a \in 1 .. b /\ f[i] = q[i - a].request_
    BY <1>1, <1>2
  <1>4. f \in [1 .. a + b -> M]
    BY <1>1, <1>2, <1>3
  <1>5. ASSUME NEW i \in 1 .. b, NEW j \in 1 .. b, i < j
        PROVE  q[i].request_ # q[j].request_
    <2>1. q[i].request_[2] \in Nat
      BY <1>1, PendingFields
    <2>2. q[i].request_[1] = q[j].request_[1] => q[i].request_[2] < q[j].request_[2]
      BY <1>1, <1>5 DEF Ordered
    <2> QED BY <2>1, <2>2
  <1>6. ASSUME NEW i \in 1 .. a, NEW j \in 1 .. b PROVE h[i] # q[j].request_
    <2>1. h[i][2] \in Nat
      BY <1>1, ItemFields
    <2>2. h[i][1] = q[j].request_[1] => h[i][2] < q[j].request_[2]
      BY <1>1 DEF Continues
    <2> QED BY <2>1, <2>2
  <1>7. ASSUME NEW i \in 1 .. a + b, NEW j \in 1 .. a + b, i < j PROVE f[i] # f[j]
    <2>1. CASE j <= a
      <3>1. i \in 1 .. a /\ j \in 1 .. a /\ f[i] = h[i] /\ f[j] = h[j]
        BY <2>1, <1>3, <1>7
      <3> QED BY <3>1, <1>1, <1>7 DEF Once
    <2>2. CASE i <= a /\ ~(j <= a)
      BY <2>2, <1>3, <1>6
    <2>3. CASE ~(i <= a) /\ ~(j <= a)
      <3>1. /\ i - a \in 1 .. b /\ f[i] = q[i - a].request_
            /\ j - a \in 1 .. b /\ f[j] = q[j - a].request_
        BY <2>3, <1>3
      <3>2. i - a < j - a
        BY <1>1, <1>7
      <3> QED BY <3>1, <3>2, <1>5
    <2>4. i <= a \/ ~(j <= a)
      BY <1>1, <1>7
    <2> QED BY <2>1, <2>2, <2>3, <2>4
  <1>8. ASSUME NEW i \in 1 .. a + b, NEW j \in 1 .. a + b, f[i] = f[j] PROVE i = j
    <2>1. ~(i < j) /\ ~(j < i)
      BY <1>7, <1>8
    <2>2. i \in Int /\ j \in Int
      OBVIOUS
    <2> QED BY <2>1, <2>2
  <1>9. f \in Injection(1 .. a + b, M)
    BY <1>4, <1>8 DEF Injection, IsInjective
  <1>10. Cardinality(1 .. a + b) <= Cardinality(M)
    BY <1>9, FS_Injection
  <1>11. 1 \in Int /\ a + b \in Int /\ 1 <= a + b + 1
    BY <1>1
  <1>12. Cardinality(1 .. a + b) = a + b - 1 + 1
    BY <1>11, Interval
  <1>13. Cardinality(M) \in Nat
    BY FS_CardinalityType
  <1> QED BY <1>1, <1>10, <1>12, <1>13

\* The requests made are finitely many, those the server has accepted among them.
LEMMA MadeIs ==
    ASSUME Shape, RequestInv
    PROVE  /\ IsFiniteSet(Made) /\ Cardinality(Made) \in Nat
           /\ \A c \in Clients, n \in Nat :
                  n \in 1 .. requested[c] => <<c, n>> \in Made
  <1>1. IsFiniteSet(Clients) /\ MaxRequests \in Nat /\ load \in Load
    BY GatewayAssumption DEF Shape
  <1>2. 1 \in Int /\ MaxRequests \in Int
    BY <1>1
  <1>3. IsFiniteSet(1 .. MaxRequests)
    BY <1>2, FS_Interval
  <1>4. IsFiniteSet(Clients \X (1 .. MaxRequests))
    BY <1>1, <1>3, FS_Product
  <1>5. Made \in SUBSET (Clients \X (1 .. MaxRequests))
    BY DEF Made
  <1>6. IsFiniteSet(Made)
    BY <1>4, <1>5, FS_Subset
  <1>7. ASSUME NEW c \in Clients, NEW n \in Nat, n \in 1 .. requested[c]
        PROVE  <<c, n>> \in Made
    <2>1. requested[c] \in Nat /\ load.requests[c] \in 0 .. MaxRequests
      BY <1>1 DEF Shape, Load
    <2>2. requested[c] <= load.requests[c]
      BY DEF RequestInv, OutInv
    <2>3. n \in 1 .. MaxRequests /\ n <= requested[c]
      BY <1>1, <1>7, <2>1, <2>2
    <2> QED BY <2>3 DEF Made
  <1> QED BY <1>6, <1>7, FS_CardinalityType

\* The server finds no room: what it has passed on, what is pending and what it
\* should take are all different requests.
LEMMA EndsOnBurst ==
    ASSUME Shape, RequestInv, WholeTooManyPending
    PROVE  Cardinality(Made) - Len(sequenced) > load.max_pending
  <1>1. PICK s \in Sockets : ~Fits(WholeAccepted(s))
    <2>1. /\ at \in 1 .. Len(receive_sockets_) /\ receive_sockets_ \in Seq(Sockets)
          /\ ~Fits(WholeAccepted(receive_sockets_[at]))
      BY DEF WholeTooManyPending, Shape
    <2>2. receive_sockets_[at] \in Sockets
      BY <2>1
    <2> QED BY <2>1, <2>2
  <1>2. PICK c, T : c = s[1] /\ T = RxTime(server_rx[s])
    OBVIOUS
  <1>3. PICK g : g = WholeAccepted(s)
    OBVIOUS
  <1>4. /\ c \in Clients /\ g \in Seq(RequestMsg) /\ (Len(g) # 0 => T \in Nat)
        /\ \A k \in 1 .. Len(g) : g[k].n \in 1 .. requested[c]
        /\ Follow(c, T, g)
    BY <1>2, <1>3, AcceptedFollow
  <1>5. /\ Stamped(c, T, g) \in Seq(PendingRequest)
        /\ Len(Stamped(c, T, g)) = Len(g)
        /\ \A k \in 1 .. Len(g) : Stamped(c, T, g)[k].request_ = <<c, g[k].n>>
    BY <1>4, StampedIs
  <1>6. PICK a \in Seq(PendingRequest) : a = Stamped(c, T, g)
    BY <1>5
  <1>7. PICK q \in Seq(PendingRequest) : q = pending_client_requests_
    BY DEF Shape
  <1>8. PICK h \in Seq(Item) : h = sequenced
    BY DEF Shape
  <1>9. PICK p \in Seq(PendingRequest) : p = q \o a /\ IsJoin(p, q, a)
    BY Joined
  <1>10. Once(h) /\ Ordered(p) /\ Continues(h, p)
    BY <1>4, <1>6, <1>7, <1>8, <1>9 DEF Follow, RequestInv, RequestsOnce, Once
  <1>11. ASSUME NEW d \in Clients, NEW n \in Nat, Taken(d, n) PROVE <<d, n>> \in Made
    <2>1. n \in 1 .. requested[d]
      BY <1>11 DEF RequestInv, TakenInv
    <2> QED BY <2>1, MadeIs
  <1>12. ASSUME NEW i \in 1 .. Len(h) PROVE h[i] \in Made
    <2>1. h[i] = <<h[i][1], h[i][2]>> /\ h[i][1] \in Clients /\ h[i][2] \in Nat
      BY ItemFields
    <2>2. Taken(h[i][1], h[i][2])
      BY <1>8, PendingTaken
    <2> QED BY <2>1, <2>2, <1>11
  <1>13. ASSUME NEW i \in 1 .. Len(p) PROVE p[i].request_ \in Made
    <2>1. CASE i \in 1 .. Len(q)
      <3>1. p[i] = q[i]
        BY <2>1, <1>9 DEF IsJoin
      <3>2. /\ q[i].request_ = <<q[i].request_[1], q[i].request_[2]>>
            /\ q[i].request_[1] \in Clients /\ q[i].request_[2] \in Nat
        BY <2>1, PendingFields
      <3>3. Taken(q[i].request_[1], q[i].request_[2])
        BY <2>1, <1>7, PendingTaken
      <3> QED BY <3>1, <3>2, <3>3, <1>11
    <2>2. CASE i \notin 1 .. Len(q)
      <3>1. PICK k : k = i - Len(q)
        OBVIOUS
      <3>2. k \in 1 .. Len(g) /\ p[i] = a[k]
        BY <2>2, <3>1, <1>5, <1>6, <1>9 DEF IsJoin
      <3>3. p[i].request_ = <<c, g[k].n>>
        BY <3>2, <1>5, <1>6
      <3>4. g[k].n \in 1 .. requested[c] /\ g[k].n \in Nat
        BY <3>2, <1>4
      <3> QED BY <3>3, <3>4, <1>4, MadeIs
    <2> QED BY <2>1, <2>2
  <1>14. IsFiniteSet(Made)
    BY MadeIs
  <1>15. Cardinality(Made) \in Nat /\ Len(h) + Len(p) <= Cardinality(Made)
    BY <1>10, <1>12, <1>13, <1>14, NoMoreThanMade
  <1>16. PICK x \in Nat : x = Cardinality(Made)
    BY <1>15
  <1>17. PICK m \in Nat : m = load.max_pending
    BY LoadIs
  <1>18. Len(p) = Len(q) + Len(g) /\ Len(q) \in Nat /\ Len(g) \in Nat /\ Len(h) \in Nat
    BY <1>4, <1>5, <1>6, <1>9 DEF IsJoin
  <1>19. ~(Len(q) + Len(g) <= m)
    BY <1>1, <1>3, <1>7, <1>17 DEF Fits
  <1>20. x - Len(h) > m
    BY <1>15, <1>16, <1>17, <1>18, <1>19
  <1> QED BY <1>8, <1>16, <1>17, <1>20

\* More requests are under way than there are places for, at the end.
Burst == spc = "exit" => Cardinality(Made) - Len(sequenced) > load.max_pending

\* The engine gets requests that clients have made.
LEMMA NoneGarbled ==
    ASSUME Shape, RequestInv, CountInv
    PROVE  ~EngineFatal
  <1> SUFFICES ASSUME EngineFatal PROVE FALSE
    OBVIOUS
  <1>1. /\ incoming_requests_ \in Seq(Item) /\ sequenced \in Seq(Item)
        /\ incoming_requests_ # <<>> /\ Head(incoming_requests_)[2] = Garbled
    BY DEF EngineFatal, Shape
  <1>2. 1 \in 1 .. Len(incoming_requests_) /\ incoming_requests_[1][2] = Garbled
    BY ONLY <1>1
  <1>3. PICK D \in Nat : D = Done
    BY DEF CountInv
  <1>4. D + 1 \in 1 .. Len(sequenced)
    <2>1. D = Len(sequenced) - Len(incoming_requests_)
      BY <1>3 DEF Done
    <2>2. Len(sequenced) \in Nat /\ Len(incoming_requests_) \in Nat
      BY ONLY <1>1
    <2> QED BY ONLY <2>1, <2>2, <1>2, <1>3
  <1>5. sequenced[D + 1][2] = Garbled
    BY <1>2, <1>3 DEF CountInv
  <1>6. PICK c \in Clients, n \in Nat : sequenced[D + 1] = <<c, n>>
    <2>1. sequenced[D + 1] \in Item
      BY <1>1, <1>4
    <2> QED BY <2>1 DEF Item
  <1>7. Taken(c, n)
    BY <1>4, <1>6 DEF Taken
  <1>8. n \in 1 .. requested[c] /\ requested[c] <= load.requests[c]
    BY <1>7 DEF RequestInv, TakenInv, OutInv
  <1>9. load.requests[c] \in 0 .. MaxRequests /\ MaxRequests \in Nat /\ requested[c] \in Nat
    BY GatewayAssumption DEF Shape, Load
  <1>10. n = MaxRequests + 1
    BY <1>5, <1>6 DEF Garbled
  <1> QED BY ONLY <1>8, <1>9, <1>10

\* After the end requests only become more.
LEMMA BurstKept ==
    ASSUME Shape, RequestInv, CountInv, (Shape /\ RequestInv)', Burst, [WholeNext]_vars
    PROVE  Burst'
  <1> SUFFICES ASSUME spc' = "exit"
               PROVE  (Cardinality(Made) - Len(sequenced) > load.max_pending)'
    BY DEF Burst
  <1>1. PICK x \in Nat : x = Cardinality(Made)
    BY MadeIs
  <1>2. PICK m \in Nat : m = load.max_pending
    BY LoadIs
  <1>3. PICK n \in Nat : n = Len(sequenced)
    BY DEF Shape
  <1>4. CASE WholeTooManyPending
    <2>1. UNCHANGED <<requested, sequenced, load>>
      BY <1>4 DEF WholeTooManyPending, clientVars, engineVars
    <2>2. Cardinality(Made) - Len(sequenced) > load.max_pending
      BY <1>4, EndsOnBurst
    <2>3. Made' = Made
      BY <2>1 DEF Made
    <2> QED BY <2>1, <2>2, <2>3
  <1>5. CASE ~WholeTooManyPending
    <2>1. /\ spc = "exit" /\ sequenced' = sequenced /\ load' = load
          /\ \A c \in Clients : requested[c] <= requested'[c]
      <3>1. ASSUME NEW c \in Clients, NEW d \in Clients, Start(c) \/ WholeClientSendAndRecv(c)
            PROVE  /\ spc = "exit" /\ sequenced' = sequenced /\ load' = load
                   /\ requested[d] <= requested'[d]
        <4>1. UNCHANGED <<spc, sequenced, load, requested>>
          BY <3>1 DEF Start, WholeClientSendAndRecv, serverVars, engineVars
        <4>2. requested[d] \in Nat
          BY DEF Shape
        <4> QED BY <4>1, <4>2
      <3>2. ASSUME NEW c \in Clients, NEW d \in Clients, SendRequest(c)
            PROVE  /\ spc = "exit" /\ sequenced' = sequenced /\ load' = load
                   /\ requested[d] <= requested'[d]
        <4>1. /\ UNCHANGED <<spc, sequenced, load>>
              /\ requested' = [requested EXCEPT ![c] = @ + 1]
          BY <3>2 DEF SendRequest, serverVars, engineVars
        <4>2. requested \in [Clients -> Nat]
          BY DEF Shape
        <4> QED BY <4>1, <4>2
      <3>3. ASSUME NEW d \in Clients, UNCHANGED vars
            PROVE  /\ spc = "exit" /\ sequenced' = sequenced /\ load' = load
                   /\ requested[d] <= requested'[d]
        <4>1. UNCHANGED <<spc, sequenced, load, requested>>
          BY <3>3 DEF vars, clientVars, serverVars, engineVars
        <4>2. requested[d] \in Nat
          BY DEF Shape
        <4> QED BY <4>1, <4>2
      <3>4. ~(Poll \/ WholeServerSendAndRecv \/ SequenceAndPublish \/ NothingReceived
                \/ SendResponse \/ NextRound \/ EngineStep)
        BY DEF Poll, WholeServerSendAndRecv, SequenceAndPublish, NothingReceived, SendResponse,
               NextRound, EngineStep, serverVars
      <3>5. CASE UNCHANGED vars
        <4>1. UNCHANGED <<spc, sequenced, load>>
          BY <3>5 DEF vars, serverVars, engineVars
        <4> QED BY <3>3, <3>5, <4>1
      <3>6. CASE \E c \in Clients : Start(c) \/ SendRequest(c) \/ WholeClientSendAndRecv(c)
        BY <3>1, <3>2, <3>6
      <3> QED BY <3>4, <3>5, <3>6, <1>5, NoneGarbled DEF WholeNext, WholeServer
    <2>2. \A c \in Clients : requested[c] \in Nat /\ requested'[c] \in Nat
      BY DEF Shape
    <2>3. Made \in SUBSET Made'
      <3>1. ASSUME NEW r \in Made PROVE r \in Made'
        <4>1. r \in Clients \X (1 .. MaxRequests) /\ r[2] <= requested[r[1]]
          BY DEF Made
        <4>2. r[1] \in Clients /\ r[2] \in Nat
          BY <4>1
        <4>3. r[2] <= requested'[r[1]]
          BY <4>1, <4>2, <2>1, <2>2
        <4> QED BY <4>1, <4>3 DEF Made
      <3> QED BY <3>1
    <2>4. IsFiniteSet(Made') /\ Cardinality(Made') \in Nat
      <3>1. (IsFiniteSet(Made) /\ Cardinality(Made) \in Nat)'
        BY MadeIs, PTL
      <3> QED BY <3>1
    <2>5. Cardinality(Made) <= Cardinality(Made')
      BY <2>3, <2>4, FS_Subset
    <2>6. x - n > m
      BY <2>1, <1>1, <1>2, <1>3 DEF Burst
    <2>7. PICK y \in Nat : y = Cardinality(Made')
      BY <2>4
    <2>8. y - n > m
      BY <2>5, <2>6, <2>7, <1>1, <1>2, <1>3
    <2> QED BY <2>1, <2>7, <2>8, <1>2, <1>3
  <1> QED BY <1>4, <1>5

\* While no send is cut inside a record the exchange ends only when more requests
\* are under way at once than pending_client_requests_ has places for: the order
\* server never leaves requests behind there, nor takes one twice
\* (fifo_sequencer.hpp:4).
THEOREM AlwaysEndsOnBurst == Spec => []EndsOnlyOnBurst
  <1>1. Init => (Unbroken => Burst)
    BY DEF Init, Burst
  <1>2. /\ Shape /\ RequestInv /\ CountInv /\ (Shape /\ RequestInv)' /\ Burst /\ [WholeNext]_vars
        => Burst'
    BY BurstKept
  <1>3. (Unbroken => Burst) => EndsOnlyOnBurst
    BY DEF Burst, EndsOnlyOnBurst
  <1>4. IInv => Shape /\ Own /\ RequestInv /\ CountInv
    BY DEF IInv
  <1> QED BY <1>1, <1>2, <1>3, <1>4, WholeStep, CutStays, GatewayInvariant, PTL DEF Spec
=============================================================================
