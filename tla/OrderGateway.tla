----------------------------- MODULE OrderGateway -----------------------------
(***************************************************************************)
(* Orders from trading clients to the matching engine and the responses    *)
(* back: GatewayClient, TCPSocket and TCPServer, OrderServer and           *)
(* FIFOSequencer (src/order_gateway/, src/network/).                       *)
(*                                                                         *)
(* A request is <<c, n>>, the n-th request of client c; the engine answers *)
(* each with a response <<c, n>>, and may tell a client of a fill of one   *)
(* of its resting orders, <<c, 0>>, besides.  A socket is <<c, k>>, the    *)
(* k-th connection of client c.  The network is part of the kernel's       *)
(* receive buffer: a message sent is in it at once, and its arrival time   *)
(* is the next tick of `clock'.  The bytes of a connection are the records *)
(* its receiver frames: after a send that was cut inside a record each of  *)
(* them is Torn, part of one message and part of another.                  *)
(***************************************************************************)
EXTENDS Integers, Sequences, FiniteSets

CONSTANTS
    Clients,
    Loads,             \* what a behaviour may bring, see Load
    MaxRequests, MaxRestarts,   \* bounds for each client, under any load
    StableSize         \* std::sort keeps equal elements in order up to this
                       \* many elements (16 in libstdc++)

\* Bounds on the requests of each client, its restarts and the fills of
\* resting orders, whether a kernel send buffer may be full, and the size of
\* pending_client_requests_ (ME_MAX_PENDING_REQUESTS, 1024).
Load == [requests : [Clients -> 0 .. MaxRequests], restarts : 0 .. MaxRestarts, fills : Nat,
         send_may_fail : BOOLEAN, max_pending : Nat]

ASSUME GatewayAssumption ==
    /\ IsFiniteSet(Clients)
    /\ MaxRequests \in Nat /\ MaxRestarts \in Nat
    /\ Loads \subseteq Load
    /\ StableSize \in Nat

Sockets == Clients \X (1 .. MaxRestarts + 1)
NoSocket == <<>>

VARIABLES
    load,
    \* the clients
    conn,                       \* the connection in use, 0: not started
    requested,                  \* history: requests made
    next_outgoing_seq_num_, next_exp_seq_num_,
    client_outbound,            \* outbound_data_ of the client's socket
    answers,                    \* history: incoming_responses_
    misnumbered,                \* history: a response was passed over
    \* the kernel
    server_rx, client_rx,       \* unread data of each connection
    cut,                        \* history: streams on which a send took part
                                \* of a record, <<"requests" or "responses", s>>
    clock,                      \* arrival time of the last request
    \* the order server
    spc, at, recv,              \* where Run is, the socket, data was read
    backlog,                    \* connections not accepted yet
    receive_sockets_,
    server_outbound,            \* outbound_data_ of the server's sockets
    cid_tcp_socket_, cid_next_exp_seq_num_, cid_next_outgoing_seq_num_,
    pending_client_requests_,
    \* the matching engine's queues
    incoming_requests_, outgoing_responses_,
    sequenced,                  \* history: requests passed to the engine
    responded                   \* history: responses of the engine

clientVars == <<conn, requested, next_outgoing_seq_num_, next_exp_seq_num_,
                client_outbound, answers, misnumbered>>
kernelVars == <<server_rx, client_rx, cut, clock>>
serverVars == <<spc, at, recv, backlog, receive_sockets_, server_outbound,
                cid_tcp_socket_, cid_next_exp_seq_num_,
                cid_next_outgoing_seq_num_, pending_client_requests_>>
engineVars == <<incoming_requests_, outgoing_responses_, sequenced, responded>>
vars == <<load, clientVars, kernelVars, serverVars, engineVars>>

Init ==
    /\ load \in Loads
    /\ conn = [c \in Clients |-> 0]
    /\ requested = [c \in Clients |-> 0]
    /\ next_outgoing_seq_num_ = [c \in Clients |-> 1]
    /\ next_exp_seq_num_ = [c \in Clients |-> 1]
    /\ client_outbound = [c \in Clients |-> <<>>]
    /\ answers = [c \in Clients |-> <<>>]
    /\ misnumbered = FALSE
    /\ server_rx = [s \in Sockets |-> <<>>]
    /\ client_rx = [s \in Sockets |-> <<>>]
    /\ cut = {}
    /\ clock = 0
    /\ spc = "poll" /\ at = 1 /\ recv = FALSE
    /\ backlog = <<>> /\ receive_sockets_ = <<>>
    /\ server_outbound = [s \in Sockets |-> <<>>]
    /\ cid_tcp_socket_ = [c \in Clients |-> NoSocket]
    /\ cid_next_exp_seq_num_ = [c \in Clients |-> 1]
    /\ cid_next_outgoing_seq_num_ = [c \in Clients |-> 1]
    /\ pending_client_requests_ = <<>>
    /\ incoming_requests_ = <<>> /\ outgoing_responses_ = <<>> /\ sequenced = <<>>
    /\ responded = <<>>

-----------------------------------------------------------------------------
(* TCPSocket::SendAndRecv hands the whole buffer to send once and forgets  *)
(* it, whatever send returned: a number of bytes, of any part of it.       *)

\* How much of a buffer the kernel may take: the first messages whole, and
\* perhaps a piece of the next.
SentParts(buffer) ==
    IF load.send_may_fail
    THEN {part \in [whole : {SubSeq(buffer, 1, n) : n \in 0 .. Len(buffer)}, piece : BOOLEAN] :
             part.piece => Len(part.whole) < Len(buffer)}
    ELSE {[whole |-> buffer, piece |-> FALSE]}

\* A record of which the receiver reads other bytes than make up a message: it
\* has the number of none.  Read as a message, it is number Garbled.
Torn == [seq_num_ |-> 0]
Garbled == MaxRequests + 1

\* The records that part adds to a stream.  One that has been cut has bytes of
\* a message left over before each, and a second piece may fill a record up.
Framed(stream, part) ==
    IF stream \notin cut THEN {part.whole}
    ELSE {[k \in 1 .. n |-> Torn] :
             n \in Len(part.whole) .. Len(part.whole) + (IF part.piece THEN 1 ELSE 0)}

\* A cut is never mended.
Cut(stream, part) == IF part.piece THEN cut \cup {stream} ELSE cut

TornIn(msgs) == Cardinality({k \in 1 .. Len(msgs) : msgs[k].seq_num_ = 0})

\* The time passed to RecvCallback: the kernel's, of the last packet read.
RxTime(rx) == rx[Len(rx)].time

-----------------------------------------------------------------------------
(* The trading client.                                                     *)

\* The client process starts, or starts again: it connects with fresh state.
Start(c) ==
    /\ load.requests[c] > 0 /\ conn[c] <= load.restarts
    /\ conn' = [conn EXCEPT ![c] = @ + 1]
    /\ backlog' = Append(backlog, <<c, conn[c] + 1>>)
    /\ next_outgoing_seq_num_' = [next_outgoing_seq_num_ EXCEPT ![c] = 1]
    /\ next_exp_seq_num_' = [next_exp_seq_num_ EXCEPT ![c] = 1]
    /\ client_outbound' = [client_outbound EXCEPT ![c] = <<>>]
    /\ UNCHANGED <<load, requested, answers, misnumbered, kernelVars, spc, at,
                   recv, receive_sockets_, server_outbound, cid_tcp_socket_,
                   cid_next_exp_seq_num_, cid_next_outgoing_seq_num_,
                   pending_client_requests_, engineVars>>

\* Mutant: the sequence number is not incremented.
SendRequestSameNumber(c) ==
    /\ conn[c] > 0
    /\ requested[c] < load.requests[c]
    /\ requested' = [requested EXCEPT ![c] = @ + 1]
    /\ client_outbound' = [client_outbound EXCEPT ![c] =
           Append(@, [client_id_ |-> c, seq_num_ |-> next_outgoing_seq_num_[c],
                      n |-> requested[c] + 1])]
    /\ UNCHANGED <<load, next_outgoing_seq_num_, conn, next_exp_seq_num_,
                   answers, misnumbered, kernelVars, serverVars, engineVars>>

\* GatewayClient::Run takes a request from the trading engine.
SendRequest(c) ==
    /\ conn[c] > 0
    /\ requested[c] < load.requests[c]
    /\ requested' = [requested EXCEPT ![c] = @ + 1]
    /\ client_outbound' = [client_outbound EXCEPT ![c] =
           Append(@, [client_id_ |-> c, seq_num_ |-> next_outgoing_seq_num_[c],
                      n |-> requested[c] + 1])]
    /\ next_outgoing_seq_num_' = [next_outgoing_seq_num_ EXCEPT ![c] = @ + 1]
    /\ UNCHANGED <<load, conn, next_exp_seq_num_, answers, misnumbered,
                   kernelVars, serverVars, engineVars>>

\* The messages of a read that are of client c and carry the expected sequence
\* numbers, one after the other: the ones the receive loops of both sides
\* accept, which pass over any other.  Numbers grow along a connection (RxInv
\* and WireInv of OrderGatewayProofs), so a number passed over does not come
\* later.
InSequence(c, msgs, exp) ==
    LET own     == {k \in 1 .. Len(msgs) :
                       msgs[k].seq_num_ >= exp /\ msgs[k].client_id_ = c}
        numbers == {msgs[k].seq_num_ : k \in own}
        good    == {q \in numbers : exp .. q \subseteq numbers}
    IN  [i \in 1 .. Cardinality(good) |->
            msgs[CHOOSE k \in own : msgs[k].seq_num_ = exp + i - 1]]

\* SendAndRecv of the client: RecvCallback on all that has arrived, then send.
\* Any torn record may happen to carry the client's id and the next number.
ClientSendAndRecv(c) ==
    LET s      == <<c, conn[c]>>
        stream == <<"requests", s>>
        good   == InSequence(c, client_rx[s], next_exp_seq_num_[c])
    IN  /\ conn[c] > 0
        /\ client_rx[s] # <<>> \/ client_outbound[c] # <<>>
        /\ client_rx' = [client_rx EXCEPT ![s] = <<>>]
        /\ \E misread \in 0 .. TornIn(client_rx[s]) :
            /\ answers' = [answers EXCEPT ![c] =
                   @ \o [k \in 1 .. Len(good) |-> good[k].n] \o [k \in 1 .. misread |-> Garbled]]
            /\ misnumbered' = (misnumbered \/ Len(good) + misread < Len(client_rx[s]))
            /\ next_exp_seq_num_' = [next_exp_seq_num_ EXCEPT ![c] = @ + Len(good) + misread]
        /\ \E part \in SentParts(client_outbound[c]) :
            /\ \E sent \in Framed(stream, part) :
                /\ clock' = clock + Len(sent)
                /\ server_rx' = [server_rx EXCEPT ![s] = @ \o
                       [k \in 1 .. Len(sent) |-> [msg |-> sent[k], time |-> clock + k]]]
            /\ cut' = Cut(stream, part)
        /\ client_outbound' = [client_outbound EXCEPT ![c] = <<>>]
        /\ UNCHANGED <<load, conn, requested, next_outgoing_seq_num_,
                       serverVars, engineVars>>

-----------------------------------------------------------------------------
(* The order server's thread.                                              *)

\* TCPServer::Poll accepts every waiting connection; dead ones stay.
Poll ==
    /\ spc = "poll"
    /\ receive_sockets_' = receive_sockets_ \o backlog
    /\ backlog' = <<>>
    /\ spc' = "recv" /\ at' = 1 /\ recv' = FALSE
    /\ UNCHANGED <<load, clientVars, kernelVars, server_outbound,
                   cid_tcp_socket_, cid_next_exp_seq_num_,
                   cid_next_outgoing_seq_num_, pending_client_requests_,
                   engineVars>>

\* FIFOSequencer::AddClientRequest for each of the requests.
AddClientRequests(pending, rx_time, requests) ==
    pending \o [k \in 1 .. Len(requests) |-> [recv_time_ |-> rx_time,
                                              request_ |-> requests[k]]]

\* What has arrived on a socket.
Arrived(s) == [k \in 1 .. Len(server_rx[s]) |-> server_rx[s][k].msg]

\* The clients whose requests are taken on socket s: it is the socket their
\* first one comes on.
Open(s) == {c \in Clients : cid_tcp_socket_[c] \in {NoSocket, s}}

\* The messages OrderServer::RecvCallback takes from what has arrived on s: the
\* client's, in sequence.
Accepted(s) ==
    IF s[1] \in Open(s)
    THEN InSequence(s[1], Arrived(s), cid_next_exp_seq_num_[s[1]])
    ELSE <<>>

\* What it may make of k torn records: they name these clients, any, and some
\* of them happen to carry the next number of theirs.  (A record that names no
\* client of the exchange goes by; see also NoSuchClient.)
Misreadings(k, s) ==
    {m \in [named : SUBSET Clients, taken : UNION {[1 .. j -> Open(s)] : j \in 0 .. k}] :
        LET takers == {m.taken[i] : i \in 1 .. Len(m.taken)}
        IN  /\ takers \subseteq m.named
            /\ Len(m.taken) + Cardinality(m.named \ takers) <= k}

\* The requests a read hands to the sequencer.
Requests(s, misread) ==
    [k \in 1 .. Len(Accepted(s)) |-> <<s[1], Accepted(s)[k].n>>]
        \o [k \in 1 .. Len(misread.taken) |-> <<misread.taken[k], Garbled>>]

\* How many of them are of client c.
TakenOf(requests, c) == Cardinality({k \in 1 .. Len(requests) : requests[k][1] = c})

\* Mutant: the last place stays empty.
FitsButOne(requests) == Len(pending_client_requests_) + Len(requests) < load.max_pending

Fits(requests) == Len(pending_client_requests_) + Len(requests) <= load.max_pending

\* SendAndRecv of the next socket: RecvCallback on all that has arrived, then
\* send.
ServerSendAndRecv ==
    /\ spc = "recv" /\ at <= Len(receive_sockets_)
    /\ LET s      == receive_sockets_[at]
           stream == <<"responses", s>>
           torn   == TornIn(Arrived(s))
       IN  /\ \E misread \in Misreadings(torn, s) :
               LET requests == Requests(s, misread)
                   named    == misread.named \cup
                                   (IF torn < Len(server_rx[s]) THEN {s[1]} ELSE {})
               IN  /\ Fits(requests)
                   /\ cid_tcp_socket_' = [c \in Clients |->
                          IF c \in named \cap Open(s) THEN s ELSE cid_tcp_socket_[c]]
                   /\ cid_next_exp_seq_num_' = [c \in Clients |->
                          cid_next_exp_seq_num_[c] + TakenOf(requests, c)]
                   /\ pending_client_requests_' =
                          AddClientRequests(pending_client_requests_, RxTime(server_rx[s]), requests)
           /\ server_rx' = [server_rx EXCEPT ![s] = <<>>]
           /\ recv' = (recv \/ server_rx[s] # <<>>)
           /\ \E part \in SentParts(server_outbound[s]) :
               /\ \E sent \in Framed(stream, part) :
                      client_rx' = [client_rx EXCEPT ![s] = @ \o sent]
               /\ cut' = Cut(stream, part)
           /\ server_outbound' = [server_outbound EXCEPT ![s] = <<>>]
    /\ at' = at + 1
    /\ UNCHANGED <<load, clientVars, clock, spc, backlog, receive_sockets_,
                   cid_next_outgoing_seq_num_, engineVars>>

\* AddClientRequest finds no place: FATAL ends the exchange.
TooManyPending ==
    /\ spc = "recv" /\ at <= Len(receive_sockets_)
    /\ LET s == receive_sockets_[at]
       IN  \E misread \in Misreadings(TornIn(Arrived(s)), s) : ~Fits(Requests(s, misread))
    /\ spc' = "exit"
    /\ UNCHANGED <<load, clientVars, kernelVars, at, recv, backlog,
                   receive_sockets_, server_outbound, cid_tcp_socket_,
                   cid_next_exp_seq_num_, cid_next_outgoing_seq_num_,
                   pending_client_requests_, engineVars>>

\* A torn record names a client past the end of the arrays: undefined, and the
\* exchange may end.
NoSuchClient ==
    /\ spc = "recv" /\ at <= Len(receive_sockets_)
    /\ TornIn(Arrived(receive_sockets_[at])) > 0
    /\ spc' = "exit"
    /\ UNCHANGED <<load, clientVars, kernelVars, at, recv, backlog,
                   receive_sockets_, server_outbound, cid_tcp_socket_,
                   cid_next_exp_seq_num_, cid_next_outgoing_seq_num_,
                   pending_client_requests_, engineVars>>

\* The orders std::sort may leave the pending requests in: ascending receive
\* time, equal times in place only for few elements.
Sortings(s) ==
    {p \in [1 .. Len(s) -> 1 .. Len(s)] :
        /\ \A i, j \in 1 .. Len(s) : i # j => p[i] # p[j]
        /\ \A i, j \in 1 .. Len(s) : i < j =>
               \/ s[p[i]].recv_time_ < s[p[j]].recv_time_
               \/ /\ s[p[i]].recv_time_ = s[p[j]].recv_time_
                  /\ Len(s) <= StableSize => p[i] < p[j]}

\* Mutant: pending_size_ is not reset.
SequenceAndPublishKept ==
    /\ spc = "recv" /\ at > Len(receive_sockets_)
    /\ recv
    /\ \E p \in Sortings(pending_client_requests_) :
        LET batch == [k \in 1 .. Len(pending_client_requests_) |->
                         pending_client_requests_[p[k]].request_]
        IN  /\ incoming_requests_' = incoming_requests_ \o batch
            /\ sequenced' = sequenced \o batch
    /\ UNCHANGED pending_client_requests_
    /\ spc' = "respond"
    /\ UNCHANGED <<load, clientVars, kernelVars, at, recv, backlog,
                   receive_sockets_, server_outbound, cid_tcp_socket_,
                   cid_next_exp_seq_num_, cid_next_outgoing_seq_num_,
                   outgoing_responses_, responded>>

\* RecvFinishedCallback when something was read: SequenceAndPublish.
SequenceAndPublish ==
    /\ spc = "recv" /\ at > Len(receive_sockets_)
    /\ recv
    /\ \E p \in Sortings(pending_client_requests_) :
        LET batch == [k \in 1 .. Len(pending_client_requests_) |->
                         pending_client_requests_[p[k]].request_]
        IN  /\ incoming_requests_' = incoming_requests_ \o batch
            /\ sequenced' = sequenced \o batch
    /\ pending_client_requests_' = <<>>
    /\ spc' = "respond"
    /\ UNCHANGED <<load, clientVars, kernelVars, at, recv, backlog,
                   receive_sockets_, server_outbound, cid_tcp_socket_,
                   cid_next_exp_seq_num_, cid_next_outgoing_seq_num_,
                   outgoing_responses_, responded>>

\* No socket had data: no callback.
NothingReceived ==
    /\ spc = "recv" /\ at > Len(receive_sockets_)
    /\ ~recv
    /\ spc' = "respond"
    /\ UNCHANGED <<load, clientVars, kernelVars, at, recv, backlog,
                   receive_sockets_, server_outbound, cid_tcp_socket_,
                   cid_next_exp_seq_num_, cid_next_outgoing_seq_num_,
                   pending_client_requests_, engineVars>>

\* Mutant: the slot is used after UpdateReadIndex and may hold another element.
SendResponseReleased ==
    /\ spc = "respond" /\ outgoing_responses_ # <<>>
    /\ LET r == IF Len(outgoing_responses_) > 1 THEN outgoing_responses_[2]
                ELSE outgoing_responses_[1]
           c == r[1]
           s == cid_tcp_socket_[c]
       IN  /\ server_outbound' = [server_outbound EXCEPT ![s] =
                  Append(@, [seq_num_ |-> cid_next_outgoing_seq_num_[c], client_id_ |-> c,
                             n |-> r[2]])]
           /\ cid_next_outgoing_seq_num_' = [cid_next_outgoing_seq_num_ EXCEPT ![c] = @ + 1]
    /\ outgoing_responses_' = Tail(outgoing_responses_)
    /\ UNCHANGED <<load, clientVars, kernelVars, spc, at, recv, backlog,
                   receive_sockets_, cid_tcp_socket_, cid_next_exp_seq_num_,
                   pending_client_requests_, incoming_requests_, sequenced,
                   responded>>

\* Mutant: the sequence number is not incremented.
SendResponseSameNumber ==
    /\ spc = "respond" /\ outgoing_responses_ # <<>>
    /\ LET c == Head(outgoing_responses_)[1]
           s == cid_tcp_socket_[c]
       IN  /\ server_outbound' = [server_outbound EXCEPT ![s] =
                  Append(@, [seq_num_ |-> cid_next_outgoing_seq_num_[c], client_id_ |-> c,
                             n |-> Head(outgoing_responses_)[2]])]
    /\ UNCHANGED cid_next_outgoing_seq_num_
    /\ outgoing_responses_' = Tail(outgoing_responses_)
    /\ UNCHANGED <<load, clientVars, kernelVars, spc, at, recv, backlog,
                   receive_sockets_, cid_tcp_socket_, cid_next_exp_seq_num_,
                   pending_client_requests_, incoming_requests_, sequenced,
                   responded>>

\* Run: one response goes to the socket of its client.
SendResponse ==
    /\ spc = "respond" /\ outgoing_responses_ # <<>>
    /\ LET c == Head(outgoing_responses_)[1]
           s == cid_tcp_socket_[c]
       IN  /\ server_outbound' = [server_outbound EXCEPT ![s] =
                  Append(@, [seq_num_ |-> cid_next_outgoing_seq_num_[c], client_id_ |-> c,
                             n |-> Head(outgoing_responses_)[2]])]
           /\ cid_next_outgoing_seq_num_' = [cid_next_outgoing_seq_num_ EXCEPT ![c] = @ + 1]
    /\ outgoing_responses_' = Tail(outgoing_responses_)
    /\ UNCHANGED <<load, clientVars, kernelVars, spc, at, recv, backlog,
                   receive_sockets_, cid_tcp_socket_, cid_next_exp_seq_num_,
                   pending_client_requests_, incoming_requests_, sequenced,
                   responded>>

\* No more responses: back to the top of the loop.
NextRound ==
    /\ spc = "respond" /\ outgoing_responses_ = <<>>
    /\ spc' = "poll"
    /\ UNCHANGED <<load, clientVars, kernelVars, at, recv, backlog,
                   receive_sockets_, server_outbound, cid_tcp_socket_,
                   cid_next_exp_seq_num_, cid_next_outgoing_seq_num_,
                   pending_client_requests_, engineVars>>

\* The matching engine answers a request, and then reports the fill of a
\* resting order, if there is one, to its owner.
EngineStep ==
    /\ spc # "exit" /\ incoming_requests_ # <<>>
    /\ LET known  == {responded[k][1] : k \in 1 .. Len(responded)}
           filled == Cardinality({k \in 1 .. Len(responded) : responded[k][2] = 0})
       IN  \E fill \in {<<>>} \cup
                       (IF filled < load.fills THEN {<< <<c, 0>> >> : c \in known} ELSE {}) :
               LET new == <<Head(incoming_requests_)>> \o fill
               IN  /\ outgoing_responses_' = outgoing_responses_ \o new
                   /\ responded' = responded \o new
    /\ incoming_requests_' = Tail(incoming_requests_)
    /\ UNCHANGED <<load, clientVars, kernelVars, serverVars, sequenced>>

\* A garbled request is of no known type or for no instrument: ProcessClientRequest
\* ends the exchange.
EngineFatal ==
    /\ spc # "exit" /\ incoming_requests_ # <<>>
    /\ Head(incoming_requests_)[2] = Garbled
    /\ spc' = "exit"
    /\ UNCHANGED <<load, clientVars, kernelVars, at, recv, backlog,
                   receive_sockets_, server_outbound, cid_tcp_socket_,
                   cid_next_exp_seq_num_, cid_next_outgoing_seq_num_,
                   pending_client_requests_, engineVars>>

-----------------------------------------------------------------------------
Server == \/ Poll \/ ServerSendAndRecv \/ TooManyPending \/ NoSuchClient
          \/ SequenceAndPublish \/ NothingReceived \/ SendResponse \/ NextRound

Next == \/ \E c \in Clients : Start(c) \/ SendRequest(c) \/ ClientSendAndRecv(c)
        \/ Server \/ EngineStep \/ EngineFatal

Spec == Init /\ [][Next]_vars

\* Every thread spins on.
FairSpec == /\ Spec
            /\ \A c \in Clients : WF_vars(ClientSendAndRecv(c))
            /\ WF_vars(Server) /\ WF_vars(EngineStep)

-----------------------------------------------------------------------------
(* Properties.                                                             *)

\* How many of the engine's first n responses went to client c.
RespondedTo(c, n) == Cardinality({k \in 1 .. n : responded[k][1] = c})

\* No send has been cut inside a record.
Unbroken == cut = {}

\* Every piece of state of clients, kernel, server and queues is of its type;
\* while no send is cut inside a record sequence numbers never run past the
\* messages there are to number.
TypeOK ==
    /\ load \in Loads
    /\ conn \in [Clients -> 0 .. MaxRestarts + 1]
    /\ cut \subseteq {"requests", "responses"} \X Sockets
    /\ cid_tcp_socket_ \in [Clients -> Sockets \cup {NoSocket}]
    /\ \A c \in Clients :
        /\ requested[c] \in 0 .. load.requests[c]
        /\ next_outgoing_seq_num_[c] \in 1 .. load.requests[c] + 1
        /\ Unbroken =>
            /\ cid_next_exp_seq_num_[c] \in 1 .. load.requests[c] + 1
            /\ {next_exp_seq_num_[c], cid_next_outgoing_seq_num_[c]} \subseteq
                   1 .. load.requests[c] + load.fills + 1
    /\ spc \in {"poll", "recv", "respond", "exit"}
    /\ misnumbered \in BOOLEAN

\* The engine gets each client's requests in the order the client made them
\* and none twice, whatever was lost on the way, as long as no send on the
\* socket it takes the client's requests from has been cut inside a record.
\* Torn records of another client do not reach them.
RequestsInOrder ==
    \A i, j \in 1 .. Len(sequenced) :
        /\ i < j /\ sequenced[i][1] = sequenced[j][1]
        /\ <<"requests", cid_tcp_socket_[sequenced[i][1]]>> \notin cut
        => sequenced[i][2] < sequenced[j][2]

\* Clients do not restart, and send buffers do not fill.
Reliable == load.restarts = 0 /\ ~load.send_may_fail

\* On reliable connections GatewayClient never passes over a response.
NoMisnumbered == Reliable => ~misnumbered

\* The trading engine gets the responses the matching engine sent to its
\* client, in their order, none twice and none left out before another, as long
\* as no send of responses to one of the client's sockets has been cut inside a
\* record, whatever became of requests.
ResponsesInOrder ==
    \A c \in Clients : \A k \in 1 .. Len(answers[c]) :
        (\A m \in 1 .. MaxRestarts + 1 : <<"responses", <<c, m>> >> \notin cut) =>
            \E i \in 1 .. Len(responded) :
                responded[i] = <<c, answers[c][k]>> /\ RespondedTo(c, i) = k

\* The requests the clients have made.
Made == {r \in Clients \X (1 .. MaxRequests) : r[2] <= requested[r[1]]}

\* While no send is cut inside a record the exchange ends only when more
\* requests than pending_client_requests_ has places for are under way at once:
\* a round leaves nothing behind in it (fifo_sequencer.hpp:4, "accommodates a
\* maximum of ME_MAX_PENDING_REQUESTS at a time").
EndsOnlyOnBurst ==
    Unbroken /\ spc = "exit" =>
        Cardinality(Made) - Len(sequenced) > load.max_pending

\* On reliable connections every request a client makes is answered.
RequestsAnswered ==
    \A c \in Clients : \A n \in 1 .. MaxRequests :
        Reliable /\ requested[c] >= n
            ~> \E k \in 1 .. Len(answers[c]) : answers[c][k] = n
==============================================================================
