---------------------------- MODULE MCOrderGateway ----------------------------
(***************************************************************************)
(* OrderGateway for TLC.                                                   *)
(***************************************************************************)
EXTENDS OrderGateway, TLC

CONSTANTS c1, c2

OneClient == {c1}
TwoClients == {c1, c2}

\* Two clients on good connections.
Good == [requests |-> c1 :> 2 @@ c2 :> 1, restarts |-> 0, fills |-> 1,
         send_may_fail |-> FALSE, max_pending |-> 3]

\* One client that restarts, send buffers that fill, and room for two of its
\* three requests.
Bad == [requests |-> c1 :> 3 @@ c2 :> 0, restarts |-> 2, fills |-> 1,
        send_may_fail |-> TRUE, max_pending |-> 2]

\* Two clients on sockets of their own, where records are torn.
Shared == [requests |-> c1 :> 2 @@ c2 :> 1, restarts |-> 0, fills |-> 0,
           send_may_fail |-> TRUE, max_pending |-> 3]

GoodAndBad == {Good, Bad, Shared}

\* One client that is too fast for the sort.
Burst == {[requests |-> c1 :> 3, restarts |-> 0, fills |-> 0,
           send_may_fail |-> FALSE, max_pending |-> 3]}
==============================================================================
