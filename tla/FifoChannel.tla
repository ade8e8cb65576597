----------------------------- MODULE FifoChannel -----------------------------
(***************************************************************************)
(* What a single-producer single-consumer queue promises its two threads:  *)
(* values arrive whole, in the order they were sent, none lost and none    *)
(* twice.  LockFreeQueue is shown to implement it as long as the load      *)
(* never has more elements in flight than the ring has slots.              *)
(***************************************************************************)
EXTENDS Naturals, Sequences

CONSTANT Values      \* what the producer may send

VARIABLES sent,      \* every value sent, oldest first
          received   \* every value received, oldest first

fifoVars == <<sent, received>>

Init == sent = <<>> /\ received = <<>>

Send(v) ==
    /\ sent' = Append(sent, v)
    /\ UNCHANGED received

Receive ==
    /\ Len(received) < Len(sent)
    /\ received' = Append(received, sent[Len(received) + 1])
    /\ UNCHANGED sent

Next == (\E v \in Values : Send(v)) \/ Receive

Spec == Init /\ [][Next]_fifoVars
==============================================================================
