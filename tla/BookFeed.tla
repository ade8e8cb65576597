------------------------------- MODULE BookFeed -------------------------------
(***************************************************************************)
(* What the matching engine promises to everyone who rebuilds its book     *)
(* from market updates: each step changes at most one resting order, and   *)
(* the updates it sends, applied in order, turn the book before the step   *)
(* into the book after it.                                                 *)
(***************************************************************************)
EXTENDS MarketUpdates

VARIABLES book, updates

Init == book = <<>> /\ updates = <<>>

Next == updates' \in Batches(book, book')

Spec == Init /\ [][Next]_<<book, updates>>
==============================================================================
