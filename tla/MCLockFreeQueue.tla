--------------------------- MODULE MCLockFreeQueue ---------------------------
(***************************************************************************)
(* LockFreeQueue for TLC: two element values, a ring of three slots and    *)
(* enough writes for the indices to wrap twice.                            *)
(***************************************************************************)
EXTENDS LockFreeQueue, TLC

CONSTANTS a, b

MCValues == {a, b}
==============================================================================
