----------------------------- MODULE MemoryPool -----------------------------
(***************************************************************************)
(* MemoryPool (src/include/runtime/memory_pool.hpp): a vector of blocks,   *)
(* each with the object in it and whether it is free, and the index of the *)
(* block to hand out next.  A pointer is the number of its block.  A freed *)
(* block keeps the object that was in it.                                  *)
(***************************************************************************)
EXTENDS Naturals

nullptr == 0

NewPool(num_elems, object) ==
    [object_ |-> [b \in 1 .. num_elems |-> object],
     is_free_ |-> [b \in 1 .. num_elems |-> TRUE],
     next_free_index_ |-> 1]

Pools(num_elems, Objects) ==
    [object_ : [1 .. num_elems -> Objects],
     is_free_ : [1 .. num_elems -> BOOLEAN],
     next_free_index_ : 1 .. num_elems]

Free(pool) == {b \in DOMAIN pool.is_free_ : pool.is_free_[b]}
InUse(pool) == DOMAIN pool.is_free_ \ Free(pool)

\* Mutant: the search gives up at the end of the vector.
CanAllocateAhead(pool) ==
    /\ pool.next_free_index_ \in Free(pool)
    /\ \E b \in Free(pool) : b > pool.next_free_index_

\* Both assertions of an allocation hold: the block is free, and the search
\* for the next one does not come back to where it started.  The last free
\* block can therefore not be had.
CanAllocate(pool) ==
    /\ pool.next_free_index_ \in Free(pool)
    /\ Free(pool) # {pool.next_free_index_}

\* Mutant: the search does not go round at the end of the vector.
UpdateNextFreeIndexNoWrap(free, b) == b + 1

\* The first free block after b, going round.
UpdateNextFreeIndex(free, b) ==
    LET later == {c \in free : c > b}
        among == IF later = {} THEN free ELSE later
    IN  CHOOSE c \in among : \A d \in among : c <= d

Allocate(pool, object) ==
    LET b == pool.next_free_index_
    IN  [object_ |-> [pool.object_ EXCEPT ![b] = object],
         is_free_ |-> [pool.is_free_ EXCEPT ![b] = FALSE],
         next_free_index_ |-> UpdateNextFreeIndex(Free(pool) \ {b}, b)]

\* Mutant: the block is not given back.
DeallocateNothing(pool, blocks) == pool

\* Deallocate, for each of a set of blocks in use.
Deallocate(pool, blocks) ==
    [pool EXCEPT !.is_free_ = [b \in DOMAIN @ |-> @[b] \/ b \in blocks]]
=============================================================================
