--------------------------- MODULE FreeQueueSpec ---------------------------
(***************************************************************************)
(* What FreeKVCacheBlockQueue (rapid_mlx/paged_cache.py) promises: a queue *)
(* of free blocks, least recently used first, from which pinned blocks are *)
(* never taken.  FreeBlockQueue implements it with a doubly linked list.   *)
(***************************************************************************)
EXTENDS Naturals, SeqKeep

CONSTANTS Blocks,   \* the blocks of the pool
          Window    \* how many candidates popleft_lfu compares

VARIABLES queue,    \* the free blocks, front = least recently used
          pinned,   \* the blocks that must not be taken
          given     \* the blocks the last pop handed to its caller

specVars == <<queue, pinned, given>>

Unpinned(q) == Keep(q, Blocks \ pinned)

Without(q, taken) == Keep(q, Blocks \ taken)

First(q, n) == {q[i] : i \in 1..(IF n < Len(q) THEN n ELSE Len(q))}

SpecInit == /\ queue \in SetToAllKPermutations(Blocks)
            /\ Len(queue) > 0
            /\ pinned = {}
            /\ given = {}

(* One block leaves: the first unpinned one, or one of the first Window.   *)
TakeOne(n) == /\ \E b \in First(Unpinned(queue), n) :
                    queue' = Without(queue, {b}) /\ given' = {b}
              /\ UNCHANGED pinned

(* The first n unpinned blocks leave together.                             *)
TakeMany(n) == /\ Len(Unpinned(queue)) >= n
               /\ given' = First(Unpinned(queue), n)
               /\ queue' = Without(queue, given')
               /\ UNCHANGED pinned

(* When fewer than n exist the call fails, hands out nothing, and the      *)
(* unpinned blocks are gone from the queue all the same: this is what the  *)
(* code does, not what the docstring of get_new_blocks says.               *)
DropAll == /\ queue' = Without(queue, ToSet(Unpinned(queue)))
           /\ given' = {}
           /\ UNCHANGED pinned

(* A named block leaves from any position (a cache hit revived it).        *)
TakeNamed(b) == /\ b \in ToSet(queue)
                /\ queue' = Without(queue, {b})
                /\ given' = {}
                /\ UNCHANGED pinned

(* Blocks return at the most recently used end, in the order given.        *)
PutBack(s) == /\ ToSet(s) \cap ToSet(queue) = {}
              /\ queue' = queue \o s
              /\ given' = {}
              /\ UNCHANGED pinned

SetPins(P) == pinned' = P /\ given' = {} /\ UNCHANGED queue

SpecNext == \/ TakeOne(1)
            \/ TakeOne(Window)
            \/ \E n \in 1..Len(queue) : TakeMany(n)
            \/ DropAll
            \/ \E b \in Blocks : TakeNamed(b)
            \/ \E s \in SetToAllKPermutations(Blocks) : PutBack(s)
            \/ \E P \in SUBSET Blocks : SetPins(P)

QueueSpec == SpecInit /\ [][SpecNext]_specVars
============================================================================
