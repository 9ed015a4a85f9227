------------------------------ MODULE PagedPool ------------------------------
(***************************************************************************)
(* The block pool of PagedCacheManager (rapid_mlx/paged_cache.py) as a     *)
(* value, and what each manager primitive makes of it.  Every primitive    *)
(* runs under the manager's re-entrant lock, so a caller that strings      *)
(* several together under one lock is one function of the pool.            *)
(*                                                                         *)
(* Blocks are all blocks but the null block, which is allocated for ever   *)
(* and in no table.  The free queue is a set here: FreeBlockQueue models   *)
(* its order, and which unpinned block a pop returns is left open.  Hashes *)
(* are the token prefixes they stand for (SHA-256 taken as injective).     *)
(***************************************************************************)
EXTENDS Integers, FiniteSets

CONSTANTS Blocks,    \* the block slots of the pool
          Prefixes,  \* the token prefixes, standing for their hashes
          None       \* an absent hash, mapping or tensor

ASSUME PoolAssumption == /\ IsFiniteSet(Blocks)
                         /\ None \notin Blocks \cup Prefixes

Pool ==
  [free     : SUBSET Blocks,                \* linked in the free queue
   num      : Nat,                          \* free_block_queue.num_free_blocks
   alloc    : SUBSET Blocks,                \* keys of allocated_blocks
   ref      : [Blocks -> Nat],              \* ref_count
   pinned   : SUBSET Blocks,                \* is_pinned
   chain    : [Blocks -> Prefixes \cup {None}],   \* block_hash
   chainMap : [Prefixes -> SUBSET Blocks],        \* cached_block_hash_to_block
   id       : [Blocks -> Prefixes \cup {None}],   \* hash_value
   idMap    : [Prefixes -> Blocks \cup {None}],   \* hash_to_block
   kv       : [Blocks -> Prefixes \cup {None}]]   \* cache_data: whose KV it is

EmptyPool ==
  [free |-> Blocks, num |-> Cardinality(Blocks), alloc |-> {},
   ref |-> [b \in Blocks |-> 0], pinned |-> {},
   chain |-> [b \in Blocks |-> None], chainMap |-> [h \in Prefixes |-> {}],
   id |-> [b \in Blocks |-> None], idMap |-> [h \in Prefixes |-> None],
   kv |-> [b \in Blocks |-> None]]


(* The blocks a pop may return: pinned ones are skipped.                   *)
Victims(p) == p.free \ p.pinned

(* Drop the tensors and every hash entry that still names these blocks.    *)
ForgetAll(p, S) ==
  [p EXCEPT !.chain = [b \in Blocks |-> IF b \in S THEN None ELSE p.chain[b]],
            !.id = [b \in Blocks |-> IF b \in S THEN None ELSE p.id[b]],
            !.kv = [b \in Blocks |-> IF b \in S THEN None ELSE p.kv[b]],
            !.chainMap = [h \in Prefixes |->
                            p.chainMap[h] \ {b \in S : p.chain[b] = h}],
            !.idMap = [h \in Prefixes |->
                         IF \E b \in S : p.id[b] = h /\ p.idMap[h] = b
                         THEN None ELSE p.idMap[h]]]

(* _maybe_evict_cached_block: not a pinned block, not one without hashes   *)
(* (its stale tensors stay), not one the chain map has lost.               *)
Evictable(p, b) ==
  /\ b \notin p.pinned
  /\ IF p.chain[b] = None THEN p.id[b] # None ELSE b \in p.chainMap[p.chain[b]]

EvictKeepingMap(p, S) ==  \* slip: the chain map still names the block
  [ForgetAll(p, {b \in S : Evictable(p, b)}) EXCEPT !.chainMap = p.chainMap]

EvictCached(p, S) == ForgetAll(p, {b \in S : Evictable(p, b)})

(* allocate_block and get_new_blocks once the pops have returned S.        *)
Claim(p, S) ==
  [EvictCached(p, S) EXCEPT
     !.free = p.free \ S, !.num = p.num - Cardinality(S),
     !.alloc = p.alloc \cup S,
     !.ref = [b \in Blocks |-> IF b \in S THEN 1 ELSE p.ref[b]]]

(* free_block once for each block of S: the last reference re-queues it.   *)
LastRefs(p, S) == {b \in S \cap p.alloc : p.ref[b] <= 1}

ReleaseUncounted(p, S) ==  \* slip: blocks are re-queued but not counted
  [p EXCEPT !.ref = [b \in Blocks |-> IF b \in S \cap p.alloc
                                      THEN p.ref[b] - 1 ELSE p.ref[b]],
            !.alloc = p.alloc \ LastRefs(p, S),
            !.free = p.free \cup LastRefs(p, S)]

Release(p, S) ==
  [p EXCEPT !.ref = [b \in Blocks |-> IF b \in S \cap p.alloc
                                      THEN p.ref[b] - 1 ELSE p.ref[b]],
            !.alloc = p.alloc \ LastRefs(p, S),
            !.free = p.free \cup LastRefs(p, S),
            !.num = p.num + Cardinality(LastRefs(p, S))]

(* increment_ref for each block of S: only allocated blocks take part.     *)
Retain(p, S) ==
  [p EXCEPT !.ref = [b \in Blocks |-> IF b \in S \cap p.alloc
                                      THEN p.ref[b] + 1 ELSE p.ref[b]]]

TouchQueued(p, S) ==  \* slip: a revived block stays linked in the queue
  LET revived == {b \in S \cap p.free : p.ref[b] = 0}
  IN  [p EXCEPT !.ref = [b \in Blocks |-> IF b \in S THEN p.ref[b] + 1
                                          ELSE p.ref[b]],
                !.alloc = p.alloc \cup revived]

(* touch: like increment_ref, and a free block comes back from the queue.  *)
Touch(p, S) ==
  LET revived == {b \in S \cap p.free : p.ref[b] = 0}
  IN  [p EXCEPT !.ref = [b \in Blocks |-> IF b \in S THEN p.ref[b] + 1
                                          ELSE p.ref[b]],
                !.free = p.free \ revived, !.alloc = p.alloc \cup revived,
                !.num = p.num - Cardinality(revived)]

(* find_cached_block_by_hash: only a block that still owns h is served.    *)
FindById(p, h) ==
  LET b == p.idMap[h]
  IN  IF b \in p.alloc /\ p.id[b] = h THEN b ELSE None

(* The blocks of a pool whose bulk allocations have dropped l: each block  *)
(* is queued, allocated or dropped, and the counter counts all but the     *)
(* allocated ones.                                                         *)
AccountsFor(p, l) ==
  /\ p.free \cup p.alloc \cup l = Blocks
  /\ p.free \cap p.alloc = {} /\ l \cap (p.free \cup p.alloc) = {}
  /\ p.num = Cardinality(p.free) + Cardinality(l)
=============================================================================
