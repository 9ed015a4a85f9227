---------------------------- MODULE PrefixSharing ----------------------------
(***************************************************************************)
(* BlockAwarePrefixCache of rapid_mlx/prefix_cache.py over the block pool: *)
(* a request fetches the blocks of a cached prefix of its prompt, and when *)
(* it ends its KV is stored in blocks that an entry owns until memory      *)
(* pressure evicts it.  The mlx-step worker runs one operation at a time;  *)
(* a store that takes a block at a time is one operation of several steps. *)
(* Unlike PagedCache, blocks span BlockSize tokens, the last one of a      *)
(* request may be partial, and identities are hashes of whole prefixes.    *)
(***************************************************************************)
EXTENDS PagedPool, Sequences, Functions

CONSTANTS Requests,   \* request ids
          Text,       \* per id: its prompt and what will be generated
          Asked,      \* per id: the length of the prompt
          System,     \* the ids whose prompt is the system prompt that is pinned
          BlockSize   \* tokens in a full block

ASSUME TextAssumption ==
  /\ IsFiniteSet(Requests) /\ System \subseteq Requests /\ BlockSize \in Nat \ {0}
  /\ Asked \in [Requests -> Nat]
  /\ \A r \in Requests : /\ Text[r] \in Seq(Range(Text[r])) /\ Asked[r] \in 1..Len(Text[r])
                         /\ \A i \in 1..Len(Text[r]) : SubSeq(Text[r], 1, i) \in Prefixes

ASSUME NoTableAssumption == None \notin [ids : Seq(Blocks), n : Nat]

VARIABLES pool,     \* the block manager's blocks, queue and maps
          span,     \* token_count of each block
          tables,   \* block table of a request: its blocks and num_tokens
          entries,  \* _request_tables, least recently used first
          index,    \* _prefix_index: prefix hash to blocks
          live,     \* requests between their fetch and their store or release
          storing   \* the store under way: a request and how far it goes

vars == <<pool, span, tables, entries, index, live, storing>>

Upto(r, n) == SubSeq(Text[r], 1, n)

IsPrefixOf(s, t) == Len(s) <= Len(t) /\ s = SubSeq(t, 1, Len(s))

Held(r) == IF tables[r] = None THEN {} ELSE Range(tables[r].ids)

Holders(b) == {r \in Requests : b \in Held(r)}

Without(s, r) ==
  IF r \notin Range(s) THEN s
  ELSE LET i == CHOOSE i \in DOMAIN s : s[i] = r
       IN  SubSeq(s, 1, i - 1) \o SubSeq(s, i + 1, Len(s))

Init == /\ pool = EmptyPool
        /\ span = [b \in Blocks |-> 0]
        /\ tables = [r \in Requests |-> None]
        /\ entries = <<>>
        /\ index = [h \in Prefixes |-> None]
        /\ live = {}
        /\ storing = None

(* release_cache: entry, block table and references of a request.          *)
Released(p, r) == Release(p, Held(r))

(* A lookup that meets an identity its block no longer owns drops it.      *)
Pruned(p, H) ==
  [p EXCEPT !.idMap = [h \in Prefixes |->
     IF h \in H /\ p.idMap[h] \in p.alloc /\ p.id[p.idMap[h]] # h THEN None ELSE p.idMap[h]]]

(* find_shared_prefix: full blocks, each registered under the hash of the  *)
(* prompt through its end.                                                 *)
Full(r, k) == Upto(r, k * BlockSize)

Matches(p, h) == FindById(p, h) # None /\ span[FindById(p, h)] = BlockSize

SharedShort(p, r) ==  \* slip: the last full block of a prompt is not looked up
  LET n == (Asked[r] - 1) \div BlockSize
  IN  CHOOSE k \in 0..n : /\ \A i \in 1..k : Matches(p, Full(r, i))
                          /\ k < n => ~Matches(p, Full(r, k + 1))

SharedLen(p, r) ==
  LET n == Asked[r] \div BlockSize
  IN  CHOOSE k \in 0..n : /\ \A i \in 1..k : Matches(p, Full(r, i))
                          /\ k < n => ~Matches(p, Full(r, k + 1))

Probed(p, r) == {Full(r, i) : i \in 1..SharedLen(p, r)} \cup
                (IF SharedLen(p, r) < Asked[r] \div BlockSize
                 THEN {Full(r, SharedLen(p, r) + 1)} ELSE {})

(* Each block of t carries an identity that continues the one before it    *)
(* towards h.                                                              *)
Continues(p, t, h) ==
  /\ \A b \in Range(t) : p.id[b] # None /\ span[b] > 0
  /\ \A i \in DOMAIN t :
       /\ IsPrefixOf(p.id[t[i]], h)
       /\ Len(p.id[t[i]]) - span[t[i]] = IF i = 1 THEN 0 ELSE Len(p.id[t[i - 1]])

(* And the last one ends where h ends.                                     *)
Chained(p, t, h) == Continues(p, t, h) /\ t # <<>> /\ p.id[t[Len(t)]] = h

(* The guard of _find_best_prefix_match.                                   *)
Servable(p, h) ==
  /\ index[h] # None
  /\ \A b \in Range(index[h]) : b \in p.alloc /\ p.kv[b] # None
  /\ Chained(p, index[h], h)

BestLen(p, r) ==
  LET lens == {k \in 1..(Asked[r] \div BlockSize) : Servable(p, Full(r, k))}
  IN  IF lens = {} THEN 0 ELSE CHOOSE k \in lens : \A j \in lens : j <= k

Shared(p, r) == [i \in 1..SharedLen(p, r) |-> FindById(p, Full(r, i))]

Indexed(p, r) == IF BestLen(p, r) > 0 THEN index[Full(r, BestLen(p, r))] ELSE <<>>

(* _acquire_candidate_blocks: the hash index first, then the prefix index. *)
Candidate(p, r) == IF SharedLen(p, r) > 0 THEN Shared(p, r) ELSE Indexed(p, r)

Covered(p, r) == (IF SharedLen(p, r) > 0 THEN SharedLen(p, r) ELSE BestLen(p, r)) * BlockSize

(* fetch_cache: what a reused id still holds is released first; then the   *)
(* candidate is held and rebuilt from its tensors, or neither.             *)
Fetch(r) ==
  /\ storing = None /\ r \notin live
  /\ LET p == Released(pool, r)
         c == Candidate(p, r)
         usable == c # <<>> /\ \A b \in Range(c) : p.kv[b] # None
         q == Pruned(p, Probed(p, r))
     IN  /\ pool' = IF usable THEN Retain(q, Range(c)) ELSE q
         /\ tables' = [tables EXCEPT ![r] =
              IF usable THEN [ids |-> c, n |-> Covered(p, r)] ELSE None]
  /\ entries' = Without(entries, r)
  /\ live' = live \cup {r}
  /\ UNCHANGED <<span, index, storing>>

(* release_cache: an abort, a store that was refused before it took any    *)
(* block, or an abort that arrives after the request was stored.           *)
ReleaseCache(r) ==
  /\ storing = None
  /\ pool' = Released(pool, r)
  /\ tables' = [tables EXCEPT ![r] = None]
  /\ entries' = Without(entries, r)
  /\ live' = live \ {r}
  /\ UNCHANGED <<span, index, storing>>

(* store_cache: the tokens its tensors back (the last one may have none),  *)
(* on top of the blocks the fetch holds.                                   *)
StoreLate(r) ==  \* slip: a request that was aborted meanwhile is stored
  /\ storing = None
  /\ \E upto \in {Len(Text[r]) - 1, Len(Text[r])} :
       /\ tables[r] = None => upto > 0
       /\ storing' = [id |-> r, upto |-> upto]
  /\ tables' = [tables EXCEPT ![r] = IF @ = None THEN [ids |-> <<>>, n |-> 0] ELSE @]
  /\ UNCHANGED <<pool, span, entries, index, live>>

StoreStart(r) ==
  /\ storing = None /\ r \in live
  /\ \E upto \in {Len(Text[r]) - 1, Len(Text[r])} :
       /\ tables[r] = None => upto > 0
       /\ storing' = [id |-> r, upto |-> upto]
  /\ tables' = [tables EXCEPT ![r] = IF @ = None THEN [ids |-> <<>>, n |-> 0] ELSE @]
  /\ UNCHANGED <<pool, span, entries, index, live>>

Size == IF storing.upto - tables[storing.id].n < BlockSize
        THEN storing.upto - tables[storing.id].n ELSE BlockSize

Identity == Upto(storing.id, tables[storing.id].n + Size)

More == storing # None /\ tables[storing.id].n < storing.upto

Known == Size = BlockSize /\ FindById(pool, Identity) # None

Looked == IF Size = BlockSize THEN Pruned(pool, {Identity}) ELSE pool

WithBlock(b) == [tables EXCEPT ![storing.id] = [ids |-> Append(@.ids, b), n |-> @.n + Size]]

(* A full block that is already cached is shared.                          *)
StoreShared ==
  /\ More /\ Known
  /\ pool' = Retain(pool, {FindById(pool, Identity)})
  /\ tables' = WithBlock(FindById(pool, Identity))
  /\ UNCHANGED <<span, entries, index, live, storing>>

(* A new block; only a full one is registered for others.                  *)
FilledLocally(p, b) ==  \* slip: the chunk's own hash identifies the block
  LET local == SubSeq(Identity, Len(Identity) - Size + 1, Len(Identity))
      h == IF local \in Prefixes THEN local ELSE Identity
  IN  [p EXCEPT !.kv[b] = Identity, !.id[b] = h,
                !.idMap = IF Size = BlockSize THEN [@ EXCEPT ![h] = b] ELSE @]

Filled(p, b) ==
  [p EXCEPT !.kv[b] = Identity, !.id[b] = Identity,
            !.idMap = IF Size = BlockSize THEN [@ EXCEPT ![Identity] = b] ELSE @]

StoreNew ==
  /\ More /\ ~Known /\ pool.num > 0
  /\ \E b \in Victims(pool) :
       /\ pool' = Filled(Claim(Looked, {b}), b)
       /\ span' = [span EXCEPT ![b] = Size]
       /\ tables' = WithBlock(b)
  /\ UNCHANGED <<entries, index, live, storing>>

(* Only pinned blocks are free: allocate_block raises, the scheduler logs  *)
(* it and releases the request.                                            *)
StoreRaisesKeeping ==  \* slip: the fetched and stored blocks are not released
  /\ More /\ ~Known /\ pool.num > 0 /\ Victims(pool) = {}
  /\ pool' = Looked
  /\ live' = live \ {storing.id}
  /\ storing' = None
  /\ UNCHANGED <<span, tables, entries, index>>

StoreRaises ==
  /\ More /\ ~Known /\ pool.num > 0 /\ Victims(pool) = {}
  /\ pool' = Released(Looked, storing.id)
  /\ tables' = [tables EXCEPT ![storing.id] = None]
  /\ live' = live \ {storing.id}
  /\ storing' = None
  /\ UNCHANGED <<span, entries, index>>

(* All tokens are stored, or no block is left (evicting free blocks frees  *)
(* none): the prefix index and the entry cover what was stored.            *)
StoreEnd ==
  /\ storing # None
  /\ ~More \/ (~Known /\ pool.num = 0)
  /\ LET r == storing.id
         t == tables[r].ids
         at(h) == {i \in DOMAIN t : pool.id[t[i]] = h}
     IN  /\ index' = [h \in Prefixes |-> IF at(h) # {}
                                         THEN SubSeq(t, 1, CHOOSE i \in at(h) : TRUE)
                                         ELSE index[h]]
         /\ entries' = Append(Without(entries, r), r)
         /\ live' = live \ {r}
  /\ pool' = IF More THEN Looked ELSE pool
  /\ storing' = None
  /\ UNCHANGED <<span, tables>>

(* fork_cache; a fork onto itself only marks the entry recently used.      *)
ForkCache(r, q) ==
  /\ storing = None /\ r \in Range(entries) /\ q \notin live
  /\ tables[r].n <= Len(Text[q]) /\ Upto(q, tables[r].n) = Upto(r, tables[r].n)
  /\ pool' = IF q = r THEN pool ELSE Retain(Released(pool, q), Held(r))
  /\ tables' = [tables EXCEPT ![q] = tables[r]]
  /\ entries' = Append(Without(entries, q), q)
  /\ UNCHANGED <<span, index, live, storing>>

(* _evict_one_prefix_cache_entry: the oldest entry goes with the tensors   *)
(* of the blocks only it holds; pinned ones keep theirs in the free queue. *)
PrivateAll(r) == {b \in Held(r) : pool.kv[b] # None /\ b \notin pool.pinned}  \* slip

Private(r) ==
  {b \in Held(r) : pool.kv[b] # None /\ b \notin pool.pinned /\ pool.ref[b] <= 1}

EvictEntry ==
  /\ storing = None /\ entries # <<>>
  /\ LET r == Head(entries) IN
     /\ pool' = Release(ForgetAll(pool, Private(r)), Held(r))
     /\ tables' = [tables EXCEPT ![r] = None]
  /\ entries' = Tail(entries)
  /\ UNCHANGED <<span, index, live, storing>>

(* Without entries, pressure drops one index entry that can no longer be   *)
(* served; the first that is stale, left open which.                       *)
Stale(h) ==
  /\ index[h] # None
  /\ \/ \E b \in Range(index[h]) : b \notin pool.alloc
     \/ (\A b \in Range(index[h]) : pool.id[b] # None) /\ ~Continues(pool, index[h], h)

PruneIndex ==
  /\ storing = None /\ entries = <<>>
  /\ \E h \in Prefixes : Stale(h) /\ index' = [index EXCEPT ![h] = None]
  /\ UNCHANGED <<pool, span, tables, entries, live, storing>>

(* release_pressure_blocks: free blocks lose their tensors.                *)
ReleasePressure ==
  /\ storing = None
  /\ LET S == {b \in Victims(pool) : pool.kv[b] # None}
     IN  S # {} /\ pool' = ForgetAll(pool, S)
  /\ UNCHANGED <<span, tables, entries, index, live, storing>>

(* pin_prefix of a prompt: the shared blocks that are not pinned yet, or,  *)
(* when that pins none, those of the prefix index.                         *)
Pin(r) ==
  /\ storing = None
  /\ LET shared == Range(Shared(pool, r)) \ pool.pinned
         more == IF shared # {} THEN shared ELSE Range(Indexed(pool, r))
     IN  more # {} /\ pool' = [Pruned(pool, Probed(pool, r)) EXCEPT !.pinned = @ \cup more]
  /\ UNCHANGED <<span, tables, entries, index, live, storing>>

(* unpin_prefix of a prompt: the blocks a fetch of it would find.          *)
Unpin(r) ==
  /\ storing = None /\ Candidate(pool, r) # <<>>
  /\ pool' = [Pruned(pool, Probed(pool, r))
                EXCEPT !.pinned = @ \ Range(Candidate(pool, r))]
  /\ UNCHANGED <<span, tables, entries, index, live, storing>>

(* clear, also run while requests are under way (cache error recovery).    *)
Clear ==
  /\ storing = None
  /\ pool' = EmptyPool
  /\ span' = [b \in Blocks |-> 0]
  /\ tables' = [r \in Requests |-> None]
  /\ entries' = <<>>
  /\ index' = [h \in Prefixes |-> None]
  /\ UNCHANGED <<live, storing>>

Next ==
  \/ \E r \in Requests : Fetch(r) \/ ReleaseCache(r) \/ StoreStart(r)
  \/ \E r \in System : Pin(r) \/ Unpin(r)
  \/ \E r, q \in Requests : ForkCache(r, q)
  \/ StoreShared \/ StoreNew \/ StoreRaises \/ StoreEnd
  \/ EvictEntry \/ PruneIndex \/ ReleasePressure \/ Clear

Spec == Init /\ [][Next]_vars
-----------------------------------------------------------------------------
Table == [ids : Seq(Blocks), n : Nat]

TypeOK ==
  /\ pool \in Pool
  /\ span \in [Blocks -> 0..BlockSize]
  /\ tables \in [Requests -> Table \cup {None}]
  /\ \A r \in Requests : tables[r] # None => tables[r].n <= Len(Text[r])
  /\ entries \in Seq(Requests) /\ live \subseteq Requests
  /\ index \in [Prefixes -> Seq(Blocks) \cup {None}]
  /\ storing # None => storing.id \in live /\ storing.upto \in 0..Len(Text[storing.id])

(* Blocks are held only by a request under way or by an entry pressure can *)
(* evict: nothing holds blocks that no path would ever release.            *)
TablesHaveOwners ==
  \A r \in Requests :
    /\ tables[r] # None => r \in live \/ r \in Range(entries)
    /\ r \in Range(entries) => tables[r] # None

(* No block leaks and none is freed twice: each is free or allocated, its  *)
(* references are the tables that list it, and every table has an owner    *)
(* whose end releases it.                                                  *)
ReferencesBalance ==
  /\ AccountsFor(pool, {})
  /\ \A b \in Blocks : /\ pool.ref[b] = Cardinality(Holders(b))
                       /\ (b \in pool.alloc) <=> (Holders(b) # {})
  /\ TablesHaveOwners

(* Whatever stores, forks and evictions did meanwhile, the blocks of a     *)
(* table hold the KV of its request's own text, end to end.                *)
TablesHoldTheirText ==
  \A r \in Requests : tables[r] # None =>
    LET t == tables[r].ids
    IN  /\ \A i \in DOMAIN t :
             /\ pool.kv[t[i]] # None
             /\ pool.kv[t[i]] = Upto(r, Len(pool.kv[t[i]]))
             /\ Len(pool.kv[t[i]]) - span[t[i]] =
                  IF i = 1 THEN 0 ELSE Len(pool.kv[t[i - 1]])
        /\ tables[r].n = IF t = <<>> THEN 0 ELSE Len(pool.kv[t[Len(t)]])

(* A block of tokens is kept once: no two allocated full blocks have the   *)
(* same identity, however stores, evictions and forks interleave.          *)
StoredOnce ==
  \A b, c \in pool.alloc :
    b # c /\ span[b] = BlockSize /\ span[c] = BlockSize => pool.id[b] # pool.id[c]

(* What is stored is found: a prompt whose full blocks through the k-th    *)
(* some table holds is served at least k blocks; the hash lookup, which    *)
(* comes first, never hides a longer match of the prefix index.            *)
StoredIsFound ==
  storing = None =>
    \A r \in Requests \ live : \A k \in 1..(Asked[r] \div BlockSize) :
      (\E b \in pool.alloc \ Held(r) : pool.kv[b] = Full(r, k))
        => Covered(Released(pool, r), r) >= k * BlockSize
=============================================================================
