----------------------------- MODULE PagedCache -----------------------------
(***************************************************************************)
(* PagedCacheManager of rapid_mlx/paged_cache.py, driven by requests that  *)
(* keep their blocks in block tables: allocation, chain-hash caching,      *)
(* prefix lookup and touch, forking with copy-on-write, pinning, eviction  *)
(* and pressure release.  A block spans one chunk, so a prompt is the      *)
(* sequence of its chunks and a prefix of it names the KV of a block.      *)
(***************************************************************************)
EXTENDS PagedPool, Sequences

CONSTANTS Requests,  \* request ids
          Chunks,    \* what one block of tokens can hold
          Prompt,    \* the prompt of each request, a sequence of chunks
          Pinnable,  \* the blocks callers ask to pin
          MaxRef     \* bound: references counted on one block

ASSUME RequestAssumption == IsFiniteSet(Requests) /\ None \notin Seq(Blocks)

ASSUME PromptAssumption ==
  /\ Prompt \in [Requests -> Seq(Chunks)]
  /\ \A r \in Requests : \A i \in 1..Len(Prompt[r]) :
       SubSeq(Prompt[r], 1, i) \in Prefixes /\ <<Prompt[r][i]>> \in Prefixes

VARIABLES pool,     \* the manager's blocks, queue and maps
          tables,   \* request_tables: block ids in order, or None
          lost,     \* history: blocks unlinked by a failed get_new_blocks
          outcome   \* what the last allocating call did

vars == <<pool, tables, lost, outcome>>

Elems(s) == {s[i] : i \in DOMAIN s}

Held(r) == IF tables[r] = None THEN {} ELSE Elems(tables[r])

Holders(b) == {r \in Requests : b \in Held(r)}

Prefix(r, n) == SubSeq(Prompt[r], 1, n)

Outcomes == {"ok", "None", "raised", "ValueError", "AssertionError"}

Init == /\ pool = EmptyPool
        /\ tables = [r \in Requests |-> None]
        /\ lost = {}
        /\ outcome = "ok"

Quiet == outcome' = "ok" /\ UNCHANGED lost

(* create_block_table: a reused id first releases the table it replaces.   *)
CreateTable(r) == /\ pool' = Release(pool, Held(r))
                  /\ tables' = [tables EXCEPT ![r] = <<>>]
                  /\ Quiet

(* delete_block_table: one free_block for each block of the table.         *)
DeleteTable(r) == /\ tables[r] # None
                  /\ pool' = Release(pool, Held(r))
                  /\ tables' = [tables EXCEPT ![r] = None]
                  /\ Quiet

(* A table grows by blocks that hold the next chunks of its prompt:        *)
(* add_block_to_table and the tensors the request computed for them.       *)
Grown(p, r, s) ==
  [p EXCEPT !.kv = [b \in Blocks |->
     IF b \in Elems(s)
     THEN Prefix(r, Len(tables[r]) + (CHOOSE i \in DOMAIN s : s[i] = b))
     ELSE p.kv[b]]]

(* allocate_block: None when the counter is zero; popleft_lfu raises when  *)
(* the counter is not but no unpinned block is linked.                     *)
AllocateBlock(r) ==
  /\ tables[r] # None /\ Len(tables[r]) < Len(Prompt[r])
  /\ \/ /\ pool.num = 0
        /\ outcome' = "None"
        /\ UNCHANGED <<pool, tables>>
     \/ /\ pool.num # 0 /\ Victims(pool) = {}
        /\ outcome' = "raised"
        /\ UNCHANGED <<pool, tables>>
     \/ \E b \in Victims(pool) :
          /\ pool.num # 0
          /\ pool' = Grown(Claim(pool, {b}), r, <<b>>)
          /\ tables' = [tables EXCEPT ![r] = Append(@, b)]
          /\ outcome' = "ok"
  /\ UNCHANGED lost

(* get_new_blocks(n): the guard counts pinned and lost blocks as free, so  *)
(* popleft_n can meet the end of the list after unlinking every unpinned   *)
(* block; those blocks are then neither queued nor allocated.              *)
GetNewBlocks(r, n) ==
  /\ tables[r] # None /\ Len(tables[r]) + n <= Len(Prompt[r])
  /\ \/ /\ n > pool.num
        /\ outcome' = "ValueError"
        /\ UNCHANGED <<pool, tables, lost>>
     \/ /\ n <= pool.num /\ Cardinality(Victims(pool)) < n
        /\ pool' = [pool EXCEPT !.free = @ \ Victims(pool)]
        /\ lost' = lost \cup Victims(pool)
        /\ outcome' = "AssertionError"
        /\ UNCHANGED tables
     \/ \E s \in [1..n -> Victims(pool)] :
          /\ n <= pool.num
          /\ \A i, j \in 1..n : s[i] = s[j] => i = j
          /\ pool' = Grown(Claim(pool, Elems(s)), r, s)
          /\ tables' = [tables EXCEPT ![r] = @ \o s]
          /\ outcome' = "ok"
          /\ UNCHANGED lost

(* cache_full_blocks over the blocks of a table not hashed yet.  Each gets *)
(* the chain hash of its whole prefix and, for the legacy index, the hash  *)
(* of its own chunk alone.                                                 *)
CacheFullBlocks(r) ==
  LET t == tables[r]
      new == {i \in DOMAIN t : pool.chain[t[i]] = None}
      at(b) == CHOOSE i \in new : t[i] = b
      chunk(i) == <<Prompt[r][i]>>
      NewAt(h) == {t[i] : i \in {j \in new : Prefix(r, j) = h}}
      LastOf(h) == {i \in new : chunk(i) = h /\ \A j \in new : chunk(j) = h => j <= i}
  IN  /\ t # None /\ new # {}
      /\ pool' = [pool EXCEPT
           !.chain = [b \in Blocks |-> IF \E i \in new : t[i] = b
                                       THEN Prefix(r, at(b)) ELSE @[b]],
           !.chainMap = [h \in Prefixes |-> @[h] \cup NewAt(h)],
           !.id = [b \in Blocks |-> IF \E i \in new : t[i] = b
                                    THEN chunk(at(b)) ELSE @[b]],
           !.idMap = [h \in Prefixes |-> IF LastOf(h) # {}
                                         THEN t[CHOOSE i \in LastOf(h) : TRUE]
                                         ELSE @[h]]]
      /\ UNCHANGED tables
      /\ Quiet

(* get_computed_blocks: any block of the map, as deep as the chain goes.   *)
Computed(r) ==
  {s \in UNION {[1..n -> Blocks] : n \in 1..Len(Prompt[r])} :
     /\ \A i \in DOMAIN s : s[i] \in pool.chainMap[Prefix(r, i)]
     /\ Len(s) < Len(Prompt[r]) => pool.chainMap[Prefix(r, Len(s) + 1)] = {}}

(* A new request adopts the computed blocks: touch takes the references.   *)
(* (The references of a lost block only grow; MaxRef bounds them.)         *)
AdoptComputed(r) == /\ tables[r] = <<>>
                    /\ \E s \in Computed(r) :
                         /\ \A b \in Elems(s) : pool.ref[b] < MaxRef
                         /\ pool' = Touch(pool, Elems(s))
                         /\ tables' = [tables EXCEPT ![r] = s]
                    /\ Quiet

ForkOverTable(r, q) ==  \* slip: the replaced table keeps its references
  /\ tables[r] # None /\ q # r
  /\ Len(tables[r]) <= Len(Prompt[q])
  /\ Prefix(q, Len(tables[r])) = Prefix(r, Len(tables[r]))
  /\ pool' = Retain(pool, Held(r))
  /\ tables' = [tables EXCEPT ![q] = tables[r]]
  /\ Quiet

(* fork_block_table: a reused target id releases its old table, a fork     *)
(* onto itself changes nothing.  Callers fork a common prompt.             *)
Fork(r, q) == /\ tables[r] # None /\ q # r
              /\ Len(tables[r]) <= Len(Prompt[q])
              /\ Prefix(q, Len(tables[r])) = Prefix(r, Len(tables[r]))
              /\ pool' = Retain(Release(pool, Held(q)), Held(r))
              /\ tables' = [tables EXCEPT ![q] = tables[r]]
              /\ Quiet

(* get_blocks_for_generation: each shared block is replaced by a private   *)
(* copy while blocks last.  Once the counter is zero the shared block      *)
(* itself is returned; a counter that still counts blocks no pop can       *)
(* return makes allocate_block raise, with the earlier copies kept.        *)
CopyOnWrite(p, copied, new) ==
  LET q == Claim(p, {new[b] : b \in copied})
  IN  [q EXCEPT !.ref = [b \in Blocks |-> IF b \in copied THEN @[b] - 1 ELSE @[b]],
                !.kv = [b \in Blocks |->
                          IF \E c \in copied : new[c] = b
                          THEN p.kv[CHOOSE c \in copied : new[c] = b] ELSE @[b]]]

Shared(r) == {i \in DOMAIN tables[r] : /\ tables[r][i] \in pool.alloc
                                       /\ pool.ref[tables[r][i]] > 1}

Generate(r) ==
  /\ tables[r] # None /\ Shared(r) # {}
  /\ LET room == Cardinality(Victims(pool))
         reached == {i \in Shared(r) :
                       Cardinality({j \in Shared(r) : j < i}) < room}
         copied == {tables[r][i] : i \in reached}
     IN  \E new \in [copied -> Victims(pool)] :
           /\ \A b, c \in copied : new[b] = new[c] => b = c
           /\ pool' = CopyOnWrite(pool, copied, new)
           /\ tables' = [tables EXCEPT ![r] =
                [i \in DOMAIN @ |-> IF @[i] \in copied THEN new[@[i]] ELSE @[i]]]
           /\ outcome' = IF reached # Shared(r) /\ pool'.num > 0
                         THEN "raised" ELSE "ok"
  /\ UNCHANGED lost

(* evict_lru_blocks(n), also on behalf of handle_memory_pressure: pops     *)
(* unpinned blocks, strips them and appends them again, so at most n lose  *)
(* their identity and the number of free blocks stays what it was.         *)
EvictLru(n) == /\ \E S \in SUBSET Victims(pool) :
                    /\ S # {} /\ Cardinality(S) <= n
                    /\ Cardinality(S) <= pool.num
                    /\ pool' = EvictCached(pool, S)
               /\ UNCHANGED tables
               /\ Quiet

(* release_pressure_blocks(max): free unpinned blocks that still hold      *)
(* tensors, hashed or not; max = 0 sweeps them all.                        *)
ResidentAnywhere ==  \* slip: the sweep walks all blocks, not the free queue
  {b \in Blocks \ pool.pinned : pool.kv[b] # None}

Resident == {b \in Victims(pool) : pool.kv[b] # None}

ReleasePressure(max) ==
  /\ Resident # {}
  /\ \E S \in SUBSET Resident :
       /\ IF max = 0 \/ Cardinality(Resident) <= max
          THEN S = Resident ELSE Cardinality(S) = max
       /\ pool' = ForgetAll(pool, S)
  /\ UNCHANGED tables
  /\ Quiet

(* pin_blocks reaches allocated blocks only, unpin_blocks every block.     *)
Pin(S) == /\ pool' = [pool EXCEPT !.pinned = @ \cup (S \cap pool.alloc)]
          /\ UNCHANGED tables
          /\ Quiet

Unpin(S) == /\ pool' = [pool EXCEPT !.pinned = @ \ S]
            /\ UNCHANGED tables
            /\ Quiet

(* reset_prefix_cache: only when the counter says every block is free.     *)
ResetPrefixCache ==
  /\ pool.num >= Cardinality(Blocks)
  /\ pool' = [pool EXCEPT !.chain = [b \in Blocks |-> None],
                          !.chainMap = [h \in Prefixes |-> {}],
                          !.id = [b \in Blocks |-> None],
                          !.idMap = [h \in Prefixes |-> None],
                          !.kv = [b \in Blocks |-> None]]
  /\ UNCHANGED tables
  /\ Quiet

(* clear: blocks, queue, maps and tables are built anew.                   *)
Clear == /\ pool' = EmptyPool
         /\ tables' = [r \in Requests |-> None]
         /\ lost' = {}
         /\ outcome' = "ok"

Next ==
  \/ \E r \in Requests :
       \/ CreateTable(r) \/ DeleteTable(r) \/ AllocateBlock(r)
       \/ CacheFullBlocks(r) \/ AdoptComputed(r) \/ Generate(r)
       \/ \E n \in 1..Cardinality(Blocks) : GetNewBlocks(r, n)
       \/ \E q \in Requests : Fork(r, q)
  \/ \E n \in 1..Cardinality(Blocks) : EvictLru(n) \/ ReleasePressure(n - 1)
  \/ \E S \in SUBSET Pinnable : Pin(S) \/ Unpin(S)
  \/ ResetPrefixCache
  \/ Clear

Spec == Init /\ [][Next]_vars
-----------------------------------------------------------------------------
TypeOK == /\ pool \in Pool
          /\ tables \in [Requests -> Seq(Blocks) \cup {None}]
          /\ \A r \in Requests : tables[r] # None => Len(tables[r]) <= Len(Prompt[r])
          /\ lost \subseteq Blocks
          /\ outcome \in Outcomes

(* Every block is queued, allocated or lost to a failed bulk allocation,   *)
(* never two of them, and num_free_blocks counts the queued and the lost.  *)
BlocksAccountedFor == AccountsFor(pool, lost)

(* The reference count of a block is the number of tables that list it,    *)
(* through forks, copies, adoption and reuse of ids: a block is allocated  *)
(* exactly while some table lists it.  (A lost block can still be hashed;  *)
(* touch then counts a reference on a block no queue or table releases.)   *)
RefsAreHolders ==
  \A b \in Blocks \ lost :
                    /\ pool.ref[b] = Cardinality(Holders(b))
                    /\ (b \in pool.alloc) <=> (Holders(b) # {})

(* A chain hash never resolves to a block that holds other KV: reuse,      *)
(* eviction and pressure release keep map, block and tensors in step.  (A  *)
(* lost block in a table counts as free, so reset_prefix_cache may empty   *)
(* it under its holder.)                                                   *)
ChainHitsAreSound ==
  \A h \in Prefixes : \A b \in pool.chainMap[h] \ lost :
    pool.chain[b] = h /\ pool.kv[b] = h

(* Nothing another request does changes or drops the KV of a block while   *)
(* a table lists it (lost blocks apart: they count as free), and a pinned  *)
(* block keeps its tensors until it is unpinned, even while it is free;    *)
(* only reset_prefix_cache overrules a pin, and clear both.                *)
KeepsKv(r) == \A b \in Held(r) \ lost : b \in Held(r)' => pool'.kv[b] = pool.kv[b]

KeepsPinned == \A b \in pool.pinned \cap pool'.pinned : pool'.kv[b] = pool.kv[b]

HeldKvIsStable ==
  [][~Clear => /\ \A r \in Requests : KeepsKv(r)
               /\ ResetPrefixCache \/ KeepsPinned]_vars

(* "Returns: CacheBlock if available, None if out of memory."              *)
AllocateNeverRaises == outcome # "raised"

(* "Raises: ValueError: If not enough free blocks", and nothing else.      *)
BulkFailureIsValueError == outcome # "AssertionError"

(* find_shared_prefix: "A block whose chunk matches but whose history      *)
(* diverges is a miss."                                                    *)
SharedPrefixIsSound ==
  \A h \in Prefixes : FindById(pool, h) # None => pool.kv[FindById(pool, h)] = h
=============================================================================
