--------------------------- MODULE PagedCacheProofs ---------------------------
(***************************************************************************)
(* Proofs about PagedCache for every pool size, set of requests and        *)
(* prompts: typing, the accounting of blocks and the exactness of the      *)
(* reference counts.  The three are inductive together: a type needs the   *)
(* counter to stay natural (accounting), the accounting needs the touched  *)
(* and released blocks to be where their reference counts say (exactness). *)
(*                                                                         *)
(* Then what the KV of the blocks can be relied on for: a chain hash       *)
(* resolves to the KV it names, and nobody changes KV that a table lists   *)
(* or a pin protects.  A hash is registered for what a table says its      *)
(* block holds, so the tables must be right for the hashes to be           *)
(* (TablesHoldPrompts); a table adopts what a hash resolves to, so the     *)
(* hashes must be right for the tables to be: the two are inductive        *)
(* together, on top of the accounting that keeps a listed block out of the *)
(* free queue.                                                             *)
(***************************************************************************)
EXTENDS PagedCache, FiniteSetTheorems, SequenceTheorems, TLAPS
-----------------------------------------------------------------------------
(* What the primitives of PagedPool preserve, for every set of blocks: the *)
(* type of a pool and the accounting of its blocks.                        *)

(* Cardinalities of a finite set and its parts, in the form used below.    *)
LEMMA CardParts ==
  ASSUME NEW S, IsFiniteSet(S), NEW T \in SUBSET S
  PROVE  /\ IsFiniteSet(T) /\ IsFiniteSet(S \ T)
         /\ Cardinality(S) \in Nat /\ Cardinality(T) \in Nat
         /\ Cardinality(S \ T) = Cardinality(S) - Cardinality(T)
<1>1. IsFiniteSet(T) /\ IsFiniteSet(S \ T)  BY FS_Subset
<1>2. Cardinality(T) \in Nat /\ Cardinality(S) \in Nat  BY <1>1, FS_CardinalityType
<1>3. Cardinality(S \ T) = Cardinality(S) - Cardinality(S \cap T)  BY FS_Difference
<1>4. S \cap T = T  OBVIOUS
<1> QED  BY <1>1, <1>2, <1>3, <1>4

(* Two disjoint finite sets.                                               *)
LEMMA CardDisjoint ==
  ASSUME NEW S, NEW T, IsFiniteSet(S), IsFiniteSet(T), S \cap T = {}
  PROVE  Cardinality(S \cup T) = Cardinality(S) + Cardinality(T)
<1>1. Cardinality(S \cup T) =
        Cardinality(S) + Cardinality(T) - Cardinality(S \cap T)  BY FS_Union
<1>2. Cardinality(S \cap T) = 0  BY FS_EmptySet
<1>3. Cardinality(S) \in Nat /\ Cardinality(T) \in Nat  BY FS_CardinalityType
<1> QED  BY <1>1, <1>2, <1>3

(* _maybe_evict_cached_block and release_pressure_blocks only touch hashes *)
(* and tensors.                                                            *)
LEMMA ForgetKeeps ==
  ASSUME NEW p \in Pool, NEW S
  PROVE  /\ ForgetAll(p, S) \in Pool
         /\ ForgetAll(p, S).free = p.free /\ ForgetAll(p, S).num = p.num
         /\ ForgetAll(p, S).alloc = p.alloc /\ ForgetAll(p, S).ref = p.ref
         /\ ForgetAll(p, S).pinned = p.pinned
BY DEF Pool, ForgetAll

(* Blocks popped from the queue, with the references allocate_block or     *)
(* get_new_blocks gives them.                                              *)
LEMMA ClaimKeeps ==
  ASSUME NEW p \in Pool, NEW l \in SUBSET Blocks, AccountsFor(p, l),
         NEW S \in SUBSET p.free
  PROVE  /\ Claim(p, S) \in Pool /\ AccountsFor(Claim(p, S), l)
         /\ Claim(p, S).alloc = p.alloc \cup S
         /\ Claim(p, S).free = p.free \ S
         /\ Claim(p, S).ref = [b \in Blocks |-> IF b \in S THEN 1 ELSE p.ref[b]]
<1> DEFINE q == EvictCached(p, S)
           c == Claim(p, S)
<1>1. q \in Pool /\ q.pinned = p.pinned  BY ForgetKeeps DEF EvictCached
<1>2. /\ c.free = p.free \ S /\ c.alloc = p.alloc \cup S
      /\ c.num = p.num - Cardinality(S)
      /\ c.ref = [b \in Blocks |-> IF b \in S THEN 1 ELSE p.ref[b]]
  BY <1>1 DEF Claim, Pool
<1>3. p.free \subseteq Blocks /\ IsFiniteSet(p.free) /\ IsFiniteSet(l)
  BY PoolAssumption, FS_Subset DEF Pool
<1>4. /\ Cardinality(p.free \ S) = Cardinality(p.free) - Cardinality(S)
      /\ Cardinality(p.free \ S) \in Nat /\ Cardinality(S) \in Nat
      /\ Cardinality(p.free) \in Nat /\ Cardinality(l) \in Nat
  BY <1>3, CardParts, FS_CardinalityType
<1>5. c.num = Cardinality(c.free) + Cardinality(l)
  BY <1>2, <1>4 DEF AccountsFor
<1>6. AccountsFor(c, l)  BY <1>2, <1>5 DEF AccountsFor
<1>7. c.num \in Nat  BY <1>2, <1>4, <1>5
<1>8. c \in Pool
  <2>1. p.num - Cardinality(S) \in Nat  BY <1>2, <1>7
  <2>2. p.free \ S \in SUBSET Blocks /\ p.alloc \cup S \in SUBSET Blocks
    BY <1>3 DEF Pool
  <2>3. [b \in Blocks |-> IF b \in S THEN 1 ELSE p.ref[b]] \in [Blocks -> Nat]
    BY DEF Pool
  <2> QED  BY <1>1, <2>1, <2>2, <2>3 DEF Claim, Pool
<1> QED  BY <1>2, <1>6, <1>8

(* free_block on each block of a table: blocks whose last reference goes   *)
(* move to the queue and are counted there.                                *)
LEMMA ReleaseKeeps ==
  ASSUME NEW p \in Pool, NEW l \in SUBSET Blocks, AccountsFor(p, l),
         NEW S, \A b \in S \cap p.alloc : p.ref[b] >= 1
  PROVE  Release(p, S) \in Pool /\ AccountsFor(Release(p, S), l)
<1> DEFINE L == LastRefs(p, S)
           q == Release(p, S)
<1>1. L \subseteq p.alloc  BY DEF LastRefs
<1>2. /\ q.free = p.free \cup L /\ q.alloc = p.alloc \ L
      /\ q.num = p.num + Cardinality(L)
  BY DEF Release, Pool
<1>3. IsFiniteSet(p.free) /\ IsFiniteSet(L) /\ IsFiniteSet(l)
  BY <1>1, PoolAssumption, FS_Subset DEF Pool
<1>4. p.free \cap L = {}  BY <1>1 DEF AccountsFor
<1>5. /\ Cardinality(p.free \cup L) = Cardinality(p.free) + Cardinality(L)
      /\ Cardinality(p.free) \in Nat /\ Cardinality(L) \in Nat
      /\ Cardinality(l) \in Nat
  BY <1>3, <1>4, CardDisjoint, FS_CardinalityType
<1>6. AccountsFor(q, l)
  <2>1. q.num = Cardinality(q.free) + Cardinality(l)
    BY <1>2, <1>5 DEF AccountsFor
  <2> QED  BY <1>1, <1>2, <2>1 DEF AccountsFor
<1>7. q \in Pool
  <2>1. p.num + Cardinality(L) \in Nat  BY <1>5 DEF Pool
  <2>2. p.free \cup L \in SUBSET Blocks /\ p.alloc \ L \in SUBSET Blocks
    BY <1>1 DEF Pool
  <2>3. [b \in Blocks |-> IF b \in S \cap p.alloc THEN p.ref[b] - 1 ELSE p.ref[b]]
          \in [Blocks -> Nat]
    BY DEF Pool
  <2> QED  BY <2>1, <2>2, <2>3 DEF Release, Pool
<1> QED  BY <1>6, <1>7

(* increment_ref changes no block's place.                                 *)
LEMMA RetainKeeps ==
  ASSUME NEW p \in Pool, NEW l \in SUBSET Blocks, AccountsFor(p, l), NEW S
  PROVE  Retain(p, S) \in Pool /\ AccountsFor(Retain(p, S), l)
<1>1. [b \in Blocks |-> IF b \in S \cap p.alloc THEN p.ref[b] + 1 ELSE p.ref[b]]
        \in [Blocks -> Nat]
  BY DEF Pool
<1> QED  BY <1>1 DEF Retain, Pool, AccountsFor

(* touch: revived blocks leave the queue and are allocated.                *)
LEMMA TouchKeeps ==
  ASSUME NEW p \in Pool, NEW l \in SUBSET Blocks, AccountsFor(p, l),
         NEW S \in SUBSET Blocks
  PROVE  Touch(p, S) \in Pool /\ AccountsFor(Touch(p, S), l)
<1> DEFINE R == {b \in S \cap p.free : p.ref[b] = 0}
           q == Touch(p, S)
<1>1. /\ q.free = p.free \ R /\ q.alloc = p.alloc \cup R
      /\ q.num = p.num - Cardinality(R)
  BY DEF Touch, Pool
<1>2. IsFiniteSet(p.free) /\ R \in SUBSET p.free /\ IsFiniteSet(l)
  BY PoolAssumption, FS_Subset DEF Pool
<1>3. /\ Cardinality(p.free \ R) = Cardinality(p.free) - Cardinality(R)
      /\ Cardinality(p.free \ R) \in Nat /\ Cardinality(R) \in Nat
      /\ Cardinality(p.free) \in Nat /\ Cardinality(l) \in Nat
  BY <1>2, CardParts, FS_CardinalityType
<1>4. q.num = Cardinality(q.free) + Cardinality(l)
  BY <1>1, <1>3 DEF AccountsFor
<1>5. AccountsFor(q, l)
  BY <1>1, <1>2, <1>4 DEF AccountsFor
<1>6. q \in Pool
  <2>1. p.num - Cardinality(R) \in Nat  BY <1>1, <1>3, <1>4
  <2>2. p.free \ R \in SUBSET Blocks /\ p.alloc \cup R \in SUBSET Blocks
    BY <1>2 DEF Pool
  <2>3. [b \in Blocks |-> IF b \in S THEN p.ref[b] + 1 ELSE p.ref[b]]
          \in [Blocks -> Nat]
    BY DEF Pool
  <2> QED  BY <2>1, <2>2, <2>3 DEF Touch, Pool
<1> QED  BY <1>5, <1>6

-----------------------------------------------------------------------------

IInv == TypeOK /\ BlocksAccountedFor /\ RefsAreHolders

Bit(P) == IF P THEN 1 ELSE 0

(* What the invariant says of one block that is not lost.                  *)
LEMMA BlockState ==
  ASSUME IInv, NEW b \in Blocks, b \notin lost
  PROVE  /\ pool.ref[b] = Cardinality(Holders(b)) /\ pool.ref[b] \in Nat
         /\ (b \in pool.alloc) <=> (pool.ref[b] > 0)
         /\ (b \in pool.free) <=> (pool.ref[b] = 0)
         /\ \A r \in Requests : b \in Held(r) => pool.ref[b] > 0
<1>1. IsFiniteSet(Holders(b))
  BY RequestAssumption, FS_Subset DEF Holders
<1>2. Cardinality(Holders(b)) \in Nat /\ (Cardinality(Holders(b)) = 0 <=> Holders(b) = {})
  BY <1>1, FS_CardinalityType, FS_EmptySet
<1>3. \A r \in Requests : b \in Held(r) => Holders(b) # {}
  BY DEF Holders
<1> QED
  BY <1>2, <1>3 DEF IInv, RefsAreHolders, BlocksAccountedFor, AccountsFor

(* One table is replaced: the holders of a block change by that request.   *)
LEMMA HoldersStep ==
  ASSUME tables \in [Requests -> Seq(Blocks) \cup {None}],
         NEW r \in Requests, NEW t, tables' = [tables EXCEPT ![r] = t], NEW b
  PROVE  /\ Held(r)' = IF t = None THEN {} ELSE Elems(t)
         /\ Cardinality(Holders(b)') + Bit(b \in Held(r))
              = Cardinality(Holders(b)) + Bit(b \in Held(r)')
         /\ Cardinality(Holders(b)') \in Nat /\ Cardinality(Holders(b)) \in Nat
         /\ Cardinality(Holders(b)') = 0 <=> Holders(b)' = {}
<1>1. \A q \in Requests : q # r => tables'[q] = tables[q]  OBVIOUS
<1>2. tables'[r] = t  OBVIOUS
<1>3. Held(r)' = IF t = None THEN {} ELSE Elems(t)  BY <1>2 DEF Held
<1>4. \A q \in Requests : q # r => Held(q)' = Held(q)  BY <1>1 DEF Held
<1>5. IsFiniteSet(Holders(b)) /\ IsFiniteSet(Holders(b)')
  BY RequestAssumption, FS_Subset DEF Holders
<1>6. r \in Holders(b) <=> b \in Held(r)  BY DEF Holders
<1>7. CASE b \in Held(r)'
  <2>1. Holders(b)' = Holders(b) \cup {r}  BY <1>4, <1>7 DEF Holders
  <2> QED  BY <2>1, <1>3, <1>5, <1>6, <1>7, FS_AddElement, FS_CardinalityType,
              FS_EmptySet DEF Bit
<1>8. CASE b \notin Held(r)'
  <2>1. Holders(b)' = Holders(b) \ {r}  BY <1>4, <1>8 DEF Holders
  <2> QED  BY <2>1, <1>3, <1>5, <1>6, <1>8, FS_RemoveElement, FS_CardinalityType,
              FS_EmptySet DEF Bit
<1> QED  BY <1>7, <1>8

(* So the counts stay exact when the pool moves them by the same amount.   *)
LEMMA RefsFollow ==
  ASSUME IInv, NEW r \in Requests, NEW t, tables' = [tables EXCEPT ![r] = t],
         \A b \in Blocks \ lost' :
           /\ b \notin lost
           /\ pool'.ref[b] + Bit(b \in Held(r)) = pool.ref[b] + Bit(b \in Held(r)')
           /\ pool'.ref[b] \in Nat
           /\ (b \in pool'.alloc) <=> (pool'.ref[b] > 0)
  PROVE  RefsAreHolders'
<1> SUFFICES ASSUME NEW b \in Blocks, b \notin lost'
             PROVE  /\ pool'.ref[b] = Cardinality(Holders(b)')
                    /\ (b \in pool'.alloc) <=> (Holders(b)' # {})
  BY DEF RefsAreHolders
<1>1. tables \in [Requests -> Seq(Blocks) \cup {None}]  BY DEF IInv, TypeOK
<1>2. pool.ref[b] = Cardinality(Holders(b)) /\ pool.ref[b] \in Nat
  BY BlockState
<1>3. /\ Cardinality(Holders(b)') + Bit(b \in Held(r))
           = Cardinality(Holders(b)) + Bit(b \in Held(r)')
      /\ Cardinality(Holders(b)') \in Nat
      /\ Cardinality(Holders(b)') = 0 <=> Holders(b)' = {}
  BY <1>1, HoldersStep
<1>4. Bit(b \in Held(r)) \in {0, 1} /\ Bit(b \in Held(r)') \in {0, 1}  BY DEF Bit
<1>5. pool'.ref[b] + Bit(b \in Held(r)) = pool.ref[b] + Bit(b \in Held(r)')
  OBVIOUS
<1> QED  BY <1>2, <1>3, <1>4, <1>5

(* A replaced table keeps the tables well typed.                           *)
LEMMA TablesTyped ==
  ASSUME TypeOK, NEW r \in Requests, NEW t, tables' = [tables EXCEPT ![r] = t],
         t = None \/ (t \in Seq(Blocks) /\ Len(t) <= Len(Prompt[r]))
  PROVE  /\ tables' \in [Requests -> Seq(Blocks) \cup {None}]
         /\ \A q \in Requests : tables'[q] # None => Len(tables'[q]) <= Len(Prompt[q])
BY DEF TypeOK

LEMMA ElemsConcat ==
  ASSUME NEW S, NEW s \in Seq(S), NEW t \in Seq(S)
  PROVE  Elems(s \o t) = Elems(s) \cup Elems(t) /\ Elems(s) \subseteq S
<1>1. Elems(s) \subseteq S  BY DEF Elems
<1>2. Elems(s \o t) \subseteq Elems(s) \cup Elems(t)  BY DEF Elems
<1>3. Elems(s) \subseteq Elems(s \o t)  BY DEF Elems
<1>4. Elems(t) \subseteq Elems(s \o t)
  <2> SUFFICES ASSUME NEW i \in 1..Len(t)  PROVE t[i] \in Elems(s \o t)
    BY DEF Elems
  <2>1. Len(s) + i \in 1..Len(s \o t) /\ (s \o t)[Len(s) + i] = t[i]  OBVIOUS
  <2> QED  BY <2>1 DEF Elems
<1> QED  BY <1>1, <1>2, <1>3, <1>4

(* Releasing the blocks of a table takes one reference from each of them.  *)
LEMMA ReleaseHeld ==
  ASSUME IInv, NEW r \in Requests
  PROVE  LET q == Release(pool, Held(r))
         IN  /\ q \in Pool /\ AccountsFor(q, lost)
             /\ \A b \in Blocks \ lost :
                  /\ q.ref[b] + Bit(b \in Held(r)) = pool.ref[b]
                  /\ q.ref[b] \in Nat
                  /\ (b \in q.alloc) <=> (q.ref[b] > 0)
<1> DEFINE q == Release(pool, Held(r))
<1>1. pool \in Pool /\ lost \in SUBSET Blocks /\ AccountsFor(pool, lost)
  BY DEF IInv, TypeOK, BlocksAccountedFor
<1>2. \A b \in Held(r) \cap pool.alloc : b \in Blocks /\ b \notin lost
  BY <1>1 DEF Pool, AccountsFor
<1>3. \A b \in Held(r) \cap pool.alloc : pool.ref[b] >= 1
  BY <1>2, BlockState
<1>4. q \in Pool /\ AccountsFor(q, lost)
  BY <1>1, <1>3, ReleaseKeeps
<1>5. ASSUME NEW b \in Blocks \ lost
      PROVE  /\ q.ref[b] + Bit(b \in Held(r)) = pool.ref[b]
             /\ q.ref[b] \in Nat
             /\ (b \in q.alloc) <=> (q.ref[b] > 0)
  <2>1. /\ q.ref[b] = IF b \in Held(r) \cap pool.alloc
                      THEN pool.ref[b] - 1 ELSE pool.ref[b]
        /\ q.alloc = pool.alloc \ LastRefs(pool, Held(r))
    BY <1>1 DEF Release, Pool
  <2>3. b \in LastRefs(pool, Held(r)) <=>
          b \in Held(r) \cap pool.alloc /\ pool.ref[b] <= 1
    BY DEF LastRefs
  <2>2. /\ pool.ref[b] \in Nat
        /\ (b \in pool.alloc) <=> (pool.ref[b] > 0)
        /\ b \in Held(r) => pool.ref[b] > 0
    BY BlockState
  <2> QED  BY <2>1, <2>2, <2>3 DEF Bit
<1> QED  BY <1>4, <1>5

(* A new allocation takes blocks nobody holds and gives each one reference.*)
LEMMA ClaimFree ==
  ASSUME IInv, NEW S \in SUBSET Victims(pool)
  PROVE  LET q == Claim(pool, S)
         IN  /\ q \in Pool /\ AccountsFor(q, lost)
             /\ \A b \in S : b \in Blocks /\ \A r \in Requests : b \notin Held(r)
             /\ \A b \in Blocks \ lost :
                  /\ q.ref[b] = pool.ref[b] + Bit(b \in S)
                  /\ q.ref[b] \in Nat
                  /\ (b \in q.alloc) <=> (q.ref[b] > 0)
<1> DEFINE q == Claim(pool, S)
<1>1. pool \in Pool /\ lost \in SUBSET Blocks /\ AccountsFor(pool, lost)
  BY DEF IInv, TypeOK, BlocksAccountedFor
<1>2. S \in SUBSET pool.free  BY DEF Victims
<1>3. /\ q \in Pool /\ AccountsFor(q, lost)
      /\ q.alloc = pool.alloc \cup S
      /\ q.ref = [b \in Blocks |-> IF b \in S THEN 1 ELSE pool.ref[b]]
  BY <1>1, <1>2, ClaimKeeps
<1>4. \A b \in S : b \in Blocks /\ b \notin lost /\ pool.ref[b] = 0
  BY <1>1, <1>2, BlockState DEF Pool, AccountsFor
<1>5. \A b \in S : \A r \in Requests : b \notin Held(r)
  BY <1>4, BlockState
<1>6. ASSUME NEW b \in Blocks \ lost
      PROVE  /\ q.ref[b] = pool.ref[b] + Bit(b \in S) /\ q.ref[b] \in Nat
             /\ (b \in q.alloc) <=> (q.ref[b] > 0)
  <2>1. pool.ref[b] \in Nat /\ ((b \in pool.alloc) <=> (pool.ref[b] > 0))
    BY BlockState
  <2> QED  BY <1>3, <1>4, <2>1 DEF Bit
<1> QED  BY <1>3, <1>4, <1>5, <1>6

(* The tensors a table grows by have no effect on places and counts.       *)
LEMMA GrownKeeps ==
  ASSUME NEW p \in Pool, NEW r \in Requests, TypeOK, tables[r] # None,
         NEW s \in Seq(Blocks), Len(tables[r]) + Len(s) <= Len(Prompt[r])
  PROVE  LET q == Grown(p, r, s)
         IN  /\ q \in Pool /\ q.free = p.free /\ q.num = p.num
             /\ q.alloc = p.alloc /\ q.ref = p.ref
<1>1. tables[r] \in Seq(Blocks)  BY DEF TypeOK
<1>2. \A b \in Elems(s) :
        Prefix(r, Len(tables[r]) + (CHOOSE i \in DOMAIN s : s[i] = b)) \in Prefixes
  <2> TAKE b \in Elems(s)
  <2> DEFINE i == CHOOSE j \in DOMAIN s : s[j] = b
  <2>1. i \in 1..Len(s)  BY DEF Elems
  <2>2. Len(tables[r]) + i \in 1..Len(Prompt[r])  BY <1>1, <2>1, PromptAssumption
  <2> HIDE DEF i
  <2>3. Prefix(r, Len(tables[r]) + i) \in Prefixes
    BY <2>2, PromptAssumption DEF Prefix
  <2> QED  BY <2>3 DEF i
<1>3. [b \in Blocks |-> IF b \in Elems(s)
         THEN Prefix(r, Len(tables[r]) + (CHOOSE i \in DOMAIN s : s[i] = b))
         ELSE p.kv[b]] \in [Blocks -> Prefixes \cup {None}]
  BY <1>2 DEF Pool
<1> QED  BY <1>3 DEF Grown, Pool

(* A step that replaces one table and moves its references along.          *)
LEMMA TableStep ==
  ASSUME IInv, NEW r \in Requests, NEW t, tables' = [tables EXCEPT ![r] = t],
         t = None \/ (t \in Seq(Blocks) /\ Len(t) <= Len(Prompt[r])),
         lost' = lost, outcome' \in Outcomes,
         pool' \in Pool, AccountsFor(pool', lost),
         \A b \in Blocks \ lost :
           /\ pool'.ref[b] + Bit(b \in Held(r)) = pool.ref[b] + Bit(b \in Held(r)')
           /\ pool'.ref[b] \in Nat
           /\ (b \in pool'.alloc) <=> (pool'.ref[b] > 0)
  PROVE  IInv'
<1>1. TypeOK'  BY TablesTyped DEF IInv, TypeOK
<1>2. BlocksAccountedFor'  BY DEF BlocksAccountedFor
<1>3. RefsAreHolders'
  <2>1. \A b \in Blocks \ lost' :
          /\ b \notin lost
          /\ pool'.ref[b] + Bit(b \in Held(r)) = pool.ref[b] + Bit(b \in Held(r)')
          /\ pool'.ref[b] \in Nat
          /\ (b \in pool'.alloc) <=> (pool'.ref[b] > 0)
    OBVIOUS
  <2> QED  BY <2>1, RefsFollow
<1> QED  BY <1>1, <1>2, <1>3 DEF IInv

(* A step that leaves tables, counts and allocated blocks as they are.     *)
LEMMA PoolStep ==
  ASSUME IInv, UNCHANGED tables, lost' \in SUBSET Blocks, lost \subseteq lost',
         outcome' \in Outcomes, pool' \in Pool, AccountsFor(pool', lost'),
         pool'.ref = pool.ref, pool'.alloc = pool.alloc
  PROVE  IInv'
<1>1. TypeOK'  BY DEF IInv, TypeOK
<1>2. BlocksAccountedFor'  BY DEF BlocksAccountedFor
<1>3. \A b \in Blocks : Holders(b)' = Holders(b)  BY DEF Holders, Held
<1>4. RefsAreHolders'  BY <1>3 DEF IInv, RefsAreHolders
<1> QED  BY <1>1, <1>2, <1>4 DEF IInv

LEMMA InitHolds == Init => IInv
<1> SUFFICES ASSUME Init  PROVE IInv
  OBVIOUS
<1>1. IsFiniteSet(Blocks) /\ Cardinality(Blocks) \in Nat /\ Cardinality({}) = 0
  BY PoolAssumption, FS_CardinalityType, FS_EmptySet
<1>2. EmptyPool \in Pool  BY <1>1 DEF EmptyPool, Pool
<1>3. TypeOK  BY <1>2 DEF Init, TypeOK, Outcomes
<1>4. BlocksAccountedFor
  BY <1>1 DEF Init, EmptyPool, BlocksAccountedFor, AccountsFor
<1>5. \A b \in Blocks : Holders(b) = {}  BY DEF Init, Holders, Held
<1>6. RefsAreHolders  BY <1>1, <1>5 DEF Init, EmptyPool, RefsAreHolders
<1> QED  BY <1>3, <1>4, <1>6 DEF IInv

(* create_block_table and delete_block_table: a table lets its blocks go.   *)
LEMMA ReleaseTable ==
  ASSUME IInv, NEW r \in Requests, NEW t \in {<<>>, None},
         tables' = [tables EXCEPT ![r] = t], pool' = Release(pool, Held(r)), Quiet
  PROVE  IInv'
<1>1. tables'[r] = t  BY DEF IInv, TypeOK
<1>2. Held(r)' = {}
  <2>1. Elems(<<>>) = {}
    <3>1. DOMAIN <<>> = {}  OBVIOUS
    <3> QED  BY <3>1 DEF Elems
  <2>2. Held(r)' = IF t = None THEN {} ELSE Elems(t)  BY <1>1 DEF Held
  <2> QED  BY <2>1, <2>2
<1>3. t = None \/ (t \in Seq(Blocks) /\ Len(t) <= Len(Prompt[r]))
  <2>1. Len(Prompt[r]) \in Nat  BY PromptAssumption
  <2>2. <<>> \in Seq(Blocks) /\ Len(<<>>) = 0  OBVIOUS
  <2>3. CASE t = <<>>  BY <2>1, <2>2, <2>3
  <2> QED  BY <2>3
<1>4. /\ pool' \in Pool /\ AccountsFor(pool', lost)
      /\ \A b \in Blocks \ lost :
           /\ pool'.ref[b] + Bit(b \in Held(r)) = pool.ref[b]
           /\ pool'.ref[b] \in Nat
           /\ (b \in pool'.alloc) <=> (pool'.ref[b] > 0)
  BY ReleaseHeld
<1>5. \A b \in Blocks \ lost :
        pool'.ref[b] + Bit(b \in Held(r)) = pool.ref[b] + Bit(b \in Held(r)')
  <2> TAKE b \in Blocks \ lost
  <2>1. Bit(b \in Held(r)') = 0  BY <1>2 DEF Bit
  <2>2. pool.ref[b] \in Nat  BY BlockState
  <2> QED  BY <1>4, <2>1, <2>2
<1>6. lost' = lost /\ outcome' \in Outcomes  BY DEF Quiet, Outcomes
<1> QED  BY <1>3, <1>4, <1>5, <1>6, TableStep

(* allocate_block and get_new_blocks, when the pops return the blocks of s. *)
LEMMA GrowTable ==
  ASSUME IInv, NEW r \in Requests, tables[r] # None, NEW s \in Seq(Blocks),
         Len(tables[r]) + Len(s) <= Len(Prompt[r]), Elems(s) \subseteq Victims(pool),
         pool' = Grown(Claim(pool, Elems(s)), r, s),
         tables' = [tables EXCEPT ![r] = tables[r] \o s],
         lost' = lost, outcome' \in Outcomes
  PROVE  IInv'
<1> DEFINE c == Claim(pool, Elems(s))
<1>1. tables[r] \in Seq(Blocks) /\ tables \in [Requests -> Seq(Blocks) \cup {None}]
  BY DEF IInv, TypeOK
<1>2. /\ c \in Pool /\ AccountsFor(c, lost)
      /\ \A b \in Elems(s) : b \notin Held(r)
      /\ \A b \in Blocks \ lost :
           /\ c.ref[b] = pool.ref[b] + Bit(b \in Elems(s))
           /\ c.ref[b] \in Nat
           /\ (b \in c.alloc) <=> (c.ref[b] > 0)
  BY ClaimFree
<1>3. /\ pool' \in Pool /\ pool'.free = c.free /\ pool'.num = c.num
      /\ pool'.alloc = c.alloc /\ pool'.ref = c.ref
  BY <1>2, GrownKeeps DEF IInv
<1>4. AccountsFor(pool', lost)  BY <1>2, <1>3 DEF AccountsFor
<1>5. /\ tables[r] \o s \in Seq(Blocks)
      /\ Len(tables[r] \o s) <= Len(Prompt[r])
      /\ tables'[r] = tables[r] \o s /\ tables[r] \o s # None
  <2>1. tables[r] \o s \in Seq(Blocks)  BY <1>1
  <2>2. Len(tables[r] \o s) = Len(tables[r]) + Len(s)  BY <1>1
  <2>3. tables[r] \o s # None  BY <2>1, RequestAssumption
  <2> QED  BY <1>1, <2>1, <2>2, <2>3
<1>6. Held(r)' = Held(r) \cup Elems(s)
  BY <1>1, <1>5, ElemsConcat DEF Held
<1>7. \A b \in Blocks \ lost :
        pool'.ref[b] + Bit(b \in Held(r)) = pool.ref[b] + Bit(b \in Held(r)')
  <2> TAKE b \in Blocks \ lost
  <2>1. pool.ref[b] \in Nat  BY BlockState
  <2>2. pool'.ref[b] = pool.ref[b] + Bit(b \in Elems(s))  BY <1>2, <1>3
  <2>3. CASE b \in Elems(s)
    <3>1. b \notin Held(r) /\ b \in Held(r)'  BY <2>3, <1>2, <1>6
    <3> QED  BY <2>1, <2>2, <2>3, <3>1 DEF Bit
  <2>4. CASE b \notin Elems(s)
    <3>1. b \in Held(r) <=> b \in Held(r)'  BY <2>4, <1>6
    <3> QED  BY <2>1, <2>2, <2>4, <3>1 DEF Bit
  <2> QED  BY <2>3, <2>4
<1> HIDE DEF c
<1>8. \A b \in Blocks \ lost :
        pool'.ref[b] \in Nat /\ ((b \in pool'.alloc) <=> (pool'.ref[b] > 0))
  BY <1>2, <1>3
<1> QED  BY <1>3, <1>4, <1>5, <1>7, <1>8, TableStep

(* get_new_blocks when the pops meet the end of the list: the blocks they  *)
(* unlinked become lost, and the counter goes on counting them.            *)
LEMMA LoseVictims ==
  ASSUME IInv, UNCHANGED tables, outcome' \in Outcomes,
         pool' = [pool EXCEPT !.free = @ \ Victims(pool)],
         lost' = lost \cup Victims(pool)
  PROVE  IInv'
<1>1. pool \in Pool /\ lost \in SUBSET Blocks /\ AccountsFor(pool, lost)
  BY DEF IInv, TypeOK, BlocksAccountedFor
<1>2. /\ Victims(pool) \in SUBSET pool.free /\ pool.free \subseteq Blocks
      /\ IsFiniteSet(pool.free) /\ IsFiniteSet(lost)
  BY <1>1, PoolAssumption, FS_Subset DEF Victims, Pool
<1>3. /\ IsFiniteSet(Victims(pool)) /\ Cardinality(pool.free) \in Nat
      /\ Cardinality(Victims(pool)) \in Nat
      /\ Cardinality(pool.free \ Victims(pool))
           = Cardinality(pool.free) - Cardinality(Victims(pool))
  BY <1>2, CardParts
<1>4. /\ Cardinality(lost') = Cardinality(lost) + Cardinality(Victims(pool))
      /\ Cardinality(lost) \in Nat
  BY <1>1, <1>2, <1>3, CardDisjoint, FS_CardinalityType DEF AccountsFor
<1>5. /\ pool' \in Pool /\ pool'.free = pool.free \ Victims(pool)
      /\ pool'.num = pool.num /\ pool'.alloc = pool.alloc /\ pool'.ref = pool.ref
  BY <1>1, <1>2 DEF Pool
<1>6. pool'.num = Cardinality(pool'.free) + Cardinality(lost')
  BY <1>1, <1>3, <1>4, <1>5 DEF AccountsFor
<1>7. AccountsFor(pool', lost')
  BY <1>1, <1>2, <1>5, <1>6 DEF AccountsFor
<1> QED  BY <1>1, <1>2, <1>5, <1>7, PoolStep

LEMMA AllocateBlockStep ==
  ASSUME IInv, NEW r \in Requests, AllocateBlock(r)  PROVE IInv'
<1>1. pool \in Pool /\ AccountsFor(pool, lost) /\ lost \in SUBSET Blocks
  BY DEF IInv, TypeOK, BlocksAccountedFor
<1>2. CASE UNCHANGED <<pool, tables>> /\ outcome' \in Outcomes
  BY <1>1, <1>2, PoolStep DEF AllocateBlock
<1>3. ASSUME NEW b \in Victims(pool),
             pool' = Grown(Claim(pool, {b}), r, <<b>>),
             tables' = [tables EXCEPT ![r] = Append(@, b)],
             outcome' = "ok"
      PROVE  IInv'
  <2>1. b \in Blocks  BY <1>1 DEF Victims, Pool
  <2>2. tables[r] \in Seq(Blocks) /\ Prompt[r] \in Seq(Chunks)
    BY PromptAssumption DEF AllocateBlock, IInv, TypeOK
  <2>3. <<b>> \in Seq(Blocks) /\ Elems(<<b>>) = {b} /\ Len(<<b>>) = 1
    BY <2>1 DEF Elems
  <2>4. Append(tables[r], b) = tables[r] \o <<b>>  BY <2>1, <2>2
  <2>5. Len(tables[r]) + 1 <= Len(Prompt[r])  BY <2>2 DEF AllocateBlock
  <2>6. tables' = [tables EXCEPT ![r] = tables[r] \o <<b>>]  BY <1>3, <2>4
  <2>7. tables[r] # None /\ lost' = lost /\ outcome' \in Outcomes
    BY <1>3 DEF AllocateBlock, Outcomes
  <2>8. pool' = Grown(Claim(pool, Elems(<<b>>)), r, <<b>>)  BY <1>3, <2>3
  <2>9. Elems(<<b>>) \subseteq Victims(pool)
        /\ Len(tables[r]) + Len(<<b>>) <= Len(Prompt[r])
    BY <2>3, <2>5
  <2> QED  BY <2>3, <2>6, <2>7, <2>8, <2>9, GrowTable
<1> QED  BY <1>2, <1>3 DEF AllocateBlock, Outcomes

LEMMA GetNewBlocksStep ==
  ASSUME IInv, NEW r \in Requests, NEW n \in Nat, GetNewBlocks(r, n)  PROVE IInv'
<1>1. pool \in Pool /\ AccountsFor(pool, lost) /\ lost \in SUBSET Blocks
  BY DEF IInv, TypeOK, BlocksAccountedFor
<1>2. CASE UNCHANGED <<pool, tables, lost>> /\ outcome' \in Outcomes
  BY <1>1, <1>2, PoolStep
<1>3. CASE /\ pool' = [pool EXCEPT !.free = @ \ Victims(pool)]
           /\ lost' = lost \cup Victims(pool)
           /\ outcome' \in Outcomes /\ UNCHANGED tables
  BY <1>3, LoseVictims
<1>4. ASSUME NEW s \in [1..n -> Victims(pool)],
             pool' = Grown(Claim(pool, Elems(s)), r, s),
             tables' = [tables EXCEPT ![r] = @ \o s],
             outcome' = "ok", lost' = lost
      PROVE  IInv'
  <2>1. Victims(pool) \subseteq Blocks  BY <1>1 DEF Victims, Pool
  <2>2. s \in Seq(Blocks) /\ Len(s) = n  BY <2>1
  <2>3. Elems(s) \subseteq Victims(pool)  BY DEF Elems
  <2>4. tables[r] # None /\ Len(tables[r]) + Len(s) <= Len(Prompt[r])
    BY <2>2 DEF GetNewBlocks
  <2>5. tables' = [tables EXCEPT ![r] = tables[r] \o s] /\ outcome' \in Outcomes
    BY <1>4 DEF Outcomes
  <2> QED  BY <1>4, <2>2, <2>3, <2>4, <2>5, GrowTable
<1> QED  BY <1>2, <1>3, <1>4 DEF GetNewBlocks, Outcomes

(* cache_full_blocks writes hashes only, and well-typed ones.              *)
LEMMA CacheFullBlocksStep ==
  ASSUME IInv, NEW r \in Requests, CacheFullBlocks(r)  PROVE IInv'
<1> DEFINE t == tables[r]
           new == {i \in DOMAIN t : pool.chain[t[i]] = None}
           at(b) == CHOOSE i \in new : t[i] = b
           chunk(i) == <<Prompt[r][i]>>
           NewAt(h) == {t[i] : i \in {j \in new : Prefix(r, j) = h}}
           LastOf(h) == {i \in new : chunk(i) = h /\ \A j \in new : chunk(j) = h => j <= i}
           chains == [b \in Blocks |-> IF \E i \in new : t[i] = b
                                       THEN Prefix(r, at(b)) ELSE pool.chain[b]]
           maps == [h \in Prefixes |-> pool.chainMap[h] \cup NewAt(h)]
           ids == [b \in Blocks |-> IF \E i \in new : t[i] = b
                                    THEN chunk(at(b)) ELSE pool.id[b]]
           idMaps == [h \in Prefixes |-> IF LastOf(h) # {}
                                         THEN t[CHOOSE i \in LastOf(h) : TRUE]
                                         ELSE pool.idMap[h]]
<1>1. pool \in Pool /\ AccountsFor(pool, lost) /\ lost \in SUBSET Blocks
  BY DEF IInv, TypeOK, BlocksAccountedFor
<1>2. /\ pool' = [pool EXCEPT !.chain = chains, !.chainMap = maps,
                              !.id = ids, !.idMap = idMaps]
      /\ UNCHANGED tables /\ lost' = lost /\ outcome' \in Outcomes
  BY <1>1 DEF CacheFullBlocks, Quiet, Outcomes, Pool
<1>3. \A i \in new : /\ Prefix(r, i) \in Prefixes /\ chunk(i) \in Prefixes
                     /\ t[i] \in Blocks
  <2>1. t \in Seq(Blocks) /\ Len(t) <= Len(Prompt[r])
    BY DEF CacheFullBlocks, IInv, TypeOK
  <2>2. Len(Prompt[r]) \in Nat  BY PromptAssumption
  <2>3. \A i \in new : i \in 1..Len(Prompt[r]) /\ t[i] \in Blocks
    BY <2>1, <2>2
  <2> QED  BY <2>3, PromptAssumption DEF Prefix
<1>4. \A b : (\E i \in new : t[i] = b) => at(b) \in new
  OBVIOUS
<1>5. \A h : LastOf(h) # {} => (CHOOSE i \in LastOf(h) : TRUE) \in new
  OBVIOUS
<1>6. chains \in [Blocks -> Prefixes \cup {None}]
  <2>1. ASSUME NEW b \in Blocks, \E i \in new : t[i] = b
        PROVE  Prefix(r, at(b)) \in Prefixes
    <3> HIDE DEF new, at, t
    <3> QED  BY <1>3, <1>4, <2>1
  <2>2. \A b \in Blocks : pool.chain[b] \in Prefixes \cup {None}
    BY <1>1 DEF Pool
  <2> QED  BY <2>1, <2>2
<1>7. ids \in [Blocks -> Prefixes \cup {None}]
  <2>1. ASSUME NEW b \in Blocks, \E i \in new : t[i] = b
        PROVE  chunk(at(b)) \in Prefixes
    <3> HIDE DEF new, at, t
    <3> QED  BY <1>3, <1>4, <2>1
  <2>2. \A b \in Blocks : pool.id[b] \in Prefixes \cup {None}
    BY <1>1 DEF Pool
  <2> QED  BY <2>1, <2>2
<1>8. maps \in [Prefixes -> SUBSET Blocks]
  <2>1. \A h \in Prefixes : NewAt(h) \subseteq Blocks
    <3> HIDE DEF t, new
    <3> QED  BY <1>3
  <2>2. \A h \in Prefixes : pool.chainMap[h] \subseteq Blocks
    BY <1>1 DEF Pool
  <2> HIDE DEF NewAt
  <2> QED  BY <2>1, <2>2
<1>9. idMaps \in [Prefixes -> Blocks \cup {None}]
  <2>1. ASSUME NEW h \in Prefixes, LastOf(h) # {}
        PROVE  t[CHOOSE i \in LastOf(h) : TRUE] \in Blocks
    <3> HIDE DEF new, LastOf, t
    <3> QED  BY <1>3, <1>5, <2>1
  <2>2. \A h \in Prefixes : pool.idMap[h] \in Blocks \cup {None}
    BY <1>1 DEF Pool
  <2> QED  BY <2>1, <2>2
<1> HIDE DEF chains, maps, ids, idMaps, t, new, at, chunk, NewAt, LastOf
<1>10. /\ pool' \in Pool /\ pool'.free = pool.free /\ pool'.num = pool.num
       /\ pool'.alloc = pool.alloc /\ pool'.ref = pool.ref
  BY <1>1, <1>2, <1>6, <1>7, <1>8, <1>9 DEF Pool
<1>11. AccountsFor(pool', lost')  BY <1>1, <1>2, <1>10 DEF AccountsFor
<1> QED  BY <1>1, <1>2, <1>10, <1>11, PoolStep

(* touch of the computed blocks: a free block has no references, so it is  *)
(* revived, and any other is allocated already.                            *)
LEMMA AdoptComputedStep ==
  ASSUME IInv, NEW r \in Requests, AdoptComputed(r)  PROVE IInv'
<1>1. pool \in Pool /\ AccountsFor(pool, lost) /\ lost \in SUBSET Blocks
  BY DEF IInv, TypeOK, BlocksAccountedFor
<1>2. PICK s \in Computed(r) : /\ pool' = Touch(pool, Elems(s))
                               /\ tables' = [tables EXCEPT ![r] = s]
  BY DEF AdoptComputed
<1>3. s \in Seq(Blocks) /\ Len(s) <= Len(Prompt[r])
  <2>1. Len(Prompt[r]) \in Nat  BY PromptAssumption
  <2>2. PICK n \in 1..Len(Prompt[r]) : s \in [1..n -> Blocks]
    BY DEF Computed
  <2> QED  BY <2>1, <2>2
<1>4. Elems(s) \in SUBSET Blocks  BY <1>3 DEF Elems
<1>5. pool' \in Pool /\ AccountsFor(pool', lost)
  BY <1>1, <1>2, <1>4, TouchKeeps
<1>6. Held(r) = {} /\ Held(r)' = Elems(s)
  <2>1. tables[r] = <<>> /\ tables'[r] = s
    BY <1>2 DEF AdoptComputed, IInv, TypeOK
  <2>2. s # None  BY <1>3, RequestAssumption
  <2>3. DOMAIN <<>> = {}  OBVIOUS
  <2>4. Held(r) = {}  BY <2>1, <2>3, RequestAssumption DEF Held, Elems
  <2>5. Held(r)' = Elems(s)  BY <2>1, <2>2 DEF Held, Elems
  <2> QED  BY <2>4, <2>5
<1>7. ASSUME NEW b \in Blocks \ lost
      PROVE  /\ pool'.ref[b] + Bit(b \in Held(r)) = pool.ref[b] + Bit(b \in Held(r)')
             /\ pool'.ref[b] \in Nat
             /\ (b \in pool'.alloc) <=> (pool'.ref[b] > 0)
  <2>1. /\ pool.ref[b] \in Nat
        /\ (b \in pool.alloc) <=> (pool.ref[b] > 0)
        /\ (b \in pool.free) <=> (pool.ref[b] = 0)
    BY BlockState
  <2>2. /\ pool'.ref[b] = IF b \in Elems(s) THEN pool.ref[b] + 1 ELSE pool.ref[b]
        /\ (b \in pool'.alloc) <=>
             (b \in pool.alloc \/ (b \in Elems(s) \cap pool.free /\ pool.ref[b] = 0))
    BY <1>1, <1>2 DEF Touch, Pool
  <2> QED  BY <1>6, <2>1, <2>2 DEF Bit
<1>8. lost' = lost /\ outcome' \in Outcomes
  BY DEF AdoptComputed, Quiet, Outcomes
<1> QED  BY <1>2, <1>3, <1>5, <1>7, <1>8, TableStep

(* Two requests that list a block hold it twice.                           *)
LEMMA TwoHolders ==
  ASSUME IInv, NEW r \in Requests, NEW q \in Requests, r # q,
         NEW b \in Blocks \ lost, b \in Held(r), b \in Held(q)
  PROVE  pool.ref[b] >= 2
<1>1. IsFiniteSet(Holders(b)) /\ {r, q} \subseteq Holders(b)
  BY RequestAssumption, FS_Subset DEF Holders
<1>2. Cardinality({r, q}) = 2
  <2>1. IsFiniteSet({r}) /\ Cardinality({r}) = 1  BY FS_Singleton
  <2>2. {r, q} = {r} \cup {q}  OBVIOUS
  <2>3. Cardinality({r} \cup {q}) = Cardinality({r}) + 1  BY <2>1, FS_AddElement
  <2> QED  BY <2>1, <2>2, <2>3
<1>3. Cardinality({r, q}) <= Cardinality(Holders(b))
  BY <1>1, FS_Subset
<1> QED  BY <1>2, <1>3, BlockState

(* fork_block_table: the target lets its old blocks go, then every block   *)
(* of the source gains a reference.  The source keeps its blocks allocated *)
(* through the release, even those both tables list.                       *)
LEMMA ForkStep ==
  ASSUME IInv, NEW r \in Requests, NEW q \in Requests, Fork(r, q)  PROVE IInv'
<1> DEFINE p == Release(pool, Held(q))
<1>1. /\ tables[r] # None /\ q # r
      /\ Len(tables[r]) <= Len(Prompt[q])
      /\ pool' = Retain(p, Held(r))
      /\ tables' = [tables EXCEPT ![q] = tables[r]]
      /\ lost' = lost /\ outcome' \in Outcomes
  BY DEF Fork, Quiet, Outcomes
<1>2. tables[r] \in Seq(Blocks)  BY <1>1 DEF IInv, TypeOK
<1>3. /\ p \in Pool /\ AccountsFor(p, lost) /\ lost \in SUBSET Blocks
      /\ \A b \in Blocks \ lost :
           /\ p.ref[b] + Bit(b \in Held(q)) = pool.ref[b]
           /\ p.ref[b] \in Nat
           /\ (b \in p.alloc) <=> (p.ref[b] > 0)
  BY ReleaseHeld DEF IInv, TypeOK
<1> HIDE DEF p
<1>4. pool' \in Pool /\ AccountsFor(pool', lost)
  BY <1>1, <1>3, RetainKeeps
<1>5. Held(q)' = Held(r)
  <2>1. tables'[q] = tables[r]  BY <1>1 DEF IInv, TypeOK
  <2> QED  BY <2>1 DEF Held, Elems
<1>6. ASSUME NEW b \in Blocks \ lost
      PROVE  /\ pool'.ref[b] + Bit(b \in Held(q)) = pool.ref[b] + Bit(b \in Held(q)')
             /\ pool'.ref[b] \in Nat
             /\ (b \in pool'.alloc) <=> (pool'.ref[b] > 0)
  <2>1. /\ p.ref[b] + Bit(b \in Held(q)) = pool.ref[b] /\ p.ref[b] \in Nat
        /\ (b \in p.alloc) <=> (p.ref[b] > 0)
        /\ pool.ref[b] \in Nat
    BY <1>3, BlockState
  <2>2. b \in Held(r) => p.ref[b] > 0
    <3>1. CASE b \in Held(q)  BY <1>1, <2>1, <3>1, TwoHolders DEF Bit
    <3>2. CASE b \notin Held(q)  BY <2>1, <3>2, BlockState DEF Bit
    <3> QED  BY <3>1, <3>2
  <2>3. /\ pool'.ref[b] = IF b \in Held(r) \cap p.alloc THEN p.ref[b] + 1 ELSE p.ref[b]
        /\ pool'.alloc = p.alloc
    BY <1>1, <1>3 DEF Retain, Pool
  <2>4. Bit(b \in Held(q)') = Bit(b \in Held(r))  BY <1>5
  <2>5. Bit(b \in Held(q)) \in {0, 1}  BY DEF Bit
  <2>6. CASE b \in Held(r)
    <3>1. pool'.ref[b] = p.ref[b] + 1  BY <2>1, <2>2, <2>3, <2>6
    <3>2. Bit(b \in Held(r)) = 1  BY <2>6 DEF Bit
    <3> QED  BY <2>1, <2>2, <2>3, <2>4, <2>5, <3>1, <3>2
  <2>7. CASE b \notin Held(r)
    <3>1. pool'.ref[b] = p.ref[b]  BY <2>3, <2>7
    <3>2. Bit(b \in Held(r)) = 0  BY <2>7 DEF Bit
    <3> QED  BY <2>1, <2>3, <2>4, <2>5, <3>1, <3>2
  <2> QED  BY <2>6, <2>7
<1> QED  BY <1>1, <1>2, <1>4, <1>6, TableStep

(* get_blocks_for_generation: each copied block passes one reference on to *)
(* a block nobody held.                                                    *)
LEMMA GenerateStep ==
  ASSUME IInv, NEW r \in Requests, Generate(r)  PROVE IInv'
<1> DEFINE t == tables[r]
<1>1. PICK copied, new :
        /\ copied \in SUBSET {t[i] : i \in Shared(r)}
        /\ new \in [copied -> Victims(pool)]
        /\ pool' = CopyOnWrite(pool, copied, new)
        /\ tables' = [tables EXCEPT ![r] =
             [i \in DOMAIN t |-> IF t[i] \in copied THEN new[t[i]] ELSE t[i]]]
        /\ outcome' \in Outcomes /\ lost' = lost /\ t # None
  <2> DEFINE reached == {i \in Shared(r) :
                 Cardinality({j \in Shared(r) : j < i}) < Cardinality(Victims(pool))}
             copied == {t[i] : i \in reached}
  <2>1. copied \in SUBSET {t[i] : i \in Shared(r)}  OBVIOUS
  <2>2. PICK new \in [copied -> Victims(pool)] :
          /\ pool' = CopyOnWrite(pool, copied, new)
          /\ tables' = [tables EXCEPT ![r] =
               [i \in DOMAIN @ |-> IF @[i] \in copied THEN new[@[i]] ELSE @[i]]]
          /\ outcome' = IF reached # Shared(r) /\ pool'.num > 0
                        THEN "raised" ELSE "ok"
    BY DEF Generate
  <2>3. outcome' \in Outcomes /\ lost' = lost /\ t # None
    BY <2>2 DEF Generate, Outcomes
  <2> QED  BY <2>1, <2>2, <2>3
<1> DEFINE u == [i \in DOMAIN t |-> IF t[i] \in copied THEN new[t[i]] ELSE t[i]]
           N == {new[b] : b \in copied}
           c == Claim(pool, N)
           refs == [b \in Blocks |-> IF b \in copied THEN c.ref[b] - 1 ELSE c.ref[b]]
           kvs == [b \in Blocks |->
                     IF \E d \in copied : new[d] = b
                     THEN pool.kv[CHOOSE d \in copied : new[d] = b] ELSE c.kv[b]]
<1>2. pool \in Pool /\ AccountsFor(pool, lost) /\ lost \in SUBSET Blocks
  BY DEF IInv, TypeOK, BlocksAccountedFor
<1>3. t \in Seq(Blocks) /\ Len(t) <= Len(Prompt[r])  BY <1>1 DEF IInv, TypeOK
<1>4. \A b \in copied : /\ b \in pool.alloc /\ pool.ref[b] > 1 /\ b \in Held(r)
                        /\ b \in Blocks /\ b \notin lost
  <2>1. \A b \in copied : b \in pool.alloc /\ pool.ref[b] > 1 /\ b \in Held(r)
    BY <1>1 DEF Shared, Held, Elems
  <2> QED  BY <1>2, <2>1 DEF Pool, AccountsFor
<1>5. N \in SUBSET Victims(pool)  BY <1>1
<1>6. /\ c \in Pool /\ AccountsFor(c, lost)
      /\ \A b \in N : b \in Blocks /\ b \notin Held(r)
      /\ \A b \in Blocks \ lost :
           /\ c.ref[b] = pool.ref[b] + Bit(b \in N)
           /\ c.ref[b] \in Nat
           /\ (b \in c.alloc) <=> (c.ref[b] > 0)
  BY <1>5, ClaimFree
<1>7. pool' = [c EXCEPT !.ref = refs, !.kv = kvs]
  BY <1>1, <1>6 DEF CopyOnWrite, Pool
<1>8. \A b \in copied : c.ref[b] = pool.ref[b] /\ b \notin N
  <2>1. \A b \in copied : b \notin N  BY <1>4, <1>6
  <2> QED  BY <2>1, <1>4, <1>6, BlockState DEF Bit
<1>9. u \in Seq(Blocks) /\ Len(u) = Len(t) /\ u # None
  <2>1. \A i \in DOMAIN t : u[i] \in Blocks  BY <1>3, <1>6
  <2>5. DOMAIN t = 1..Len(t)  BY <1>3
  <2>2. u \in [1..Len(t) -> Blocks]  BY <2>1, <2>5
  <2>3. Len(t) \in Nat  BY <1>3
  <2>4. u \in Seq(Blocks) /\ Len(u) = Len(t)
    <3> HIDE DEF u, t
    <3> QED  BY <2>2, <2>3
  <2> QED  BY <2>4, RequestAssumption
<1>10. Held(r)' = (Held(r) \ copied) \cup N
  <2>1. tables'[r] = u  BY <1>1 DEF IInv, TypeOK
  <2>2. Held(r)' = {u[i] : i \in DOMAIN t}  BY <2>1, <1>9 DEF Held, Elems
  <2>3. Held(r) = {t[i] : i \in DOMAIN t}  BY <1>1 DEF Held, Elems
  <2>4. \A i \in DOMAIN t : u[i] \in (Held(r) \ copied) \cup N
    BY <2>3
  <2>5. \A b \in Held(r) \ copied : \E i \in DOMAIN t : u[i] = b
    BY <2>3
  <2>6. \A d \in copied : \E i \in DOMAIN t : u[i] = new[d]
    <3>1. \A d \in copied : \E i \in DOMAIN t : t[i] = d  BY <1>4, <2>3
    <3> QED  BY <3>1
  <2> HIDE DEF u, t
  <2> QED  BY <2>2, <2>4, <2>5, <2>6
<1>11. refs \in [Blocks -> Nat]
  <2> SUFFICES ASSUME NEW b \in Blocks  PROVE refs[b] \in Nat
    OBVIOUS
  <2>1. c.ref[b] \in Nat  BY <1>6 DEF Pool
  <2>2. b \in copied => c.ref[b] > 1  BY <1>4, <1>8
  <2> QED  BY <2>1, <2>2
<1>12. kvs \in [Blocks -> Prefixes \cup {None}]
  <2> SUFFICES ASSUME NEW b \in Blocks  PROVE kvs[b] \in Prefixes \cup {None}
    OBVIOUS
  <2>1. CASE \E d \in copied : new[d] = b
    <3>1. (CHOOSE d \in copied : new[d] = b) \in Blocks  BY <2>1, <1>4
    <3> QED  BY <2>1, <3>1, <1>2 DEF Pool
  <2>2. CASE ~ \E d \in copied : new[d] = b
    BY <2>2, <1>6 DEF Pool
  <2> QED  BY <2>1, <2>2
<1> HIDE DEF u, N, c, refs, kvs, t
<1>13. /\ pool' \in Pool /\ pool'.free = c.free /\ pool'.num = c.num
       /\ pool'.alloc = c.alloc /\ pool'.ref = refs
  BY <1>6, <1>7, <1>11, <1>12 DEF Pool
<1>14. AccountsFor(pool', lost)  BY <1>6, <1>13 DEF AccountsFor
<1>15. ASSUME NEW b \in Blocks \ lost
       PROVE  /\ pool'.ref[b] + Bit(b \in Held(r)) = pool.ref[b] + Bit(b \in Held(r)')
              /\ pool'.ref[b] \in Nat
              /\ (b \in pool'.alloc) <=> (pool'.ref[b] > 0)
  <2>1. /\ c.ref[b] = pool.ref[b] + Bit(b \in N) /\ pool.ref[b] \in Nat
        /\ (b \in c.alloc) <=> (c.ref[b] > 0)
    BY <1>6, BlockState
  <2>2. pool'.ref[b] = IF b \in copied THEN c.ref[b] - 1 ELSE c.ref[b]
    BY <1>13 DEF refs
  <2>3. CASE b \in copied
    <3>1. /\ b \notin N /\ b \in Held(r) /\ b \notin Held(r)'
          /\ pool.ref[b] > 1 /\ c.ref[b] = pool.ref[b]
      BY <2>3, <1>4, <1>8, <1>10
    <3>2. Bit(b \in Held(r)) = 1 /\ Bit(b \in Held(r)') = 0  BY <3>1 DEF Bit
    <3> QED  BY <2>1, <2>2, <2>3, <3>1, <3>2, <1>13
  <2>4. CASE b \in N
    <3>1. b \notin copied /\ b \notin Held(r) /\ b \in Held(r)'
      BY <2>4, <1>6, <1>8, <1>10
    <3>2. Bit(b \in Held(r)) = 0 /\ Bit(b \in Held(r)') = 1 /\ Bit(b \in N) = 1
      BY <2>4, <3>1 DEF Bit
    <3> QED  BY <2>1, <2>2, <3>1, <3>2, <1>13
  <2>5. CASE b \notin N /\ b \notin copied
    <3>1. Bit(b \in Held(r)) = Bit(b \in Held(r)') /\ Bit(b \in N) = 0
      BY <2>5, <1>10 DEF Bit
    <3>2. Bit(b \in Held(r)) \in {0, 1}  BY DEF Bit
    <3> QED  BY <2>1, <2>2, <2>5, <3>1, <3>2, <1>13
  <2> QED  BY <2>3, <2>4, <2>5
<1>16. tables' = [tables EXCEPT ![r] = u]  BY <1>1 DEF u, t
<1>17. Len(u) <= Len(Prompt[r])  BY <1>3, <1>9
<1> QED  BY <1>1, <1>9, <1>13, <1>14, <1>15, <1>16, <1>17, TableStep

(* Eviction, pressure release, pins and the reset of an idle cache change  *)
(* neither a block's place nor its references.                             *)
LEMMA PlacesKept ==
  ASSUME IInv, UNCHANGED tables, Quiet, pool' \in Pool,
         pool'.free = pool.free, pool'.num = pool.num,
         pool'.alloc = pool.alloc, pool'.ref = pool.ref
  PROVE  IInv'
<1>1. lost' = lost /\ lost \in SUBSET Blocks /\ outcome' \in Outcomes
  BY DEF Quiet, Outcomes, IInv, TypeOK
<1>2. AccountsFor(pool', lost')
  BY <1>1 DEF IInv, BlocksAccountedFor, AccountsFor
<1> QED  BY <1>1, <1>2, PoolStep

LEMMA HousekeepingStep ==
  ASSUME IInv,
         \/ \E n \in 1..Cardinality(Blocks) : EvictLru(n) \/ ReleasePressure(n - 1)
         \/ \E S \in SUBSET Pinnable : Pin(S) \/ Unpin(S)
         \/ ResetPrefixCache
  PROVE  IInv'
<1>1. pool \in Pool  BY DEF IInv, TypeOK
<1>2. ASSUME NEW n, EvictLru(n)  PROVE IInv'
  <2>1. PICK S : pool' = ForgetAll(pool, S)
    BY <1>2 DEF EvictLru, EvictCached
  <2> QED  BY <1>1, <1>2, <2>1, ForgetKeeps, PlacesKept DEF EvictLru
<1>3. ASSUME NEW n, ReleasePressure(n)  PROVE IInv'
  BY <1>1, <1>3, ForgetKeeps, PlacesKept DEF ReleasePressure
<1>4. ASSUME NEW S, Pin(S)  PROVE IInv'
  <2>1. pool' = [pool EXCEPT !.pinned = pool.pinned \cup (S \cap pool.alloc)]
    BY <1>1, <1>4 DEF Pin, Pool
  <2>2. pool.pinned \cup (S \cap pool.alloc) \in SUBSET Blocks  BY <1>1 DEF Pool
  <2>3. /\ pool' \in Pool /\ pool'.free = pool.free /\ pool'.num = pool.num
        /\ pool'.alloc = pool.alloc /\ pool'.ref = pool.ref
    BY <1>1, <2>1, <2>2 DEF Pool
  <2> QED  BY <1>4, <2>3, PlacesKept DEF Pin
<1>5. ASSUME NEW S, Unpin(S)  PROVE IInv'
  <2>1. pool' = [pool EXCEPT !.pinned = pool.pinned \ S]
    BY <1>1, <1>5 DEF Unpin, Pool
  <2>2. pool.pinned \ S \in SUBSET Blocks  BY <1>1 DEF Pool
  <2>3. /\ pool' \in Pool /\ pool'.free = pool.free /\ pool'.num = pool.num
        /\ pool'.alloc = pool.alloc /\ pool'.ref = pool.ref
    BY <1>1, <2>1, <2>2 DEF Pool
  <2> QED  BY <1>5, <2>3, PlacesKept DEF Unpin
<1>6. ASSUME ResetPrefixCache  PROVE IInv'
  <2>1. /\ pool' \in Pool /\ pool'.free = pool.free /\ pool'.num = pool.num
        /\ pool'.alloc = pool.alloc /\ pool'.ref = pool.ref
    BY <1>1, <1>6 DEF ResetPrefixCache, Pool
  <2> QED  BY <1>6, <2>1, PlacesKept DEF ResetPrefixCache
<1> QED  BY <1>2, <1>3, <1>4, <1>5, <1>6

LEMMA ClearStep ==
  ASSUME IInv, Clear  PROVE IInv'
<1>1. IsFiniteSet(Blocks) /\ Cardinality(Blocks) \in Nat /\ Cardinality({}) = 0
  BY PoolAssumption, FS_CardinalityType, FS_EmptySet
<1>2. EmptyPool \in Pool  BY <1>1 DEF EmptyPool, Pool
<1>3. TypeOK'  BY <1>2 DEF Clear, TypeOK, Outcomes
<1>4. BlocksAccountedFor'
  BY <1>1 DEF Clear, EmptyPool, BlocksAccountedFor, AccountsFor
<1>5. \A b \in Blocks : Holders(b)' = {}  BY DEF Clear, Holders, Held
<1>6. RefsAreHolders'  BY <1>1, <1>5 DEF Clear, EmptyPool, RefsAreHolders
<1> QED  BY <1>3, <1>4, <1>6 DEF IInv

(* The inductive step: one case per operation of the manager.              *)
LEMMA NextPreserves == IInv /\ [Next]_vars => IInv'
<1> SUFFICES ASSUME IInv, [Next]_vars  PROVE IInv'
  OBVIOUS
<1>1. ASSUME NEW r \in Requests,
             \/ CreateTable(r) \/ DeleteTable(r) \/ AllocateBlock(r)
             \/ CacheFullBlocks(r) \/ AdoptComputed(r) \/ Generate(r)
             \/ \E n \in 1..Cardinality(Blocks) : GetNewBlocks(r, n)
             \/ \E q \in Requests : Fork(r, q)
      PROVE  IInv'
  <2>1. CASE CreateTable(r)  BY <2>1, ReleaseTable DEF CreateTable
  <2>2. CASE DeleteTable(r)  BY <2>2, ReleaseTable DEF DeleteTable
  <2>3. CASE AllocateBlock(r)  BY <2>3, AllocateBlockStep
  <2>4. CASE CacheFullBlocks(r)  BY <2>4, CacheFullBlocksStep
  <2>5. CASE AdoptComputed(r)  BY <2>5, AdoptComputedStep
  <2>6. CASE Generate(r)  BY <2>6, GenerateStep
  <2>7. ASSUME NEW n \in 1..Cardinality(Blocks), GetNewBlocks(r, n)  PROVE IInv'
    BY <2>7, GetNewBlocksStep
  <2>8. ASSUME NEW q \in Requests, Fork(r, q)  PROVE IInv'
    BY <2>8, ForkStep
  <2> QED  BY <1>1, <2>1, <2>2, <2>3, <2>4, <2>5, <2>6, <2>7, <2>8
<1>2. CASE \/ \E n \in 1..Cardinality(Blocks) : EvictLru(n) \/ ReleasePressure(n - 1)
           \/ \E S \in SUBSET Pinnable : Pin(S) \/ Unpin(S)
           \/ ResetPrefixCache
  BY <1>2, HousekeepingStep
<1>3. CASE Clear  BY <1>3, ClearStep
<1>4. CASE UNCHANGED vars
  BY <1>4 DEF vars, IInv, TypeOK, BlocksAccountedFor, RefsAreHolders, Holders, Held
<1> QED  BY <1>1, <1>2, <1>3, <1>4 DEF Next

(* In every run the pool, the tables and the outcomes stay well typed; in  *)
(* particular num_free_blocks never becomes negative.                      *)
THEOREM TypeCorrect == Spec => []TypeOK
<1>1. IInv => TypeOK  BY DEF IInv
<1> QED  BY <1>1, InitHolds, NextPreserves, PTL DEF Spec

(* In every run each block is queued, allocated or lost, and the counter   *)
(* of free blocks counts the queued and the lost ones.                     *)
THEOREM Accounting == Spec => []BlocksAccountedFor
<1>1. IInv => BlocksAccountedFor  BY DEF IInv
<1> QED  BY <1>1, InitHolds, NextPreserves, PTL DEF Spec

(* In every run the reference count of a block that is not lost is the     *)
(* number of block tables that list it.                                    *)
THEOREM RefCounts == Spec => []RefsAreHolders
<1>1. IInv => RefsAreHolders  BY DEF IInv
<1> QED  BY <1>1, InitHolds, NextPreserves, PTL DEF Spec

-----------------------------------------------------------------------------
(* The KV of the blocks.                                                   *)
TablesHoldPrompts ==
  \A r \in Requests : tables[r] # None =>
    \A i \in DOMAIN tables[r] : tables[r][i] \notin lost =>
      pool.kv[tables[r][i]] = Prefix(r, i)

KvInv == IInv /\ ChainHitsAreSound /\ TablesHoldPrompts

(* From the pool to q only blocks of S lose or change their KV: blocks a   *)
(* pop may return, which q's chain map no longer names.                    *)
Local(q, S) ==
  /\ S \subseteq Victims(pool)
  /\ \A b \in Blocks \ S : q.kv[b] = pool.kv[b] /\ q.chain[b] = pool.chain[b]
  /\ \A h \in Prefixes : q.chainMap[h] \subseteq pool.chainMap[h] \ S

LEMMA Typed ==
  ASSUME IInv
  PROVE  /\ pool \in Pool /\ lost \subseteq Blocks /\ Victims(pool) \subseteq Blocks
         /\ Victims(pool) \cap lost = {} /\ Victims(pool) \cap pool.pinned = {}
         /\ \A r \in Requests : Held(r) \subseteq Blocks
BY DEF IInv, TypeOK, Pool, Victims, BlocksAccountedFor, AccountsFor, Held, Elems

(* A victim that is not lost is listed by no table.                        *)
LEMMA VictimsAreNotHeld ==
  ASSUME IInv, NEW b \in Victims(pool), NEW r \in Requests
  PROVE  b \notin Held(r)
<1>1. b \in Blocks /\ b \notin lost /\ b \in pool.free
  BY Typed DEF Victims
<1> QED  BY <1>1, BlockState

LEMMA LocalSound ==
  ASSUME KvInv, NEW S, Local(pool', S), lost \subseteq lost'
  PROVE  ChainHitsAreSound'
<1> SUFFICES ASSUME NEW h \in Prefixes, NEW b \in pool'.chainMap[h] \ lost'
             PROVE  pool'.chain[b] = h /\ pool'.kv[b] = h
  BY DEF ChainHitsAreSound
<1>1. b \in pool.chainMap[h] /\ b \notin S  BY DEF Local
<1>2. b \in Blocks  BY <1>1, Typed DEF KvInv, Pool
<1>3. pool.chain[b] = h /\ pool.kv[b] = h  BY <1>1 DEF KvInv, ChainHitsAreSound
<1> QED  BY <1>1, <1>2, <1>3 DEF Local

(* What tables list and pins protect keeps its KV through a local change.  *)
LEMMA LocalKeeps ==
  ASSUME IInv, NEW S, Local(pool', S)
  PROVE  /\ \A r \in Requests : \A b \in Held(r) : pool'.kv[b] = pool.kv[b]
         /\ \A b \in pool.pinned : pool'.kv[b] = pool.kv[b]
<1>1. pool.pinned \subseteq Blocks  BY Typed DEF Pool
<1>2. \A b \in pool.pinned : b \notin S  BY Typed DEF Local
<1>3. \A r \in Requests : \A b \in Held(r) : b \in Blocks /\ b \notin S
  BY Typed, VictimsAreNotHeld DEF Local
<1> QED  BY <1>1, <1>2, <1>3 DEF Local

LEMMA ListedAreHeld ==
  ASSUME NEW r \in Requests, tables[r] # None, NEW i \in DOMAIN tables[r]
  PROVE  tables[r][i] \in Held(r)
BY DEF Held, Elems

(* A local change under the same tables.                                   *)
LEMMA LocalTables ==
  ASSUME KvInv, NEW S, Local(pool', S), UNCHANGED tables, lost \subseteq lost'
  PROVE  TablesHoldPrompts'
<1> SUFFICES ASSUME NEW r \in Requests, tables[r] # None,
                    NEW i \in DOMAIN tables[r], tables[r][i] \notin lost'
             PROVE  pool'.kv[tables[r][i]] = Prefix(r, i)
  BY DEF TablesHoldPrompts, Prefix
<1>1. pool.kv[tables[r][i]] = Prefix(r, i)  BY DEF KvInv, TablesHoldPrompts
<1>2. pool'.kv[tables[r][i]] = pool.kv[tables[r][i]]
  BY ListedAreHeld, LocalKeeps DEF KvInv
<1> QED  BY <1>1, <1>2

(* A local change and a new table for r that holds r's prompt.             *)
LEMMA LocalTable ==
  ASSUME KvInv, NEW S, Local(pool', S), lost' = lost,
         NEW r \in Requests, NEW t, tables' = [tables EXCEPT ![r] = t],
         t # None => \A i \in DOMAIN t : t[i] \notin lost => pool'.kv[t[i]] = Prefix(r, i)
  PROVE  TablesHoldPrompts'
<1> SUFFICES ASSUME NEW q \in Requests, tables'[q] # None,
                    NEW i \in DOMAIN tables'[q], tables'[q][i] \notin lost
             PROVE  pool'.kv[tables'[q][i]] = Prefix(q, i)
  BY DEF TablesHoldPrompts, Prefix
<1>1. CASE q = r
  <2>1. tables'[q] = t  BY <1>1 DEF KvInv, IInv, TypeOK
  <2> QED  BY <1>1, <2>1
<1>2. CASE q # r
  <2>1. tables'[q] = tables[q]  BY <1>2 DEF KvInv, IInv, TypeOK
  <2>2. pool.kv[tables[q][i]] = Prefix(q, i)
    BY <2>1 DEF KvInv, TablesHoldPrompts
  <2>3. pool'.kv[tables[q][i]] = pool.kv[tables[q][i]]
    BY <2>1, ListedAreHeld, LocalKeeps DEF KvInv
  <2> QED  BY <2>1, <2>2, <2>3
<1> QED  BY <1>1, <1>2

-----------------------------------------------------------------------------
(* The primitives are local.                                               *)

LEMMA SameIsLocal ==
  ASSUME NEW q, q.kv = pool.kv, q.chain = pool.chain, q.chainMap = pool.chainMap
  PROVE  Local(q, {})
BY DEF Local

LEMMA ForgetIsLocal ==
  ASSUME KvInv, NEW S \in SUBSET Victims(pool)
  PROVE  Local(ForgetAll(pool, S), S)
<1> DEFINE q == ForgetAll(pool, S)
<1>1. /\ q.kv = [b \in Blocks |-> IF b \in S THEN None ELSE pool.kv[b]]
      /\ q.chain = [b \in Blocks |-> IF b \in S THEN None ELSE pool.chain[b]]
      /\ q.chainMap = [h \in Prefixes |->
                         pool.chainMap[h] \ {b \in S : pool.chain[b] = h}]
  BY Typed DEF KvInv, ForgetAll, Pool
<1>2. \A h \in Prefixes : \A b \in pool.chainMap[h] \cap S : pool.chain[b] = h
  BY Typed DEF KvInv, ChainHitsAreSound
<1> QED  BY <1>1, <1>2 DEF Local

(* A block without hashes, or one the chain map has lost, is passed over:  *)
(* the map does not name it.                                               *)
LEMMA EvictIsLocal ==
  ASSUME KvInv, NEW S \in SUBSET Victims(pool)
  PROVE  Local(EvictCached(pool, S), S)
<1> DEFINE E == {b \in S : Evictable(pool, b)}
<1>1. Local(EvictCached(pool, S), E)
  BY ForgetIsLocal DEF EvictCached
<1>2. \A h \in Prefixes : \A b \in pool.chainMap[h] \cap S : Evictable(pool, b)
  <2> TAKE h \in Prefixes
  <2> TAKE b \in pool.chainMap[h] \cap S
  <2>1. b \notin lost /\ b \notin pool.pinned  BY Typed DEF KvInv
  <2>2. pool.chain[b] = h  BY <2>1 DEF KvInv, ChainHitsAreSound
  <2>3. h # None  BY PoolAssumption
  <2> QED  BY <2>1, <2>2, <2>3 DEF Evictable
<1>3. S \subseteq Victims(pool) /\ E \subseteq S  OBVIOUS
<1>4. \A h \in Prefixes : EvictCached(pool, S).chainMap[h] \subseteq pool.chainMap[h] \ S
  BY <1>1, <1>2 DEF Local
<1> QED  BY <1>1, <1>3, <1>4 DEF Local

LEMMA ClaimIsLocal ==
  ASSUME KvInv, NEW S \in SUBSET Victims(pool)
  PROVE  Local(Claim(pool, S), S)
<1>1. EvictCached(pool, S) \in Pool
  BY ForgetKeeps, Typed DEF EvictCached, KvInv
<1>2. /\ Claim(pool, S).kv = EvictCached(pool, S).kv
      /\ Claim(pool, S).chain = EvictCached(pool, S).chain
      /\ Claim(pool, S).chainMap = EvictCached(pool, S).chainMap
  BY <1>1 DEF Claim, Pool
<1> QED  BY <1>2, EvictIsLocal DEF Local

(* Other KV may be written to what was claimed.                            *)
LEMMA WriteIsLocal ==
  ASSUME NEW p \in Pool, NEW q, NEW S, Local(p, S),
         q.chain = p.chain, q.chainMap = p.chainMap,
         \A b \in Blocks \ S : q.kv[b] = p.kv[b]
  PROVE  Local(q, S)
BY DEF Local
-----------------------------------------------------------------------------
(* The operations.                                                         *)

LEMMA KvInit == Init => KvInv
<1> SUFFICES ASSUME Init  PROVE KvInv
  OBVIOUS
<1>1. ChainHitsAreSound  BY DEF Init, EmptyPool, ChainHitsAreSound
<1>2. TablesHoldPrompts  BY DEF Init, TablesHoldPrompts
<1> QED  BY <1>1, <1>2, InitHolds DEF KvInv

(* create_block_table and delete_block_table leave a table without blocks. *)
LEMMA ReleaseIsLocal ==
  ASSUME KvInv, NEW r \in Requests, CreateTable(r) \/ DeleteTable(r)
  PROVE  Local(pool', {}) /\ ChainHitsAreSound' /\ TablesHoldPrompts'
<1>1. Local(pool', {})
  BY Typed, SameIsLocal DEF CreateTable, DeleteTable, Release, Pool, KvInv
<1>2. lost' = lost  BY DEF CreateTable, DeleteTable, Quiet
<1>3. PICK t \in {<<>>, None} : tables' = [tables EXCEPT ![r] = t]
  BY DEF CreateTable, DeleteTable
<1>4. t # None => DOMAIN t = {}  OBVIOUS
<1> QED  BY <1>1, <1>2, <1>3, <1>4, LocalSound, LocalTable

LEMMA GrowIsLocal ==
  ASSUME KvInv, NEW r \in Requests, tables[r] # None, NEW s \in Seq(Blocks),
         \A i, j \in DOMAIN s : s[i] = s[j] => i = j,
         Elems(s) \subseteq Victims(pool),
         pool' = Grown(Claim(pool, Elems(s)), r, s),
         tables' = [tables EXCEPT ![r] = tables[r] \o s],
         lost' = lost
  PROVE  Local(pool', Elems(s)) /\ ChainHitsAreSound' /\ TablesHoldPrompts'
<1> DEFINE c == Claim(pool, Elems(s))
           t == tables[r] \o s
           at(b) == CHOOSE i \in DOMAIN s : s[i] = b
<1>1. Local(c, Elems(s)) /\ c \in Pool
  BY ClaimIsLocal, ClaimFree DEF KvInv
<1>2. /\ pool'.chain = c.chain /\ pool'.chainMap = c.chainMap
      /\ pool'.kv = [b \in Blocks |-> IF b \in Elems(s)
                        THEN Prefix(r, Len(tables[r]) + at(b)) ELSE c.kv[b]]
  BY <1>1 DEF Grown, Pool
<1>3. Local(pool', Elems(s))
  BY <1>1, <1>2, WriteIsLocal
<1>4. ChainHitsAreSound'  BY <1>3, LocalSound
<1>5. tables[r] \in Seq(Blocks)  BY DEF KvInv, IInv, TypeOK
<1>6. ASSUME NEW i \in DOMAIN t, t[i] \notin lost
      PROVE  pool'.kv[t[i]] = Prefix(r, i)
  <2>1. CASE i \in DOMAIN tables[r]
    <3>1. t[i] = tables[r][i]  BY <1>5, <2>1
    <3>2. pool.kv[t[i]] = Prefix(r, i)
      BY <1>6, <2>1, <3>1 DEF KvInv, TablesHoldPrompts
    <3>3. t[i] \in Held(r)  BY <2>1, <3>1, ListedAreHeld
    <3> QED  BY <1>3, <3>2, <3>3, LocalKeeps DEF KvInv
  <2>2. CASE i \notin DOMAIN tables[r]
    <3>1. PICK j \in DOMAIN s : i = Len(tables[r]) + j /\ t[i] = s[j]
      <4>1. i \in 1..(Len(tables[r]) + Len(s)) /\ i \notin 1..Len(tables[r])
        BY <1>5, <2>2
      <4>2. Len(tables[r]) \in Nat /\ Len(s) \in Nat  BY <1>5
      <4>3. i - Len(tables[r]) \in 1..Len(s)  BY <4>1, <4>2
      <4>4. t[i] = s[i - Len(tables[r])]  BY <1>5, <4>1, <4>2
      <4> QED  BY <4>2, <4>3, <4>4
    <3>2. at(s[j]) = j  OBVIOUS
    <3>3. s[j] \in Blocks /\ s[j] \in Elems(s)  BY DEF Elems
    <3> QED  BY <1>2, <3>1, <3>2, <3>3
  <2> QED  BY <2>1, <2>2
<1>7. TablesHoldPrompts'  BY <1>3, <1>6, LocalTable
<1> QED  BY <1>3, <1>4, <1>7

LEMMA AllocateIsLocal ==
  ASSUME KvInv, NEW r \in Requests, AllocateBlock(r)
  PROVE  (\E S : Local(pool', S)) /\ ChainHitsAreSound' /\ TablesHoldPrompts'
<1>1. CASE UNCHANGED <<pool, tables>>
  <2>1. Local(pool', {}) /\ lost' = lost
    BY <1>1, SameIsLocal DEF AllocateBlock
  <2> QED  BY <1>1, <2>1, LocalSound, LocalTables
<1>2. ASSUME NEW b \in Victims(pool),
             pool' = Grown(Claim(pool, {b}), r, <<b>>),
             tables' = [tables EXCEPT ![r] = Append(@, b)]
      PROVE  (\E S : Local(pool', S)) /\ ChainHitsAreSound' /\ TablesHoldPrompts'
  <2>1. b \in Blocks  BY Typed DEF KvInv
  <2>2. tables[r] \in Seq(Blocks) /\ tables[r] # None
    BY DEF AllocateBlock, KvInv, IInv, TypeOK
  <2>3. /\ <<b>> \in Seq(Blocks) /\ Elems(<<b>>) = {b}
        /\ \A i, j \in DOMAIN <<b>> : i = j
    BY <2>1 DEF Elems
  <2>4. tables' = [tables EXCEPT ![r] = tables[r] \o <<b>>]
    <3>1. Append(tables[r], b) = tables[r] \o <<b>>  BY <2>1, <2>2
    <3> QED  BY <1>2, <3>1
  <2>5. pool' = Grown(Claim(pool, Elems(<<b>>)), r, <<b>>)  BY <1>2, <2>3
  <2>6. lost' = lost  BY DEF AllocateBlock
  <2> QED  BY <2>2, <2>3, <2>4, <2>5, <2>6, GrowIsLocal
<1> QED  BY <1>1, <1>2 DEF AllocateBlock

LEMMA GetNewIsLocal ==
  ASSUME KvInv, NEW r \in Requests, NEW n \in Nat, GetNewBlocks(r, n)
  PROVE  (\E S : Local(pool', S)) /\ ChainHitsAreSound' /\ TablesHoldPrompts'
<1>1. CASE UNCHANGED <<pool, tables, lost>>
  <2>1. Local(pool', {})  BY <1>1, SameIsLocal
  <2> QED  BY <1>1, <2>1, LocalSound, LocalTables
<1>2. CASE /\ pool' = [pool EXCEPT !.free = @ \ Victims(pool)]
           /\ lost' = lost \cup Victims(pool) /\ UNCHANGED tables
  <2>1. Local(pool', {})  BY <1>2, Typed, SameIsLocal DEF Pool, KvInv
  <2> QED  BY <1>2, <2>1, LocalSound, LocalTables
<1>3. ASSUME NEW s \in [1..n -> Victims(pool)],
             \A i, j \in 1..n : s[i] = s[j] => i = j,
             pool' = Grown(Claim(pool, Elems(s)), r, s),
             tables' = [tables EXCEPT ![r] = @ \o s], lost' = lost
      PROVE  (\E S : Local(pool', S)) /\ ChainHitsAreSound' /\ TablesHoldPrompts'
  <2>1. s \in Seq(Blocks) /\ DOMAIN s = 1..n  BY Typed DEF KvInv
  <2>2. Elems(s) \subseteq Victims(pool)  BY DEF Elems
  <2>3. tables[r] # None /\ tables' = [tables EXCEPT ![r] = tables[r] \o s]
    BY <1>3 DEF GetNewBlocks
  <2> QED  BY <1>3, <2>1, <2>2, <2>3, GrowIsLocal
<1> QED  BY <1>1, <1>2, <1>3 DEF GetNewBlocks

(* touch of the blocks the chain map names for the prompt.                 *)
LEMMA AdoptIsLocal ==
  ASSUME KvInv, NEW r \in Requests, AdoptComputed(r)
  PROVE  Local(pool', {}) /\ ChainHitsAreSound' /\ TablesHoldPrompts'
<1>1. PICK s \in Computed(r) : /\ pool' = Touch(pool, Elems(s))
                               /\ tables' = [tables EXCEPT ![r] = s]
  BY DEF AdoptComputed
<1>2. /\ pool'.kv = pool.kv /\ pool'.chain = pool.chain
      /\ pool'.chainMap = pool.chainMap
  BY <1>1, Typed DEF Touch, Pool, KvInv
<1>3. Local(pool', {}) /\ lost' = lost
  BY <1>2, SameIsLocal DEF AdoptComputed, Quiet
<1>4. ASSUME NEW i \in DOMAIN s, s[i] \notin lost
      PROVE  pool'.kv[s[i]] = Prefix(r, i)
  <2>1. s[i] \in pool.chainMap[Prefix(r, i)]  BY DEF Computed
  <2>2. Prefix(r, i) \in Prefixes
    <3>1. Len(Prompt[r]) \in Nat  BY PromptAssumption
    <3>2. PICK n \in 1..Len(Prompt[r]) : s \in [1..n -> Blocks]
      BY DEF Computed
    <3>3. i \in 1..Len(Prompt[r])  BY <3>1, <3>2
    <3> QED  BY <3>3, PromptAssumption DEF Prefix
  <2> QED  BY <1>2, <1>4, <2>1, <2>2 DEF KvInv, ChainHitsAreSound
<1> QED  BY <1>1, <1>3, <1>4, LocalSound, LocalTable

(* fork_block_table: the prompts agree as far as the table goes.           *)
LEMMA ForkIsLocal ==
  ASSUME KvInv, NEW r \in Requests, NEW q \in Requests, Fork(r, q)
  PROVE  Local(pool', {}) /\ ChainHitsAreSound' /\ TablesHoldPrompts'
<1> DEFINE p == Release(pool, Held(q))
           t == tables[r]
<1>1. /\ t # None /\ Len(t) <= Len(Prompt[q])
      /\ Prefix(q, Len(t)) = Prefix(r, Len(t))
      /\ pool' = Retain(p, Held(r))
      /\ tables' = [tables EXCEPT ![q] = t] /\ lost' = lost
  BY DEF Fork, Quiet
<1>2. p \in Pool  BY ReleaseHeld DEF KvInv
<1>3. p.kv = pool.kv /\ p.chain = pool.chain /\ p.chainMap = pool.chainMap
  BY Typed DEF Release, Pool, KvInv
<1>4. /\ pool'.kv = p.kv /\ pool'.chain = p.chain /\ pool'.chainMap = p.chainMap
  BY <1>1, <1>2 DEF Retain, Pool
<1>5. Local(pool', {})  BY <1>3, <1>4, SameIsLocal
<1>6. t \in Seq(Blocks) /\ Len(t) <= Len(Prompt[r])
  BY <1>1 DEF KvInv, IInv, TypeOK
<1>7. ASSUME NEW i \in DOMAIN t  PROVE Prefix(q, i) = Prefix(r, i)
  <2>1. i \in 1..Len(t) /\ Len(t) \in Nat  BY <1>6
  <2>2. Prompt[q] \in Seq(Chunks) /\ Prompt[r] \in Seq(Chunks)
    BY PromptAssumption
  <2>3. /\ SubSeq(Prompt[q], 1, Len(t)) = [j \in 1..Len(t) |-> Prompt[q][j]]
        /\ SubSeq(Prompt[r], 1, Len(t)) = [j \in 1..Len(t) |-> Prompt[r][j]]
    BY <1>1, <1>6, <2>1, <2>2
  <2>4. \A j \in 1..Len(t) : Prompt[q][j] = Prompt[r][j]
    BY <1>1, <2>3 DEF Prefix
  <2>5. /\ SubSeq(Prompt[q], 1, i) = [j \in 1..i |-> Prompt[q][j]]
        /\ SubSeq(Prompt[r], 1, i) = [j \in 1..i |-> Prompt[r][j]]
    BY <1>1, <1>6, <2>1, <2>2
  <2>6. \A j \in 1..i : Prompt[q][j] = Prompt[r][j]  BY <2>1, <2>4
  <2> QED  BY <2>5, <2>6 DEF Prefix
<1>8. ASSUME NEW i \in DOMAIN t, t[i] \notin lost
      PROVE  pool'.kv[t[i]] = Prefix(q, i)
  <2>1. pool.kv[t[i]] = Prefix(r, i)
    BY <1>1, <1>8 DEF KvInv, TablesHoldPrompts
  <2> QED  BY <1>3, <1>4, <1>7, <2>1
<1> QED  BY <1>1, <1>5, <1>8, LocalSound, LocalTable

(* get_blocks_for_generation: a copy has the KV of what it replaces.       *)
LEMMA GenerateIsLocal ==
  ASSUME KvInv, NEW r \in Requests, Generate(r)
  PROVE  (\E S : Local(pool', S)) /\ ChainHitsAreSound' /\ TablesHoldPrompts'
<1> DEFINE t == tables[r]
<1>1. PICK copied, new :
        /\ copied \in SUBSET {t[i] : i \in Shared(r)}
        /\ new \in [copied -> Victims(pool)]
        /\ \A b, c \in copied : new[b] = new[c] => b = c
        /\ pool' = CopyOnWrite(pool, copied, new)
        /\ tables' = [tables EXCEPT ![r] =
             [i \in DOMAIN t |-> IF t[i] \in copied THEN new[t[i]] ELSE t[i]]]
        /\ lost' = lost /\ t # None
  <2> DEFINE reached == {i \in Shared(r) :
                 Cardinality({j \in Shared(r) : j < i}) < Cardinality(Victims(pool))}
             copied == {t[i] : i \in reached}
  <2>1. copied \in SUBSET {t[i] : i \in Shared(r)}  OBVIOUS
  <2>2. PICK new \in [copied -> Victims(pool)] :
          /\ \A b, c \in copied : new[b] = new[c] => b = c
          /\ pool' = CopyOnWrite(pool, copied, new)
          /\ tables' = [tables EXCEPT ![r] =
               [i \in DOMAIN @ |-> IF @[i] \in copied THEN new[@[i]] ELSE @[i]]]
    BY DEF Generate
  <2>3. lost' = lost /\ t # None  BY DEF Generate
  <2> QED  BY <2>1, <2>2, <2>3
<1> DEFINE N == {new[b] : b \in copied}
           c == Claim(pool, N)
           u == [i \in DOMAIN t |-> IF t[i] \in copied THEN new[t[i]] ELSE t[i]]
           kvs == [b \in Blocks |->
                     IF \E d \in copied : new[d] = b
                     THEN pool.kv[CHOOSE d \in copied : new[d] = b] ELSE c.kv[b]]
<1>2. N \in SUBSET Victims(pool)  BY <1>1
<1>3. c \in Pool /\ Local(c, N)  BY <1>2, ClaimFree, ClaimIsLocal DEF KvInv
<1>4. /\ pool'.kv = kvs /\ pool'.chain = c.chain /\ pool'.chainMap = c.chainMap
  BY <1>1, <1>3 DEF CopyOnWrite, Pool
<1>5. \A b \in Blocks \ N : kvs[b] = c.kv[b]
  <2> TAKE b \in Blocks \ N
  <2>1. ~ \E d \in copied : new[d] = b  OBVIOUS
  <2> HIDE DEF c
  <2>2. b \in Blocks  OBVIOUS
  <2> HIDE DEF N
  <2>3. kvs[b] = IF \E d \in copied : new[d] = b
                 THEN pool.kv[CHOOSE d \in copied : new[d] = b] ELSE c.kv[b]
    BY <2>2, Zenon
  <2> HIDE DEF kvs
  <2> QED  BY <2>1, <2>3
<1>6. Local(pool', N)
  <2> HIDE DEF kvs, N, c
  <2>1. \A b \in Blocks \ N : pool'.kv[b] = c.kv[b]  BY <1>4, <1>5
  <2> QED  BY <1>3, <1>4, <2>1, WriteIsLocal
<1>7. \A d \in copied : new[d] \in Blocks /\ kvs[new[d]] = pool.kv[d]
  <2> TAKE d \in copied
  <2>1. new[d] \in Blocks  BY <1>1, Typed DEF KvInv
  <2>2. (CHOOSE e \in copied : new[e] = new[d]) = d  BY <1>1
  <2> QED  BY <2>1, <2>2
<1>8. \A b \in copied : b \notin lost
  <2>1. \A b \in copied : b \in pool.alloc  BY <1>1 DEF Shared
  <2> QED  BY <2>1 DEF KvInv, IInv, BlocksAccountedFor, AccountsFor
<1>9. ASSUME NEW i \in DOMAIN t, u[i] \notin lost
      PROVE  pool'.kv[u[i]] = Prefix(r, i)
  <2>1. CASE t[i] \in copied
    <3>1. pool.kv[t[i]] = Prefix(r, i)
      BY <1>1, <1>8, <2>1 DEF KvInv, TablesHoldPrompts
    <3>2. u[i] = new[t[i]]
      <4> HIDE DEF t
      <4> QED  BY <2>1
    <3>3. kvs[new[t[i]]] = pool.kv[t[i]]  BY <1>7, <2>1
    <3> HIDE DEF u, kvs, t
    <3> QED  BY <1>4, <3>1, <3>2, <3>3
  <2>2. CASE t[i] \notin copied
    <3>1. u[i] = t[i]  BY <2>2
    <3>2. pool.kv[t[i]] = Prefix(r, i)
      BY <1>1, <1>9, <3>1 DEF KvInv, TablesHoldPrompts
    <3>3. t[i] \in Held(r)  BY <1>1, ListedAreHeld
    <3> QED  BY <1>6, <3>1, <3>2, <3>3, LocalKeeps DEF KvInv
  <2> QED  BY <2>1, <2>2
<1>10. DOMAIN u = DOMAIN t  OBVIOUS
<1>11. tables' = [tables EXCEPT ![r] = u]  BY <1>1
<1> HIDE DEF u, N, c, kvs, t
<1>12. TablesHoldPrompts'  BY <1>1, <1>6, <1>9, <1>10, <1>11, LocalTable
<1> QED  BY <1>1, <1>6, <1>12, LocalSound

(* cache_full_blocks: a block is registered under the prefix its table     *)
(* holds there, and no KV changes.  Equal blocks of one table would hold   *)
(* prefixes of different lengths, so each has one place.                   *)
LEMMA CacheFullIsSound ==
  ASSUME KvInv, NEW r \in Requests, CacheFullBlocks(r)
  PROVE  pool'.kv = pool.kv /\ ChainHitsAreSound' /\ TablesHoldPrompts'
<1> DEFINE t == tables[r]
           new == {i \in DOMAIN t : pool.chain[t[i]] = None}
           at(b) == CHOOSE i \in new : t[i] = b
           NewAt(h) == {t[i] : i \in {j \in new : Prefix(r, j) = h}}
<1>1. t # None /\ UNCHANGED tables /\ lost' = lost
  BY DEF CacheFullBlocks, Quiet
<1>2. /\ pool'.kv = pool.kv
      /\ pool'.chain = [b \in Blocks |-> IF \E i \in new : t[i] = b
                                         THEN Prefix(r, at(b)) ELSE pool.chain[b]]
      /\ pool'.chainMap = [h \in Prefixes |-> pool.chainMap[h] \cup NewAt(h)]
  BY Typed DEF CacheFullBlocks, Pool, KvInv
<1>3. TablesHoldPrompts'
  BY <1>1, <1>2 DEF KvInv, TablesHoldPrompts, Prefix
<1>4. ASSUME NEW h \in Prefixes, NEW b \in pool'.chainMap[h] \ lost
      PROVE  pool'.chain[b] = h /\ pool'.kv[b] = h
  <2>1. CASE b \in pool.chainMap[h]
    <3>1. pool.chain[b] = h /\ pool.kv[b] = h /\ b \in Blocks /\ h # None
      BY <1>4, <2>1, Typed, PoolAssumption DEF KvInv, ChainHitsAreSound, Pool
    <3>2. ~ \E i \in new : t[i] = b  BY <3>1
    <3> QED  BY <1>2, <3>1, <3>2
  <2>2. CASE b \in NewAt(h)
    <3>1. PICK i \in new : t[i] = b /\ Prefix(r, i) = h  BY <2>2
    <3>2. at(b) \in new /\ t[at(b)] = b  BY <3>1
    <3>3. \A j \in new : t[j] = b => pool.kv[b] = Prefix(r, j)
      BY <1>1, <1>4 DEF KvInv, TablesHoldPrompts
    <3>4. pool.kv[b] = h /\ Prefix(r, at(b)) = h
      <4> HIDE DEF new, at, t
      <4> QED  BY <3>1, <3>2, <3>3
    <3>5. b \in Blocks
      <4>1. t \in Seq(Blocks)  BY <1>1 DEF KvInv, IInv, TypeOK
      <4> QED  BY <3>1, <4>1
    <3> HIDE DEF new, at, t
    <3> QED  BY <1>2, <3>1, <3>4, <3>5
  <2>3. b \in pool.chainMap[h] \cup NewAt(h)
    <3> HIDE DEF NewAt
    <3> QED  BY <1>2, <1>4
  <2> QED  BY <2>1, <2>2, <2>3
<1> QED  BY <1>1, <1>3, <1>4, <1>2 DEF ChainHitsAreSound

(* Evictions, pressure release and pins.                                   *)
LEMMA HousekeepingIsLocal ==
  ASSUME KvInv,
         \/ \E n \in 1..Cardinality(Blocks) : EvictLru(n) \/ ReleasePressure(n - 1)
         \/ \E S \in SUBSET Pinnable : Pin(S) \/ Unpin(S)
  PROVE  (\E S : Local(pool', S)) /\ ChainHitsAreSound' /\ TablesHoldPrompts'
<1>1. UNCHANGED tables /\ lost' = lost
  BY DEF EvictLru, ReleasePressure, Pin, Unpin, Quiet
<1>2. ASSUME NEW n, EvictLru(n)  PROVE \E S : Local(pool', S)
  BY <1>2, EvictIsLocal DEF EvictLru
<1>3. ASSUME NEW n, ReleasePressure(n)  PROVE \E S : Local(pool', S)
  <2>1. PICK S \in SUBSET Resident : pool' = ForgetAll(pool, S)
    BY <1>3 DEF ReleasePressure
  <2> QED  BY <2>1, ForgetIsLocal DEF Resident
<1>4. ASSUME NEW S, Pin(S) \/ Unpin(S)  PROVE Local(pool', {})
  BY <1>4, Typed, SameIsLocal DEF Pin, Unpin, Pool, KvInv
<1>5. PICK S : Local(pool', S)  BY <1>2, <1>3, <1>4
<1> QED  BY <1>1, <1>5, LocalSound, LocalTables

(* reset_prefix_cache: the counter says every block is free or lost, so    *)
(* the tables list only lost blocks.                                       *)
LEMMA ResetIsSound ==
  ASSUME KvInv, ResetPrefixCache
  PROVE  /\ \A r \in Requests : \A b \in Held(r) : b \in lost
         /\ ChainHitsAreSound' /\ TablesHoldPrompts'
<1>1. /\ pool \in Pool /\ lost \in SUBSET Blocks /\ AccountsFor(pool, lost)
      /\ pool.num >= Cardinality(Blocks)
      /\ UNCHANGED tables /\ lost' = lost
  BY Typed DEF KvInv, IInv, BlocksAccountedFor, ResetPrefixCache, Quiet
<1>2. pool.alloc = {}
  <2> DEFINE F == pool.free \cup lost
  <2>1. /\ IsFiniteSet(Blocks) /\ F \in SUBSET Blocks /\ pool.free \cap lost = {}
        /\ pool.alloc \subseteq Blocks \ F
    BY <1>1, PoolAssumption DEF Pool, AccountsFor
  <2>2. IsFiniteSet(pool.free) /\ IsFiniteSet(lost)
    BY <1>1, PoolAssumption, FS_Subset DEF Pool
  <2>3. Cardinality(F) = Cardinality(pool.free) + Cardinality(lost)
    BY <2>1, <2>2, CardDisjoint
  <2>4. /\ IsFiniteSet(Blocks \ F) /\ Cardinality(Blocks) \in Nat
        /\ Cardinality(F) \in Nat
        /\ Cardinality(Blocks \ F) = Cardinality(Blocks) - Cardinality(F)
    BY <2>1, CardParts
  <2>5. Cardinality(Blocks \ F) \in Nat  BY <2>4, FS_CardinalityType
  <2>6. Cardinality(F) = pool.num  BY <1>1, <2>3 DEF AccountsFor
  <2>7. Cardinality(Blocks \ F) = 0
    <3> HIDE DEF F
    <3> QED  BY <1>1, <2>4, <2>5, <2>6
  <2>8. Blocks \ F = {}  BY <2>4, <2>7, FS_EmptySet
  <2> QED  BY <2>1, <2>8
<1>3. ASSUME NEW r \in Requests, NEW b \in Held(r)  PROVE b \in lost
  <2>1. b \in Blocks  BY Typed DEF KvInv
  <2> QED  BY <1>2, <2>1, BlockState DEF KvInv
<1>4. ChainHitsAreSound'
  BY <1>1 DEF ResetPrefixCache, Pool, ChainHitsAreSound
<1>5. TablesHoldPrompts'
  BY <1>1, <1>3, ListedAreHeld DEF TablesHoldPrompts
<1> QED  BY <1>3, <1>4, <1>5

(* What a step other than clear and the reset does to KV is local.         *)
LEMMA StepIsLocal ==
  ASSUME KvInv, Next, ~Clear, ~ResetPrefixCache
  PROVE  /\ pool'.kv = pool.kv \/ \E S : Local(pool', S)
         /\ ChainHitsAreSound' /\ TablesHoldPrompts'
<1>1. ASSUME NEW r \in Requests,
             \/ CreateTable(r) \/ DeleteTable(r) \/ AllocateBlock(r)
             \/ CacheFullBlocks(r) \/ AdoptComputed(r) \/ Generate(r)
             \/ \E n \in 1..Cardinality(Blocks) : GetNewBlocks(r, n)
             \/ \E q \in Requests : Fork(r, q)
      PROVE  /\ pool'.kv = pool.kv \/ \E S : Local(pool', S)
             /\ ChainHitsAreSound' /\ TablesHoldPrompts'
  <2>1. CASE CreateTable(r) \/ DeleteTable(r)  BY <2>1, ReleaseIsLocal
  <2>2. CASE AllocateBlock(r)  BY <2>2, AllocateIsLocal
  <2>3. CASE CacheFullBlocks(r)  BY <2>3, CacheFullIsSound
  <2>4. CASE AdoptComputed(r)  BY <2>4, AdoptIsLocal
  <2>5. CASE Generate(r)  BY <2>5, GenerateIsLocal
  <2>6. ASSUME NEW n \in 1..Cardinality(Blocks), GetNewBlocks(r, n)
        PROVE  (\E S : Local(pool', S)) /\ ChainHitsAreSound' /\ TablesHoldPrompts'
    BY <2>6, GetNewIsLocal
  <2>7. ASSUME NEW q \in Requests, Fork(r, q)
        PROVE  (\E S : Local(pool', S)) /\ ChainHitsAreSound' /\ TablesHoldPrompts'
    BY <2>7, ForkIsLocal
  <2> QED  BY <1>1, <2>1, <2>2, <2>3, <2>4, <2>5, <2>6, <2>7
<1>2. CASE \/ \E n \in 1..Cardinality(Blocks) : EvictLru(n) \/ ReleasePressure(n - 1)
           \/ \E S \in SUBSET Pinnable : Pin(S) \/ Unpin(S)
  BY <1>2, HousekeepingIsLocal
<1> QED  BY <1>1, <1>2 DEF Next

LEMMA KvPreserved == KvInv /\ [Next]_vars => KvInv'
<1> SUFFICES ASSUME KvInv, [Next]_vars  PROVE KvInv'
  OBVIOUS
<1>1. IInv'  BY NextPreserves DEF KvInv
<1>2. CASE Clear
  <2>1. ChainHitsAreSound'  BY <1>2 DEF Clear, EmptyPool, ChainHitsAreSound
  <2>2. TablesHoldPrompts'  BY <1>2 DEF Clear, TablesHoldPrompts
  <2> QED  BY <1>1, <2>1, <2>2 DEF KvInv
<1>3. CASE ResetPrefixCache  BY <1>1, <1>3, ResetIsSound DEF KvInv
<1>4. CASE Next /\ ~Clear /\ ~ResetPrefixCache
  BY <1>1, <1>4, StepIsLocal DEF KvInv
<1>5. CASE UNCHANGED vars
  BY <1>1, <1>5 DEF vars, KvInv, ChainHitsAreSound, TablesHoldPrompts, Prefix
<1> QED  BY <1>2, <1>3, <1>4, <1>5

(* In every run a chain hash names a block with the KV it stands for,      *)
(* through reuse, eviction, pressure release, copies and forks.            *)
THEOREM HitsAreSound == Spec => []ChainHitsAreSound
<1>1. KvInv => ChainHitsAreSound  BY DEF KvInv
<1> QED  BY <1>1, KvInit, KvPreserved, PTL DEF Spec

(* No operation but clear changes the KV a table lists, and none but clear *)
(* and the reset of an idle cache the KV a pin protects.                   *)
THEOREM HeldIsStable == Spec => HeldKvIsStable
<1>1. ASSUME KvInv, [Next]_vars
      PROVE  [~Clear => /\ \A r \in Requests : KeepsKv(r)
                        /\ ResetPrefixCache \/ KeepsPinned]_vars
  <2> SUFFICES ASSUME Next, ~Clear
               PROVE  /\ \A r \in Requests : KeepsKv(r)
                      /\ ResetPrefixCache \/ KeepsPinned
    BY <1>1
  <2>1. CASE ResetPrefixCache
    BY <1>1, <2>1, ResetIsSound DEF KeepsKv
  <2>2. CASE ~ResetPrefixCache
    <3>1. pool'.kv = pool.kv \/ \E S : Local(pool', S)
      BY <1>1, <2>2, StepIsLocal
    <3> QED  BY <1>1, <3>1, LocalKeeps DEF KeepsKv, KeepsPinned, KvInv
  <2> QED  BY <2>1, <2>2
<1> QED  BY <1>1, KvInit, KvPreserved, PTL DEF Spec, HeldKvIsStable
=============================================================================
