-------------------------- MODULE PrefixSharingProofs --------------------------
(***************************************************************************)
(* Proofs about PrefixSharing for every pool, any texts and block size:    *)
(* typing, the balance of references, the text of every table, and that a  *)
(* full block is kept once and found again.                                *)
(*                                                                         *)
(* The first three need each other.  A store takes a reference on a block  *)
(* it finds by hash, which counts only if its table does not list the      *)
(* block yet; that follows from the text of the table, whose blocks are    *)
(* all shorter; and a block keeps its text only while references keep it   *)
(* out of the reach of allocation and eviction.                            *)
(***************************************************************************)
EXTENDS PrefixSharing, FiniteSetTheorems, SequenceTheorems,
        WellFoundedInduction, TLAPS
-----------------------------------------------------------------------------
(* What the primitives of PagedPool preserve (PagedCacheProofs has them    *)
(* too: the two modules describe different states of the same pool).       *)

(* Cardinalities of a finite set and its parts, in the form used below.    *)
LEMMA CardParts ==
  ASSUME NEW S, IsFiniteSet(S), NEW T \in SUBSET S
  PROVE  /\ IsFiniteSet(T) /\ IsFiniteSet(S \ T)
         /\ Cardinality(S) \in Nat /\ Cardinality(T) \in Nat
         /\ Cardinality(S \ T) = Cardinality(S) - Cardinality(T)
<1>1. IsFiniteSet(T) /\ IsFiniteSet(S \ T)  BY FS_Subset
<1>2. Cardinality(T) \in Nat /\ Cardinality(S) \in Nat  BY <1>1, FS_CardinalityType
<1>3. Cardinality(S \ T) = Cardinality(S) - Cardinality(S \cap T)  BY FS_Difference
<1>4. S \cap T = T  OBVIOUS
<1> QED  BY <1>1, <1>2, <1>3, <1>4

(* Two disjoint finite sets.                                               *)
LEMMA CardDisjoint ==
  ASSUME NEW S, NEW T, IsFiniteSet(S), IsFiniteSet(T), S \cap T = {}
  PROVE  Cardinality(S \cup T) = Cardinality(S) + Cardinality(T)
<1>1. Cardinality(S \cup T) =
        Cardinality(S) + Cardinality(T) - Cardinality(S \cap T)  BY FS_Union
<1>2. Cardinality(S \cap T) = 0  BY FS_EmptySet
<1>3. Cardinality(S) \in Nat /\ Cardinality(T) \in Nat  BY FS_CardinalityType
<1> QED  BY <1>1, <1>2, <1>3

(* _maybe_evict_cached_block and release_pressure_blocks only touch hashes *)
(* and tensors.                                                            *)
LEMMA ForgetKeeps ==
  ASSUME NEW p \in Pool, NEW S
  PROVE  /\ ForgetAll(p, S) \in Pool
         /\ ForgetAll(p, S).free = p.free /\ ForgetAll(p, S).num = p.num
         /\ ForgetAll(p, S).alloc = p.alloc /\ ForgetAll(p, S).ref = p.ref
         /\ ForgetAll(p, S).pinned = p.pinned
BY DEF Pool, ForgetAll

(* Blocks popped from the queue, with the references allocate_block or     *)
(* get_new_blocks gives them.                                              *)
LEMMA ClaimKeeps ==
  ASSUME NEW p \in Pool, NEW l \in SUBSET Blocks, AccountsFor(p, l),
         NEW S \in SUBSET p.free
  PROVE  /\ Claim(p, S) \in Pool /\ AccountsFor(Claim(p, S), l)
         /\ Claim(p, S).alloc = p.alloc \cup S
         /\ Claim(p, S).free = p.free \ S
         /\ Claim(p, S).ref = [b \in Blocks |-> IF b \in S THEN 1 ELSE p.ref[b]]
<1> DEFINE q == EvictCached(p, S)
           c == Claim(p, S)
<1>1. q \in Pool /\ q.pinned = p.pinned  BY ForgetKeeps DEF EvictCached
<1>2. /\ c.free = p.free \ S /\ c.alloc = p.alloc \cup S
      /\ c.num = p.num - Cardinality(S)
      /\ c.ref = [b \in Blocks |-> IF b \in S THEN 1 ELSE p.ref[b]]
  BY <1>1 DEF Claim, Pool
<1>3. p.free \subseteq Blocks /\ IsFiniteSet(p.free) /\ IsFiniteSet(l)
  BY PoolAssumption, FS_Subset DEF Pool
<1>4. /\ Cardinality(p.free \ S) = Cardinality(p.free) - Cardinality(S)
      /\ Cardinality(p.free \ S) \in Nat /\ Cardinality(S) \in Nat
      /\ Cardinality(p.free) \in Nat /\ Cardinality(l) \in Nat
  BY <1>3, CardParts, FS_CardinalityType
<1>5. c.num = Cardinality(c.free) + Cardinality(l)
  BY <1>2, <1>4 DEF AccountsFor
<1>6. AccountsFor(c, l)  BY <1>2, <1>5 DEF AccountsFor
<1>7. c.num \in Nat  BY <1>2, <1>4, <1>5
<1>8. c \in Pool
  <2>1. p.num - Cardinality(S) \in Nat  BY <1>2, <1>7
  <2>2. p.free \ S \in SUBSET Blocks /\ p.alloc \cup S \in SUBSET Blocks
    BY <1>3 DEF Pool
  <2>3. [b \in Blocks |-> IF b \in S THEN 1 ELSE p.ref[b]] \in [Blocks -> Nat]
    BY DEF Pool
  <2> QED  BY <1>1, <2>1, <2>2, <2>3 DEF Claim, Pool
<1> QED  BY <1>2, <1>6, <1>8

(* free_block on each block of a table: blocks whose last reference goes   *)
(* move to the queue and are counted there.                                *)
LEMMA ReleaseKeeps ==
  ASSUME NEW p \in Pool, NEW l \in SUBSET Blocks, AccountsFor(p, l),
         NEW S, \A b \in S \cap p.alloc : p.ref[b] >= 1
  PROVE  Release(p, S) \in Pool /\ AccountsFor(Release(p, S), l)
<1> DEFINE L == LastRefs(p, S)
           q == Release(p, S)
<1>1. L \subseteq p.alloc  BY DEF LastRefs
<1>2. /\ q.free = p.free \cup L /\ q.alloc = p.alloc \ L
      /\ q.num = p.num + Cardinality(L)
  BY DEF Release, Pool
<1>3. IsFiniteSet(p.free) /\ IsFiniteSet(L) /\ IsFiniteSet(l)
  BY <1>1, PoolAssumption, FS_Subset DEF Pool
<1>4. p.free \cap L = {}  BY <1>1 DEF AccountsFor
<1>5. /\ Cardinality(p.free \cup L) = Cardinality(p.free) + Cardinality(L)
      /\ Cardinality(p.free) \in Nat /\ Cardinality(L) \in Nat
      /\ Cardinality(l) \in Nat
  BY <1>3, <1>4, CardDisjoint, FS_CardinalityType
<1>6. AccountsFor(q, l)
  <2>1. q.num = Cardinality(q.free) + Cardinality(l)
    BY <1>2, <1>5 DEF AccountsFor
  <2> QED  BY <1>1, <1>2, <2>1 DEF AccountsFor
<1>7. q \in Pool
  <2>1. p.num + Cardinality(L) \in Nat  BY <1>5 DEF Pool
  <2>2. p.free \cup L \in SUBSET Blocks /\ p.alloc \ L \in SUBSET Blocks
    BY <1>1 DEF Pool
  <2>3. [b \in Blocks |-> IF b \in S \cap p.alloc THEN p.ref[b] - 1 ELSE p.ref[b]]
          \in [Blocks -> Nat]
    BY DEF Pool
  <2> QED  BY <2>1, <2>2, <2>3 DEF Release, Pool
<1> QED  BY <1>6, <1>7

(* increment_ref changes no block's place.                                 *)
LEMMA RetainKeeps ==
  ASSUME NEW p \in Pool, NEW l \in SUBSET Blocks, AccountsFor(p, l), NEW S
  PROVE  Retain(p, S) \in Pool /\ AccountsFor(Retain(p, S), l)
<1>1. [b \in Blocks |-> IF b \in S \cap p.alloc THEN p.ref[b] + 1 ELSE p.ref[b]]
        \in [Blocks -> Nat]
  BY DEF Pool
<1> QED  BY <1>1 DEF Retain, Pool, AccountsFor

-----------------------------------------------------------------------------

Bit(P) == IF P THEN 1 ELSE 0

(* Full blocks begin and end here.                                         *)
Aligned(n) == \E k \in Nat : n = k * BlockSize

(* A block in use holds the KV of some text, is named for it, begins at a  *)
(* boundary, and when it is full its hash leads to it.                     *)
Sound(p, sp, b) ==
  /\ p.id[b] = p.kv[b]
  /\ \E r \in Requests : \E n \in 1..Len(Text[r]) : p.kv[b] = Upto(r, n)
  /\ sp[b] \in 1..BlockSize /\ Aligned(Len(p.kv[b]) - sp[b])
  /\ sp[b] = BlockSize => p.idMap[p.id[b]] = b

BlocksAreSound == \A b \in pool.alloc : Sound(pool, span, b)

(* What TablesHoldTheirText says of one table.                             *)
Reads(p, sp, r, t) ==
  /\ \A i \in DOMAIN t.ids :
       /\ p.kv[t.ids[i]] # None
       /\ p.kv[t.ids[i]] = Upto(r, Len(p.kv[t.ids[i]]))
       /\ Len(p.kv[t.ids[i]]) - sp[t.ids[i]] =
            IF i = 1 THEN 0 ELSE Len(p.kv[t.ids[i - 1]])
  /\ t.n = IF t.ids = <<>> THEN 0 ELSE Len(p.kv[t.ids[Len(t.ids)]])

References ==
  /\ AccountsFor(pool, {})
  /\ \A b \in Blocks : /\ pool.ref[b] = Cardinality(Holders(b))
                       /\ (b \in pool.alloc) <=> (Holders(b) # {})

Once(s) == \A i, j \in DOMAIN s : s[i] = s[j] => i = j

(* Entries and requests under way are different ones, both with a table    *)
(* where they need one; a request grows its table from a block boundary.   *)
Owners ==
  /\ TablesHaveOwners /\ Once(entries) /\ Range(entries) \cap live = {}
  /\ storing # None => tables[storing.id] # None
  /\ \A r \in live : tables[r] # None =>
       \/ Aligned(tables[r].n)
       \/ storing # None /\ storing.id = r /\ tables[r].n >= storing.upto

IInv == TypeOK /\ References /\ Owners /\ TablesHoldTheirText /\ BlocksAreSound

-----------------------------------------------------------------------------
(* Numbers and texts.                                                      *)
LEMMA LeastIndex ==
  ASSUME NEW S \in SUBSET Nat, S # {}
  PROVE  \E i \in S : \A j \in S : i <= j
<1> DEFINE R == OpToRel(<, Nat)
<1>1. PICK i \in S : \A j \in S : <<j, i>> \notin R
  <2>1. IsWellFoundedOn(R, Nat)  BY NatLessThanWellFounded
  <2> HIDE DEF R
  <2> QED  BY <2>1, WFMin
<1>2. \A j \in S : ~(j < i)
  BY <1>1 DEF OpToRel
<1> QED  BY <1>2

(* What grows from each position to the next grows from any to any later.  *)
LEMMA Climb ==
  ASSUME NEW n \in Nat, NEW f, \A i \in 1..n : f[i] \in Nat,
         \A i \in 2..n : f[i - 1] < f[i],
         NEW i \in 1..n, NEW j \in 1..n, i < j
  PROVE  f[i] < f[j]
<1> DEFINE S == {k \in 1..n : i < k /\ ~(f[i] < f[k])}
<1>1. S \in SUBSET Nat  OBVIOUS
<1>2. ASSUME S # {}  PROVE FALSE
  <2>1. PICK k \in S : \A m \in S : k <= m
    <3> HIDE DEF S
    <3> QED  BY <1>1, <1>2, LeastIndex
  <2>2. k \in 2..n /\ i <= k - 1 /\ k - 1 \in 1..n /\ k - 1 \notin S  BY <2>1
  <2>3. f[k - 1] < f[k] /\ f[k] \in Nat /\ f[i] \in Nat /\ f[k - 1] \in Nat  BY <2>2
  <2>4. k - 1 = i \/ f[i] < f[k - 1]  BY <2>2
  <2> QED  BY <2>1, <2>3, <2>4
<1> QED  BY <1>2

LEMMA Multiples ==
  ASSUME NEW d \in Nat, NEW a \in Nat, NEW b \in Nat
  PROVE  /\ a * d \in Nat /\ (a + 1) * d = a * d + d /\ (a - 1) * d = a * d - d
         /\ a <= b => a * d <= b * d
<1>1. a * d \in Nat /\ (a + 1) * d = a * d + d /\ (a - 1) * d = a * d - d  OBVIOUS
<1>2. ASSUME a <= b  PROVE a * d <= b * d
  <2>1. PICK c \in Nat : b = a + c  BY <1>2
  <2>2. b * d = a * d + c * d /\ c * d \in Nat  BY <2>1
  <2> QED  BY <1>1, <2>2
<1> QED  BY <1>1, <1>2

LEMMA Boundaries ==
  /\ Aligned(0)
  /\ \A k \in Nat : Aligned(k * BlockSize)
  /\ \A n : Aligned(n) => n \in Nat /\ Aligned(n + BlockSize)
  /\ \A n, s : Aligned(n) /\ Aligned(n - s) /\ s \in 1..BlockSize => s = BlockSize
<1>0. BlockSize \in Nat /\ BlockSize >= 1  BY TextAssumption
<1>1. \A k \in Nat : Aligned(k * BlockSize)  BY DEF Aligned
<1>2. Aligned(0)
  <2>1. 0 * BlockSize = 0  BY <1>0
  <2> QED  BY <2>1, <1>1
<1>3. ASSUME NEW n, Aligned(n)  PROVE n \in Nat /\ Aligned(n + BlockSize)
  <2>1. PICK k \in Nat : n = k * BlockSize  BY <1>3 DEF Aligned
  <2>2. n \in Nat /\ n + BlockSize = (k + 1) * BlockSize  BY <2>1, <1>0, Multiples
  <2> QED  BY <2>2, <1>1
<1>4. ASSUME NEW n, NEW s, Aligned(n), Aligned(n - s), s \in 1..BlockSize
      PROVE  s = BlockSize
  <2>1. PICK k \in Nat : n = k * BlockSize  BY <1>4 DEF Aligned
  <2>2. PICK m \in Nat : n - s = m * BlockSize  BY <1>4 DEF Aligned
  <2>3. n \in Nat /\ s \in Nat /\ s >= 1 /\ s <= BlockSize  BY <1>0, <1>3, <1>4
  <2>4. CASE k <= m
    <3>1. k * BlockSize <= m * BlockSize  BY <2>4, <1>0, Multiples
    <3> QED  BY <3>1, <2>1, <2>2, <2>3
  <2>5. CASE k >= m + 1
    <3>1. (m + 1) * BlockSize <= k * BlockSize  BY <2>5, <1>0, Multiples
    <3>2. (m + 1) * BlockSize = m * BlockSize + BlockSize  BY <1>0, Multiples
    <3>3. m * BlockSize \in Nat /\ k * BlockSize \in Nat  BY <1>0, Multiples
    <3> QED  BY <3>1, <3>2, <3>3, <2>1, <2>2, <2>3, <1>0
  <2> QED  BY <2>4, <2>5
<1> QED  BY <1>1, <1>2, <1>3, <1>4

LEMMA UptoProps ==
  ASSUME NEW r \in Requests
  PROVE  /\ Len(Text[r]) \in Nat /\ Asked[r] \in 1..Len(Text[r])
         /\ \A n \in 0..Len(Text[r]) :
              /\ Upto(r, n) \in Seq(Range(Text[r])) /\ Len(Upto(r, n)) = n
              /\ \A m \in 0..n : SubSeq(Upto(r, n), 1, m) = Upto(r, m)
              /\ n # 0 => Upto(r, n) \in Prefixes /\ Upto(r, n) # None
<1>1. Text[r] \in Seq(Range(Text[r])) /\ Asked[r] \in 1..Len(Text[r])
      /\ \A i \in 1..Len(Text[r]) : SubSeq(Text[r], 1, i) \in Prefixes
  BY TextAssumption
<1>2. Len(Text[r]) \in Nat  BY <1>1
<1> SUFFICES ASSUME NEW n \in 0..Len(Text[r])
             PROVE  /\ Upto(r, n) \in Seq(Range(Text[r])) /\ Len(Upto(r, n)) = n
                    /\ \A m \in 0..n : SubSeq(Upto(r, n), 1, m) = Upto(r, m)
                    /\ n # 0 => Upto(r, n) \in Prefixes /\ Upto(r, n) # None
  BY <1>1, <1>2
<1>3. Upto(r, n) \in Seq(Range(Text[r])) /\ Len(Upto(r, n)) = n  BY <1>1 DEF Upto
<1>4. \A m \in 0..n : SubSeq(Upto(r, n), 1, m) = Upto(r, m)  BY <1>1 DEF Upto
<1>5. ASSUME n # 0  PROVE Upto(r, n) \in Prefixes /\ Upto(r, n) # None
  <2>1. n \in 1..Len(Text[r])  BY <1>2, <1>5
  <2>2. SubSeq(Text[r], 1, n) \in Prefixes  BY <1>1, <2>1
  <2> QED  BY <2>2, PoolAssumption DEF Upto
<1> QED  BY <1>3, <1>4, <1>5

(* The full blocks of a prompt.                                            *)
LEMMA FullProps ==
  ASSUME NEW r \in Requests
  PROVE  /\ Asked[r] \div BlockSize \in Nat
         /\ \A k \in 0..(Asked[r] \div BlockSize) :
              /\ k * BlockSize \in 0..Asked[r] /\ k * BlockSize \in 0..Len(Text[r])
              /\ Aligned(k * BlockSize)
              /\ Len(Full(r, k)) = k * BlockSize
              /\ k # 0 => k * BlockSize # 0 /\ Full(r, k) \in Prefixes
<1> DEFINE n == Asked[r] \div BlockSize
<1>0. BlockSize \in Nat /\ BlockSize >= 1 /\ Asked[r] \in Nat
      /\ Asked[r] <= Len(Text[r]) /\ Len(Text[r]) \in Nat
  BY TextAssumption, UptoProps
<1>1. n \in Nat /\ n * BlockSize <= Asked[r]  BY <1>0
<1> HIDE DEF n
<1>2. ASSUME NEW k \in 0..n
      PROVE  /\ k * BlockSize \in 0..Asked[r] /\ k * BlockSize \in 0..Len(Text[r])
             /\ k # 0 => k * BlockSize # 0
  <2>1. k * BlockSize \in Nat /\ k * BlockSize <= n * BlockSize  BY <1>0, <1>1, Multiples
  <2>2. ASSUME k # 0  PROVE k * BlockSize # 0
    <3>1. 1 * BlockSize <= k * BlockSize  BY <2>2, <1>0, <1>1, Multiples
    <3> QED  BY <3>1, <1>0
  <2>3. n * BlockSize \in Nat  BY <1>0, <1>1, Multiples
  <2> QED  BY <2>1, <2>2, <2>3, <1>0, <1>1
<1>3. \A k \in 0..n : Aligned(k * BlockSize)  BY Boundaries, <1>1
<1>4. ASSUME NEW k \in 0..n
      PROVE  Len(Full(r, k)) = k * BlockSize /\ (k # 0 => Full(r, k) \in Prefixes)
  <2>1. k * BlockSize \in 0..Len(Text[r]) /\ (k # 0 => k * BlockSize # 0)  BY <1>2
  <2> QED  BY <2>1, UptoProps DEF Full
<1> QED  BY <1>1, <1>2, <1>3, <1>4 DEF n

-----------------------------------------------------------------------------
(* Sequences.                                                              *)
LEMMA RangeSeq ==
  ASSUME NEW S, NEW s \in Seq(S)
  PROVE  /\ Len(s) \in Nat /\ DOMAIN s = 1..Len(s) /\ Range(s) \subseteq S
         /\ \A i \in 1..Len(s) : s[i] \in Range(s) /\ s[i] \in S
         /\ \A x \in Range(s) : \E i \in 1..Len(s) : x = s[i]
         /\ s = <<>> <=> Len(s) = 0
         /\ s = <<>> => Range(s) = {}
<1>1. Len(s) \in Nat /\ DOMAIN s = 1..Len(s) /\ \A i \in 1..Len(s) : s[i] \in S  OBVIOUS
<1>2. /\ \A i \in 1..Len(s) : s[i] \in Range(s)
      /\ \A x \in Range(s) : \E i \in 1..Len(s) : x = s[i]
  BY <1>1 DEF Range
<1>3. s = <<>> <=> Len(s) = 0  OBVIOUS
<1> QED  BY <1>1, <1>2, <1>3

LEMMA AppendSeq ==
  ASSUME NEW S, NEW s \in Seq(S), NEW e \in S
  PROVE  /\ Append(s, e) \in Seq(S) /\ Append(s, e) # <<>>
         /\ Len(Append(s, e)) = Len(s) + 1
         /\ \A i \in 1..Len(s) : Append(s, e)[i] = s[i]
         /\ Append(s, e)[Len(s) + 1] = e
         /\ Range(Append(s, e)) = Range(s) \cup {e}
         /\ Once(s) /\ e \notin Range(s) => Once(Append(s, e))
<1> DEFINE t == Append(s, e)
<1>1. /\ t \in Seq(S) /\ Len(t) = Len(s) + 1 /\ Len(s) \in Nat
      /\ \A i \in 1..Len(s) : t[i] = s[i]
      /\ t[Len(s) + 1] = e
  OBVIOUS
<1> HIDE DEF t
<1>2. t # <<>>  BY <1>1, RangeSeq
<1>3. \A i \in 1..Len(s) : s[i] \in Range(s)  BY RangeSeq
<1>4. DOMAIN t = 1..(Len(s) + 1) /\ DOMAIN s = 1..Len(s)  BY <1>1, RangeSeq
<1>5. Range(t) = Range(s) \cup {e}  BY <1>1, <1>4 DEF Range
<1>6. Once(s) /\ e \notin Range(s) => Once(t)  BY <1>1, <1>3, <1>4 DEF Once
<1> QED  BY <1>1, <1>2, <1>5, <1>6 DEF t

LEMMA TailSeq ==
  ASSUME NEW S, NEW s \in Seq(S), s # <<>>, Once(s)
  PROVE  /\ Head(s) \in Range(s) /\ Tail(s) \in Seq(S) /\ Once(Tail(s))
         /\ Range(Tail(s)) = Range(s) \ {Head(s)}
<1> DEFINE t == Tail(s)
<1>1. /\ t \in Seq(S) /\ Len(t) = Len(s) - 1 /\ Len(s) \in Nat \ {0} /\ Head(s) = s[1]
      /\ \A i \in 1..Len(t) : t[i] = s[i + 1]
  OBVIOUS
<1> HIDE DEF t
<1>2. DOMAIN t = 1..(Len(s) - 1) /\ DOMAIN s = 1..Len(s)  BY <1>1, RangeSeq
<1>3. Once(t)
  <2> SUFFICES ASSUME NEW i \in 1..(Len(s) - 1), NEW j \in 1..(Len(s) - 1), t[i] = t[j]
               PROVE  i = j
    BY <1>2 DEF Once
  <2>1. s[i + 1] = s[j + 1] /\ i + 1 \in 1..Len(s) /\ j + 1 \in 1..Len(s)  BY <1>1
  <2>2. i + 1 = j + 1  BY <2>1, <1>2 DEF Once
  <2> QED  BY <2>2
<1>4. Range(t) = Range(s) \ {Head(s)}
  <2>1. ASSUME NEW x \in Range(t)  PROVE x \in Range(s) \ {Head(s)}
    <3>1. PICK i \in 1..(Len(s) - 1) : x = s[i + 1]  BY <1>1, <1>2, <2>1 DEF Range
    <3>2. i + 1 \in 1..Len(s) /\ 1 \in 1..Len(s) /\ i + 1 # 1  BY <1>1
    <3>3. s[i + 1] # s[1]  BY <3>2, <1>2 DEF Once
    <3> QED  BY <3>1, <3>2, <3>3, <1>1, <1>2 DEF Range
  <2>2. ASSUME NEW x \in Range(s) \ {Head(s)}  PROVE x \in Range(t)
    <3>1. PICK i \in 1..Len(s) : x = s[i]  BY <1>2 DEF Range
    <3>2. i # 1  BY <3>1, <1>1
    <3>3. i - 1 \in 1..(Len(s) - 1) /\ t[i - 1] = x  BY <3>1, <3>2, <1>1
    <3> QED  BY <3>3, <1>2 DEF Range
  <2> QED  BY <2>1, <2>2
<1>5. Head(s) \in Range(s)  BY <1>1, <1>2 DEF Range
<1> QED  BY <1>1, <1>3, <1>4, <1>5 DEF t

LEMMA Part ==
  ASSUME NEW S, NEW s \in Seq(S), NEW m \in 1..(Len(s) + 1), NEW n \in 0..Len(s),
         m <= n + 1
  PROVE  /\ SubSeq(s, m, n) \in Seq(S) /\ Len(SubSeq(s, m, n)) = n - m + 1
         /\ \A k \in 1..(n - m + 1) : SubSeq(s, m, n)[k] = s[m + k - 1]
<1>0. Len(s) \in Nat /\ m \in Int /\ n \in Int  BY RangeSeq
<1>1. \A k \in m..n : s[k] \in S  BY <1>0, RangeSeq
<1>2. /\ SubSeq(s, m, n) \in Seq(S)
      /\ Len(SubSeq(s, m, n)) = IF m <= n THEN n - m + 1 ELSE 0
      /\ \A k \in 1..(n - m + 1) : SubSeq(s, m, n)[k] = s[m + k - 1]
  BY <1>0, <1>1, SubSeqProperties
<1> QED  BY <1>0, <1>2

LEMMA DropAt ==
  ASSUME NEW S, NEW s \in Seq(S), NEW i \in 1..Len(s)
  PROVE  LET u == SubSeq(s, 1, i - 1) \o SubSeq(s, i + 1, Len(s))
         IN  /\ u \in Seq(S) /\ Len(u) = Len(s) - 1
             /\ \A k \in 1..(Len(s) - 1) : u[k] = IF k < i THEN s[k] ELSE s[k + 1]
<1>0. Len(s) \in Nat  BY RangeSeq
<1> DEFINE v == SubSeq(s, 1, i - 1)
           w == SubSeq(s, i + 1, Len(s))
           u == v \o w
<1>1. v \in Seq(S) /\ Len(v) = i - 1 - 1 + 1 /\ \A k \in 1..(i - 1 - 1 + 1) : v[k] = s[1 + k - 1]
  <2>1. 1 \in 1..(Len(s) + 1) /\ i - 1 \in 0..Len(s) /\ 1 <= i - 1 + 1  BY <1>0
  <2> QED  BY <2>1, Part, Zenon
<1>2. /\ w \in Seq(S) /\ Len(w) = Len(s) - (i + 1) + 1
      /\ \A k \in 1..(Len(s) - (i + 1) + 1) : w[k] = s[i + 1 + k - 1]
  <2>1. i + 1 \in 1..(Len(s) + 1) /\ Len(s) \in 0..Len(s) /\ i + 1 <= Len(s) + 1  BY <1>0
  <2> QED  BY <2>1, Part, Zenon
<1> HIDE DEF v, w
<1>3. Len(v) = i - 1 /\ Len(w) = Len(s) - i  BY <1>0, <1>1, <1>2
<1>4. u \in Seq(S) /\ Len(u) = Len(s) - 1  BY <1>0, <1>1, <1>2, <1>3
<1>5. ASSUME NEW k \in 1..(Len(s) - 1)  PROVE u[k] = IF k < i THEN s[k] ELSE s[k + 1]
  <2>1. CASE k < i
    <3>1. k \in 1..Len(v) /\ u[k] = v[k] /\ 1 + k - 1 = k  BY <2>1, <1>0, <1>1, <1>2, <1>3
    <3> QED  BY <2>1, <3>1, <1>1, <1>3
  <2>2. CASE ~(k < i)
    <3>1. k - (i - 1) \in 1..Len(w) /\ u[k] = w[k - (i - 1)]
      BY <2>2, <1>0, <1>1, <1>2, <1>3
    <3>2. i + 1 + (k - (i - 1)) - 1 = k + 1  BY <2>2
    <3> QED  BY <2>2, <3>1, <3>2, <1>2, <1>3
  <2> QED  BY <2>1, <2>2
<1> QED  BY <1>4, <1>5 DEF v, w

LEMMA WithoutKeeps ==
  ASSUME NEW S, NEW s \in Seq(S), Once(s), NEW r
  PROVE  /\ Without(s, r) \in Seq(S) /\ Once(Without(s, r))
         /\ Range(Without(s, r)) = Range(s) \ {r}
<1>1. CASE r \notin Range(s)
  BY <1>1 DEF Without
<1>2. CASE r \in Range(s)
  <2>0. DOMAIN s = 1..Len(s) /\ Len(s) \in Nat  BY RangeSeq
  <2> DEFINE i == CHOOSE i \in DOMAIN s : s[i] = r
             u == SubSeq(s, 1, i - 1) \o SubSeq(s, i + 1, Len(s))
  <2>1. i \in 1..Len(s) /\ s[i] = r  BY <1>2, <2>0 DEF Range
  <2>2. Without(s, r) = u  BY <1>2 DEF Without
  <2> HIDE DEF i
  <2>5. /\ u \in Seq(S) /\ Len(u) = Len(s) - 1
        /\ \A k \in 1..(Len(s) - 1) : u[k] = IF k < i THEN s[k] ELSE s[k + 1]
    BY <2>1, DropAt
  <2> HIDE DEF u
  <2>7. DOMAIN u = 1..(Len(s) - 1)  BY <2>5, RangeSeq
  <2>8. ASSUME NEW k \in 1..(Len(s) - 1)
        PROVE  \E m \in 1..Len(s) : m # i /\ u[k] = s[m] /\ m = IF k < i THEN k ELSE k + 1
    BY <2>0, <2>1, <2>5
  <2>9. Once(u)
    <3> SUFFICES ASSUME NEW j \in 1..(Len(s) - 1), NEW k \in 1..(Len(s) - 1), u[j] = u[k]
                 PROVE  j = k
      BY <2>7 DEF Once
    <3>1. PICK m \in 1..Len(s) : u[j] = s[m] /\ m = IF j < i THEN j ELSE j + 1  BY <2>8
    <3>2. PICK n \in 1..Len(s) : u[k] = s[n] /\ n = IF k < i THEN k ELSE k + 1  BY <2>8
    <3>3. m = n  BY <3>1, <3>2, <2>0 DEF Once
    <3> QED  BY <3>1, <3>2, <3>3, <2>1
  <2>10. Range(u) = Range(s) \ {r}
    <3>1. ASSUME NEW x \in Range(u)  PROVE x \in Range(s) \ {r}
      <4>1. PICK k \in 1..(Len(s) - 1) : x = u[k]  BY <2>7, <3>1 DEF Range
      <4>2. PICK m \in 1..Len(s) : m # i /\ x = s[m]  BY <4>1, <2>8
      <4>3. s[m] # s[i]  BY <4>2, <2>0, <2>1 DEF Once
      <4> QED  BY <4>2, <4>3, <2>0, <2>1 DEF Range
    <3>2. ASSUME NEW x \in Range(s) \ {r}  PROVE x \in Range(u)
      <4>1. PICK m \in 1..Len(s) : x = s[m]  BY <2>0 DEF Range
      <4>2. m # i  BY <4>1, <2>1
      <4>3. CASE m < i
        <5>1. m \in 1..(Len(s) - 1) /\ u[m] = x  BY <4>1, <4>3, <2>1, <2>5
        <5> QED  BY <5>1, <2>7 DEF Range
      <4>4. CASE m > i
        <5>1. m - 1 \in 1..(Len(s) - 1) /\ u[m - 1] = x  BY <4>1, <4>4, <2>1, <2>5
        <5> QED  BY <5>1, <2>7 DEF Range
      <4> QED  BY <4>2, <4>3, <4>4, <2>1
    <3> QED  BY <3>1, <3>2
  <2> QED  BY <2>2, <2>5, <2>9, <2>10
<1> QED  BY <1>1, <1>2

-----------------------------------------------------------------------------
(* Blocks and tables.                                                      *)
LEMMA SoundMoves ==
  ASSUME NEW p, NEW q, NEW sp, NEW sq, NEW b, Sound(p, sp, b),
         q.kv[b] = p.kv[b], q.id[b] = p.id[b], sq[b] = sp[b],
         sp[b] = BlockSize => q.idMap[p.id[b]] = b
  PROVE  Sound(q, sq, b)
BY DEF Sound

LEMMA SoundName ==
  ASSUME NEW p, NEW sp, NEW b, Sound(p, sp, b)
  PROVE  /\ p.kv[b] \in Prefixes /\ p.kv[b] # None /\ p.id[b] = p.kv[b]
         /\ Len(p.kv[b]) \in Nat \ {0} /\ sp[b] \in Nat \ {0}
<1>1. PICK r \in Requests : \E n \in 1..Len(Text[r]) : p.kv[b] = Upto(r, n)  BY DEF Sound
<1>2. PICK n \in 1..Len(Text[r]) : p.kv[b] = Upto(r, n)  BY <1>1
<1>3. n \in 0..Len(Text[r]) /\ n # 0  BY UptoProps
<1>4. Upto(r, n) \in Prefixes /\ Upto(r, n) # None /\ Len(Upto(r, n)) = n
  BY <1>3, UptoProps
<1>5. sp[b] \in Nat \ {0}  BY TextAssumption DEF Sound
<1> QED  BY <1>2, <1>3, <1>4, <1>5 DEF Sound

LEMMA PrunedKeeps ==
  ASSUME NEW p \in Pool, NEW H
  PROVE  /\ Pruned(p, H) \in Pool
         /\ Pruned(p, H).free = p.free /\ Pruned(p, H).num = p.num
         /\ Pruned(p, H).alloc = p.alloc /\ Pruned(p, H).ref = p.ref
         /\ Pruned(p, H).pinned = p.pinned
         /\ Pruned(p, H).kv = p.kv /\ Pruned(p, H).id = p.id
         /\ \A b \in p.alloc : p.id[b] \in Prefixes /\ p.idMap[p.id[b]] = b
                                  => Pruned(p, H).idMap[p.id[b]] = b
<1> DEFINE m == [h \in Prefixes |->
                  IF h \in H /\ p.idMap[h] \in p.alloc /\ p.id[p.idMap[h]] # h
                  THEN None ELSE p.idMap[h]]
<1>1. m \in [Prefixes -> Blocks \cup {None}]  BY DEF Pool
<1>2. Pruned(p, H) = [p EXCEPT !.idMap = m]  BY DEF Pruned
<1>3. \A b \in p.alloc : p.id[b] \in Prefixes /\ p.idMap[p.id[b]] = b => m[p.id[b]] = b
  OBVIOUS
<1> HIDE DEF m
<1> QED  BY <1>1, <1>2, <1>3 DEF Pool

LEMMA ForgetSound ==
  ASSUME NEW p \in Pool, NEW sp, NEW S, NEW b \in Blocks \ S, Sound(p, sp, b)
  PROVE  Sound(ForgetAll(p, S), sp, b)
<1> DEFINE q == ForgetAll(p, S)
<1>1. q.kv[b] = p.kv[b] /\ q.id[b] = p.id[b]  BY DEF ForgetAll, Pool
<1>2. p.id[b] \in Prefixes  BY SoundName
<1>3. p.idMap[p.id[b]] = b => q.idMap[p.id[b]] = b  BY <1>2 DEF ForgetAll, Pool
<1>4. sp[b] = BlockSize => p.idMap[p.id[b]] = b  BY DEF Sound
<1> HIDE DEF q
<1> QED  BY <1>1, <1>3, <1>4, SoundMoves DEF q

LEMMA ReadsMoves ==
  ASSUME NEW p, NEW q, NEW sp, NEW sq, NEW r, NEW t, t.ids \in Seq(Blocks),
         Reads(p, sp, r, t),
         \A b \in Range(t.ids) : q.kv[b] = p.kv[b] /\ sq[b] = sp[b]
  PROVE  Reads(q, sq, r, t)
<1>1. /\ DOMAIN t.ids = 1..Len(t.ids) /\ Len(t.ids) \in Nat
      /\ \A i \in 1..Len(t.ids) : t.ids[i] \in Range(t.ids)
      /\ t.ids = <<>> <=> Len(t.ids) = 0
  BY RangeSeq
<1>2. \A i \in 1..Len(t.ids) : q.kv[t.ids[i]] = p.kv[t.ids[i]] /\ sq[t.ids[i]] = sp[t.ids[i]]
  BY <1>1
<1>3. ASSUME NEW i \in 1..Len(t.ids)
      PROVE  /\ q.kv[t.ids[i]] # None
             /\ q.kv[t.ids[i]] = Upto(r, Len(q.kv[t.ids[i]]))
             /\ Len(q.kv[t.ids[i]]) - sq[t.ids[i]] =
                  IF i = 1 THEN 0 ELSE Len(q.kv[t.ids[i - 1]])
  <2>1. CASE i = 1  BY <2>1, <1>1, <1>2 DEF Reads
  <2>2. CASE i # 1
    <3>1. i - 1 \in 1..Len(t.ids)  BY <2>2
    <3> QED  BY <2>2, <3>1, <1>1, <1>2 DEF Reads
  <2> QED  BY <2>1, <2>2
<1>4. t.n = IF t.ids = <<>> THEN 0 ELSE Len(q.kv[t.ids[Len(t.ids)]])
  <2>1. CASE t.ids = <<>>  BY <2>1 DEF Reads
  <2>2. CASE t.ids # <<>>
    <3>1. Len(t.ids) \in 1..Len(t.ids)  BY <2>2, <1>1
    <3> QED  BY <2>2, <3>1, <1>2 DEF Reads
  <2> QED  BY <2>1, <2>2
<1> QED  BY <1>1, <1>3, <1>4 DEF Reads

(* The blocks of a table get longer, up to its last one.                   *)
LEMMA Ascending ==
  ASSUME NEW p, NEW sp, NEW r, NEW t, t.ids \in Seq(Blocks), Reads(p, sp, r, t),
         \A i \in 1..Len(t.ids) : Len(p.kv[t.ids[i]]) \in Nat /\ sp[t.ids[i]] \in Nat \ {0}
  PROVE  /\ \A i, j \in 1..Len(t.ids) : i < j => Len(p.kv[t.ids[i]]) < Len(p.kv[t.ids[j]])
         /\ \A i \in 1..Len(t.ids) : Len(p.kv[t.ids[i]]) <= t.n
<1> DEFINE f == [i \in 1..Len(t.ids) |-> Len(p.kv[t.ids[i]])]
           n == Len(t.ids)
<1>0. DOMAIN t.ids = 1..n /\ n \in Nat /\ (t.ids = <<>> <=> n = 0)  BY RangeSeq
<1>1. \A i \in 1..n : f[i] \in Nat /\ f[i] = Len(p.kv[t.ids[i]])  OBVIOUS
<1>2. ASSUME NEW i \in 2..n  PROVE f[i - 1] < f[i]
  <2>1. i \in 1..n /\ i - 1 \in 1..n /\ i # 1  BY <1>0
  <2>2. f[i] - sp[t.ids[i]] = f[i - 1]  BY <2>1, <1>0, <1>1 DEF Reads
  <2>3. sp[t.ids[i]] \in Nat \ {0} /\ f[i] \in Nat /\ f[i - 1] \in Nat  BY <2>1, <1>1
  <2> QED  BY <2>2, <2>3
<1> HIDE DEF f
<1>3. \A i, j \in 1..n : i < j => f[i] < f[j]  BY <1>0, <1>1, <1>2, Climb
<1>4. ASSUME NEW i \in 1..n  PROVE f[i] <= t.n
  <2>1. n \in 1..n  BY <1>0
  <2>2. t.n = f[n]  BY <2>1, <1>0, <1>1 DEF Reads
  <2>3. i < n \/ i = n  BY <1>0
  <2> QED  BY <2>1, <2>2, <2>3, <1>1, <1>3
<1> QED  BY <1>1, <1>3, <1>4

LEMMA Facts ==
  ASSUME IInv
  PROVE  /\ pool \in Pool /\ AccountsFor(pool, {})
         /\ span \in [Blocks -> 0..BlockSize]
         /\ tables \in [Requests -> Table \cup {None}]
         /\ entries \in Seq(Requests) /\ live \subseteq Requests
         /\ index \in [Prefixes -> Seq(Blocks) \cup {None}]
         /\ pool.free \subseteq Blocks /\ pool.alloc \subseteq Blocks
         /\ \A b \in pool.alloc : Sound(pool, span, b)
BY DEF IInv, TypeOK, References, BlocksAreSound, Pool

LEMMA TableFacts ==
  ASSUME IInv, NEW r \in Requests, tables[r] # None
  PROVE  /\ tables[r] \in Table /\ tables[r].ids \in Seq(Blocks)
         /\ tables[r].n \in 0..Len(Text[r])
         /\ Held(r) = Range(tables[r].ids) /\ Held(r) \subseteq Blocks
         /\ Reads(pool, span, r, tables[r])
<1>1. tables[r] \in Table /\ tables[r].n <= Len(Text[r])  BY DEF IInv, TypeOK
<1>2. tables[r].ids \in Seq(Blocks) /\ tables[r].n \in Nat  BY <1>1 DEF Table
<1>3. Held(r) = Range(tables[r].ids)  BY DEF Held
<1>4. Range(tables[r].ids) \subseteq Blocks  BY <1>2, RangeSeq
<1>5. Reads(pool, span, r, tables[r])  BY DEF IInv, TablesHoldTheirText, Reads
<1>6. Len(Text[r]) \in Nat  BY UptoProps
<1> QED  BY <1>1, <1>2, <1>3, <1>4, <1>5, <1>6

(* What the invariant says of one block.                                   *)
LEMMA BlockState ==
  ASSUME IInv, NEW b \in Blocks
  PROVE  /\ pool.ref[b] = Cardinality(Holders(b)) /\ pool.ref[b] \in Nat
         /\ (b \in pool.alloc) <=> (pool.ref[b] > 0)
         /\ (b \in pool.free) <=> (pool.ref[b] = 0)
         /\ \A r \in Requests : b \in Held(r) => pool.ref[b] > 0
         /\ \A r, q \in Requests : b \in Held(r) /\ b \in Held(q) /\ r # q => pool.ref[b] > 1
<1>1. IsFiniteSet(Holders(b))
  BY TextAssumption, FS_Subset DEF Holders
<1>2. Cardinality(Holders(b)) \in Nat /\ (Cardinality(Holders(b)) = 0 <=> Holders(b) = {})
  BY <1>1, FS_CardinalityType, FS_EmptySet
<1>3. \A r \in Requests : b \in Held(r) => Holders(b) # {}
  BY DEF Holders
<1>4. ASSUME NEW r \in Requests, NEW q \in Requests, b \in Held(r), b \in Held(q), r # q
      PROVE  Cardinality(Holders(b)) > 1
  <2> DEFINE H == Holders(b) \ {r}
  <2>1. r \in Holders(b) /\ q \in H  BY <1>4 DEF Holders
  <2>2. Cardinality(H) = Cardinality(Holders(b)) - 1 /\ IsFiniteSet(H)
    BY <1>1, <2>1, FS_RemoveElement
  <2>3. Cardinality(H) # 0 /\ Cardinality(H) \in Nat
    BY <2>1, <2>2, FS_CardinalityType, FS_EmptySet
  <2> QED  BY <2>2, <2>3, <1>2
<1>5. /\ pool.ref[b] = Cardinality(Holders(b)) /\ ((b \in pool.alloc) <=> (Holders(b) # {}))
      /\ b \in pool.free \cup pool.alloc /\ ~(b \in pool.free /\ b \in pool.alloc)
  BY DEF IInv, References, AccountsFor
<1> QED  BY <1>2, <1>3, <1>4, <1>5

LEMMA HeldAllocated ==
  ASSUME IInv, NEW r \in Requests
  PROVE  Held(r) \subseteq pool.alloc /\ Held(r) \subseteq Blocks
<1>1. Held(r) \subseteq Blocks
  <2>1. CASE tables[r] = None  BY <2>1 DEF Held
  <2>2. CASE tables[r] # None  BY <2>2, TableFacts
  <2> QED  BY <2>1, <2>2
<1> QED  BY <1>1, BlockState

-----------------------------------------------------------------------------
(* Steps that replace one table.                                           *)
LEMMA HoldersStep ==
  ASSUME IInv, NEW r \in Requests, NEW t, tables' = [tables EXCEPT ![r] = t], NEW b
  PROVE  /\ tables'[r] = t /\ \A q \in Requests : q # r => tables'[q] = tables[q]
         /\ Held(r)' = IF t = None THEN {} ELSE Range(t.ids)
         /\ \A q \in Requests : q # r => Held(q)' = Held(q)
         /\ Cardinality(Holders(b)') + Bit(b \in Held(r))
              = Cardinality(Holders(b)) + Bit(b \in Held(r)')
         /\ Cardinality(Holders(b)') \in Nat /\ Cardinality(Holders(b)) \in Nat
         /\ Cardinality(Holders(b)') = 0 <=> Holders(b)' = {}
<1>0. tables \in [Requests -> Table \cup {None}]  BY Facts
<1>1. \A q \in Requests : q # r => tables'[q] = tables[q]  BY <1>0
<1>2. tables'[r] = t  BY <1>0
<1>3. Held(r)' = IF t = None THEN {} ELSE Range(t.ids)  BY <1>2 DEF Held
<1>4. \A q \in Requests : q # r => Held(q)' = Held(q)  BY <1>1 DEF Held
<1>5. IsFiniteSet(Holders(b)) /\ IsFiniteSet(Holders(b)')
  BY TextAssumption, FS_Subset DEF Holders
<1>6. r \in Holders(b) <=> b \in Held(r)  BY DEF Holders
<1>7. CASE b \in Held(r)'
  <2>1. Holders(b)' = Holders(b) \cup {r}  BY <1>4, <1>7 DEF Holders
  <2>2. Cardinality(Holders(b)') + Bit(b \in Held(r))
          = Cardinality(Holders(b)) + Bit(b \in Held(r)')
    BY <2>1, <1>5, <1>6, <1>7, FS_AddElement, FS_CardinalityType DEF Bit
  <2> QED  BY <2>2, <1>1, <1>2, <1>3, <1>4, <1>5, FS_CardinalityType, FS_EmptySet
<1>8. CASE b \notin Held(r)'
  <2>1. Holders(b)' = Holders(b) \ {r}  BY <1>4, <1>8 DEF Holders
  <2>2. Cardinality(Holders(b)') + Bit(b \in Held(r))
          = Cardinality(Holders(b)) + Bit(b \in Held(r)')
    BY <2>1, <1>5, <1>6, <1>8, FS_RemoveElement, FS_CardinalityType DEF Bit
  <2> QED  BY <2>2, <1>1, <1>2, <1>3, <1>4, <1>5, FS_CardinalityType, FS_EmptySet
<1> QED  BY <1>7, <1>8

(* The pool's references and the table move together.                      *)
LEMMA TableStep ==
  ASSUME IInv, NEW r \in Requests, NEW t, tables' = [tables EXCEPT ![r] = t],
         t = None \/ (t \in Table /\ t.n <= Len(Text[r])),
         pool' \in Pool, AccountsFor(pool', {}),
         \A b \in Blocks :
           /\ pool'.ref[b] + Bit(b \in Held(r)) = pool.ref[b] + Bit(b \in Held(r)')
           /\ pool'.ref[b] \in Nat
           /\ (b \in pool'.alloc) <=> (pool'.ref[b] > 0)
  PROVE  /\ References'
         /\ tables' \in [Requests -> Table \cup {None}]
         /\ \A q \in Requests : tables'[q] # None => tables'[q].n <= Len(Text[q])
<1>0. tables \in [Requests -> Table \cup {None}]
      /\ \A q \in Requests : tables[q] # None => tables[q].n <= Len(Text[q])
  BY DEF IInv, TypeOK
<1>1. ASSUME NEW b \in Blocks
      PROVE  /\ pool'.ref[b] = Cardinality(Holders(b)')
             /\ (b \in pool'.alloc) <=> (Holders(b)' # {})
  <2>1. pool.ref[b] = Cardinality(Holders(b)) /\ pool.ref[b] \in Nat  BY BlockState
  <2>2. /\ Cardinality(Holders(b)') + Bit(b \in Held(r))
             = Cardinality(Holders(b)) + Bit(b \in Held(r)')
        /\ Cardinality(Holders(b)') \in Nat
        /\ Cardinality(Holders(b)') = 0 <=> Holders(b)' = {}
    BY HoldersStep
  <2>3. Bit(b \in Held(r)) \in {0, 1} /\ Bit(b \in Held(r)') \in {0, 1}  BY DEF Bit
  <2>4. /\ pool'.ref[b] + Bit(b \in Held(r)) = pool.ref[b] + Bit(b \in Held(r)')
        /\ pool'.ref[b] \in Nat /\ ((b \in pool'.alloc) <=> (pool'.ref[b] > 0))
    OBVIOUS
  <2> QED  BY <2>1, <2>2, <2>3, <2>4
<1>2. References'  BY <1>1 DEF References
<1> QED  BY <1>0, <1>2

(* The other tables keep the KV they list.                                 *)
LEMMA TextsStep ==
  ASSUME IInv, NEW r \in Requests, NEW t, tables' = [tables EXCEPT ![r] = t],
         \A q \in Requests \ {r} : \A b \in Held(q) :
           pool'.kv[b] = pool.kv[b] /\ span'[b] = span[b],
         t # None => Reads(pool', span', r, t)
  PROVE  TablesHoldTheirText'
<1>0. tables \in [Requests -> Table \cup {None}]  BY Facts
<1>1. ASSUME NEW q \in Requests, tables'[q] # None
      PROVE  Reads(pool', span', q, tables'[q])
  <2>1. CASE q = r  BY <2>1, <1>0, <1>1
  <2>2. CASE q # r
    <3>1. tables'[q] = tables[q] /\ tables[q] # None  BY <2>2, <1>0, <1>1
    <3>2. tables[q].ids \in Seq(Blocks) /\ Reads(pool, span, q, tables[q])
          /\ Held(q) = Range(tables[q].ids)
      BY <3>1, TableFacts
    <3>3. \A b \in Range(tables[q].ids) : pool'.kv[b] = pool.kv[b] /\ span'[b] = span[b]
      BY <3>2, <2>2
    <3> HIDE DEF Reads
    <3>4. Reads(pool', span', q, tables[q])  BY <3>2, <3>3, ReadsMoves
    <3> QED  BY <3>1, <3>4
  <2> QED  BY <2>1, <2>2
<1> QED  BY <1>1 DEF TablesHoldTheirText, Reads

(* The same blocks, references and counts.                                 *)
Placed(p, q) ==
  q.free = p.free /\ q.num = p.num /\ q.alloc = p.alloc /\ q.ref = p.ref

(* release_cache takes one reference from each block of the table.         *)
LEMMA ReleaseHeld ==
  ASSUME IInv, NEW r \in Requests, NEW p \in Pool, Placed(pool, p)
  PROVE  LET q == Released(p, r)
         IN  /\ q \in Pool /\ AccountsFor(q, {})
             /\ q.alloc \subseteq pool.alloc
             /\ q.kv = p.kv /\ q.id = p.id /\ q.idMap = p.idMap /\ q.pinned = p.pinned
             /\ \A b \in Blocks :
                  /\ q.ref[b] + Bit(b \in Held(r)) = pool.ref[b]
                  /\ q.ref[b] \in Nat
                  /\ (b \in q.alloc) <=> (q.ref[b] > 0)
             /\ \A s \in Requests : s # r => Held(s) \subseteq q.alloc
<1> DEFINE q == Release(p, Held(r))
<1>1. pool \in Pool /\ AccountsFor(p, {}) /\ pool.alloc \subseteq Blocks
  BY Facts DEF AccountsFor, Placed
<1>2. \A b \in Held(r) \cap p.alloc : p.ref[b] >= 1
  BY <1>1, BlockState DEF Placed
<1>3. q \in Pool /\ AccountsFor(q, {})
  BY <1>1, <1>2, ReleaseKeeps
<1>4. /\ q.kv = p.kv /\ q.id = p.id /\ q.idMap = p.idMap /\ q.pinned = p.pinned
      /\ q.alloc = pool.alloc \ LastRefs(p, Held(r))
      /\ \A b \in Blocks : q.ref[b] = IF b \in Held(r) \cap pool.alloc
                                      THEN pool.ref[b] - 1 ELSE pool.ref[b]
  BY DEF Release, Pool, Placed
<1>5. \A b \in Blocks : b \in LastRefs(p, Held(r)) <=>
                          b \in Held(r) \cap pool.alloc /\ pool.ref[b] <= 1
  BY DEF LastRefs, Placed
<1>6. ASSUME NEW b \in Blocks
      PROVE  /\ q.ref[b] + Bit(b \in Held(r)) = pool.ref[b]
             /\ q.ref[b] \in Nat
             /\ (b \in q.alloc) <=> (q.ref[b] > 0)
  <2>1. /\ pool.ref[b] \in Nat
        /\ (b \in pool.alloc) <=> (pool.ref[b] > 0)
        /\ b \in Held(r) => pool.ref[b] > 0
    BY BlockState
  <2> HIDE DEF q
  <2> QED  BY <2>1, <1>4, <1>5 DEF Bit
<1>7. ASSUME NEW s \in Requests, s # r, NEW b \in Held(s)  PROVE b \in q.alloc
  <2>1. b \in Blocks /\ b \in pool.alloc  BY HeldAllocated
  <2>2. b \in Held(r) => pool.ref[b] > 1  BY <2>1, <1>7, BlockState
  <2>3. b \notin LastRefs(p, Held(r))  BY <2>1, <2>2, <1>5, BlockState
  <2> QED  BY <2>1, <2>3, <1>4
<1> HIDE DEF q
<1> QED  BY <1>3, <1>4, <1>6, <1>7 DEF q, Released

(* increment_ref on allocated blocks.                                      *)
LEMMA RetainRefs ==
  ASSUME NEW p \in Pool, AccountsFor(p, {}), NEW C \in SUBSET p.alloc
  PROVE  LET q == Retain(p, C)
         IN  /\ q \in Pool /\ AccountsFor(q, {}) /\ q.alloc = p.alloc
             /\ q.kv = p.kv /\ q.id = p.id /\ q.idMap = p.idMap /\ q.pinned = p.pinned
             /\ \A b \in Blocks : q.ref[b] = p.ref[b] + Bit(b \in C)
<1> DEFINE q == Retain(p, C)
<1>1. q \in Pool /\ AccountsFor(q, {})  BY RetainKeeps
<1>2. q.alloc = p.alloc /\ q.kv = p.kv /\ q.id = p.id /\ q.idMap = p.idMap
      /\ q.pinned = p.pinned
  BY DEF Retain, Pool
<1>3. ASSUME NEW b \in Blocks  PROVE q.ref[b] = p.ref[b] + Bit(b \in C)
  <2>1. p.ref[b] \in Nat  BY DEF Pool
  <2>2. q.ref[b] = IF b \in C THEN p.ref[b] + 1 ELSE p.ref[b]  BY DEF Retain, Pool
  <2> HIDE DEF q
  <2> QED  BY <2>1, <2>2 DEF Bit
<1> HIDE DEF q
<1> QED  BY <1>1, <1>2, <1>3 DEF q

(* A table lets its blocks go and takes others instead, whose KV stays.    *)
LEMMA Swap ==
  ASSUME IInv, NEW r \in Requests, NEW t, tables' = [tables EXCEPT ![r] = t],
         t = None \/ (t \in Table /\ t.n <= Len(Text[r]) /\ Reads(pool, span, r, t)),
         Held(r)' \subseteq Released(pool, r).alloc,
         pool' \in Pool, AccountsFor(pool', {}), pool'.alloc = Released(pool, r).alloc,
         \A b \in Blocks : pool'.ref[b] = Released(pool, r).ref[b] + Bit(b \in Held(r)'),
         pool'.kv = pool.kv, pool'.id = pool.id, span' = span,
         \A b \in pool'.alloc : pool.id[b] \in Prefixes /\ pool.idMap[pool.id[b]] = b
                                  => pool'.idMap[pool.id[b]] = b
  PROVE  /\ References' /\ TablesHoldTheirText' /\ BlocksAreSound'
         /\ tables' \in [Requests -> Table \cup {None}]
         /\ \A q \in Requests : tables'[q] # None => tables'[q].n <= Len(Text[q])
<1> DEFINE p == Released(pool, r)
<1>1. Placed(pool, pool) /\ pool \in Pool  BY Facts DEF Placed
<1>2. /\ p \in Pool /\ p.alloc \subseteq pool.alloc
      /\ \A b \in Blocks : /\ p.ref[b] + Bit(b \in Held(r)) = pool.ref[b]
                           /\ p.ref[b] \in Nat
                           /\ (b \in p.alloc) <=> (p.ref[b] > 0)
  BY <1>1, ReleaseHeld
<1>3. /\ Held(r)' \subseteq p.alloc /\ pool'.alloc = p.alloc
      /\ \A b \in Blocks : pool'.ref[b] = p.ref[b] + Bit(b \in Held(r)')
  OBVIOUS
<1> HIDE DEF p
<1>4. ASSUME NEW b \in Blocks
      PROVE  /\ pool'.ref[b] + Bit(b \in Held(r)) = pool.ref[b] + Bit(b \in Held(r)')
             /\ pool'.ref[b] \in Nat
             /\ (b \in pool'.alloc) <=> (pool'.ref[b] > 0)
  <2>1. Bit(b \in Held(r)) \in {0, 1} /\ Bit(b \in Held(r)') \in {0, 1}  BY DEF Bit
  <2>2. b \in Held(r)' => b \in p.alloc  BY <1>3
  <2>3. pool'.ref[b] = p.ref[b] + Bit(b \in Held(r)') /\ pool.ref[b] = p.ref[b] + Bit(b \in Held(r))
        /\ p.ref[b] \in Nat /\ ((b \in p.alloc) <=> (p.ref[b] > 0))
    BY <1>2, <1>3
  <2>4. b \notin Held(r)' => Bit(b \in Held(r)') = 0  BY DEF Bit
  <2> QED  BY <2>1, <2>2, <2>3, <2>4, <1>3
<1>5. /\ References' /\ tables' \in [Requests -> Table \cup {None}]
      /\ \A q \in Requests : tables'[q] # None => tables'[q].n <= Len(Text[q])
  BY <1>4, TableStep
<1>6. TablesHoldTheirText'
  <2>1. t # None => Reads(pool', span', r, t)  BY DEF Reads
  <2>2. \A q \in Requests \ {r} : \A b \in Held(q) :
          pool'.kv[b] = pool.kv[b] /\ span'[b] = span[b]
    OBVIOUS
  <2> QED  BY <2>1, <2>2, TextsStep
<1>7. BlocksAreSound'
  <2> SUFFICES ASSUME NEW b \in pool'.alloc  PROVE Sound(pool', span', b)
    BY DEF BlocksAreSound
  <2>1. Sound(pool, span, b)  BY <1>2, <1>3, Facts
  <2>2. pool.id[b] \in Prefixes  BY <2>1, SoundName
  <2>3. span[b] = BlockSize => pool'.idMap[pool.id[b]] = b  BY <2>1, <2>2 DEF Sound
  <2> QED  BY <2>1, <2>3, SoundMoves
<1> QED  BY <1>5, <1>6, <1>7

-----------------------------------------------------------------------------
(* Lookups.                                                                *)
LEMMA SharedLenIs ==
  ASSUME NEW p, NEW r \in Requests
  PROVE  /\ SharedLen(p, r) \in 0..(Asked[r] \div BlockSize)
         /\ \A i \in 1..SharedLen(p, r) : Matches(p, Full(r, i))
         /\ SharedLen(p, r) < Asked[r] \div BlockSize
              => ~Matches(p, Full(r, SharedLen(p, r) + 1))
<1> DEFINE n == Asked[r] \div BlockSize
           M(i) == Matches(p, Full(r, i))
           P(k) == (\A i \in 1..k : M(i)) /\ (k < n => ~M(k + 1))
           S == {i \in 1..n : ~M(i)}
<1>0. n \in Nat  BY FullProps
<1>1. SharedLen(p, r) = CHOOSE k \in 0..n : P(k)  BY DEF SharedLen
<1> HIDE DEF n, M
<1>2. \E k \in 0..n : P(k)
  <2>1. CASE S = {}
    <3>1. n \in 0..n /\ P(n)  BY <2>1, <1>0
    <3> QED  BY <3>1
  <2>2. CASE S # {}
    <3>1. S \in SUBSET Nat  BY <1>0
    <3>2. PICK m \in S : \A i \in S : m <= i
      <4> HIDE DEF S
      <4> QED  BY <2>2, <3>1, LeastIndex
    <3>3. m - 1 \in 0..n /\ m - 1 + 1 = m /\ ~M(m)  BY <1>0, <3>2
    <3>4. \A i \in 1..(m - 1) : M(i)  BY <1>0, <3>2
    <3> QED  BY <3>3, <3>4
  <2> QED  BY <2>1, <2>2
<1> HIDE DEF P
<1>3. SharedLen(p, r) \in 0..n /\ P(SharedLen(p, r))  BY <1>1, <1>2
<1> QED  BY <1>3 DEF P, n, M

LEMMA BestLenIs ==
  ASSUME NEW p, NEW r \in Requests, ~(BestLen(p, r) = 0)
  PROVE  /\ BestLen(p, r) \in 1..(Asked[r] \div BlockSize)
         /\ Servable(p, Full(r, BestLen(p, r)))
<1> DEFINE n == Asked[r] \div BlockSize
           L == {k \in 1..n : Servable(p, Full(r, k))}
           T == {m \in 0..n : n - m \in L}
<1>0. n \in Nat  BY FullProps
<1>1. L # {} /\ BestLen(p, r) = CHOOSE k \in L : \A j \in L : j <= k  BY DEF BestLen
<1>2. L \subseteq 1..n  OBVIOUS
<1> HIDE DEF n, L
<1>3. T # {} /\ T \in SUBSET Nat
  <2>1. PICK k \in L : TRUE  BY <1>1
  <2>2. n - k \in 0..n /\ n - (n - k) = k  BY <1>0, <1>2
  <2> QED  BY <2>2, <1>0
<1>4. PICK m \in T : \A i \in T : m <= i
  <2> HIDE DEF T
  <2> QED  BY <1>3, LeastIndex
<1>5. ASSUME NEW j \in L  PROVE j <= n - m
  <2>1. n - j \in 0..n /\ n - (n - j) = j  BY <1>0, <1>2
  <2>2. m <= n - j  BY <2>1, <1>4
  <2> QED  BY <2>1, <2>2, <1>0, <1>2, <1>4
<1>6. n - m \in L  BY <1>4
<1>7. BestLen(p, r) \in L
  <2>1. \E k \in L : \A j \in L : j <= k  BY <1>5, <1>6
  <2> QED  BY <2>1, <1>1
<1> QED  BY <1>7 DEF n, L

LEMMA Found ==
  ASSUME NEW p, NEW h, None \notin p.alloc, FindById(p, h) # None
  PROVE  FindById(p, h) \in p.alloc /\ p.id[FindById(p, h)] = h
BY DEF FindById

(* The blocks of the hash index for a prompt.                              *)
LEMMA SharedReads ==
  ASSUME IInv, NEW r \in Requests, NEW p, p.kv = pool.kv, p.id = pool.id,
         p.alloc \subseteq pool.alloc
  PROVE  LET c == Shared(p, r)
             k == SharedLen(p, r)
         IN  /\ c \in Seq(Blocks) /\ Range(c) \subseteq p.alloc
             /\ c = <<>> <=> k = 0
             /\ k \in 0..(Asked[r] \div BlockSize)
             /\ Reads(p, span, r, [ids |-> c, n |-> k * BlockSize])
<1> DEFINE c == Shared(p, r)
           k == SharedLen(p, r)
           n == Asked[r] \div BlockSize
<1>0. n \in Nat /\ k \in 0..n /\ k \in Nat /\ \A i \in 1..k : Matches(p, Full(r, i))
  BY FullProps, SharedLenIs
<1>1. p.alloc \subseteq Blocks /\ None \notin p.alloc  BY Facts, PoolAssumption
<1>2. \A i \in 1..k : /\ FindById(p, Full(r, i)) \in p.alloc
                      /\ p.id[FindById(p, Full(r, i))] = Full(r, i)
                      /\ span[FindById(p, Full(r, i))] = BlockSize
  BY <1>0, <1>1, Found DEF Matches
<1>3. c = [i \in 1..k |-> FindById(p, Full(r, i))]  BY DEF Shared
<1> HIDE DEF k, n
<1>4. c \in Seq(Blocks) /\ Len(c) = k /\ DOMAIN c = 1..k
  BY <1>0, <1>1, <1>2, <1>3
<1>5. \A i \in 1..k : c[i] \in p.alloc /\ p.id[c[i]] = Full(r, i) /\ span[c[i]] = BlockSize
  BY <1>2, <1>3
<1> HIDE DEF c
<1>6. Range(c) \subseteq p.alloc  BY <1>4, <1>5 DEF Range
<1>7. c = <<>> <=> k = 0  BY <1>4, RangeSeq
<1>8. ASSUME NEW i \in 1..k
      PROVE  /\ p.kv[c[i]] = Upto(r, i * BlockSize) /\ Len(p.kv[c[i]]) = i * BlockSize
             /\ p.kv[c[i]] # None /\ span[c[i]] = BlockSize
  <2>1. Sound(pool, span, c[i])  BY <1>5, Facts
  <2>2. p.kv[c[i]] = Full(r, i) /\ p.kv[c[i]] # None  BY <2>1, <1>5, SoundName
  <2>3. i \in 0..n  BY <1>0
  <2>4. Len(Full(r, i)) = i * BlockSize  BY <2>3, FullProps DEF n
  <2> QED  BY <2>2, <2>4, <1>5 DEF Full
<1>9. ASSUME NEW i \in 1..k
      PROVE  Len(p.kv[c[i]]) - span[c[i]] = IF i = 1 THEN 0 ELSE Len(p.kv[c[i - 1]])
  <2>0. BlockSize \in Nat  BY TextAssumption
  <2>1. (i - 1) * BlockSize = i * BlockSize - BlockSize  BY <1>0, <2>0, Multiples
  <2>2. CASE i = 1
    <3>1. 1 * BlockSize - BlockSize = 0  BY <2>0
    <3> QED  BY <2>2, <3>1, <1>8
  <2>3. CASE i # 1
    <3>1. i - 1 \in 1..k  BY <2>3, <1>0
    <3> QED  BY <2>1, <2>3, <3>1, <1>8
  <2> QED  BY <2>2, <2>3
<1>10. k * BlockSize = IF c = <<>> THEN 0 ELSE Len(p.kv[c[Len(c)]])
  <2>1. CASE k = 0
    <3>1. 0 * BlockSize = 0  BY TextAssumption
    <3> QED  BY <2>1, <3>1, <1>7
  <2>2. CASE k # 0
    <3>1. k \in 1..k  BY <2>2, <1>0
    <3> QED  BY <2>2, <3>1, <1>4, <1>7, <1>8
  <2> QED  BY <2>1, <2>2
<1>11. Reads(p, span, r, [ids |-> c, n |-> k * BlockSize])
  BY <1>4, <1>8, <1>9, <1>10 DEF Reads
<1> QED  BY <1>0, <1>4, <1>6, <1>7, <1>11 DEF c, k, n

(* The blocks of the prefix index for a prompt.                            *)
LEMMA IndexedReads ==
  ASSUME IInv, NEW r \in Requests, NEW p, p.kv = pool.kv, p.id = pool.id,
         p.alloc \subseteq pool.alloc, ~(BestLen(p, r) = 0)
  PROVE  LET c == index[Full(r, BestLen(p, r))]
             k == BestLen(p, r)
         IN  /\ c \in Seq(Blocks) /\ Range(c) \subseteq p.alloc /\ c # <<>>
             /\ k \in 1..(Asked[r] \div BlockSize)
             /\ Reads(p, span, r, [ids |-> c, n |-> k * BlockSize])
<1> DEFINE k == BestLen(p, r)
           h == Full(r, k)
           c == index[h]
           n == Asked[r] \div BlockSize
<1>0. n \in Nat /\ k \in 1..n /\ k \in 0..n /\ k # 0 /\ Servable(p, h)
  BY FullProps, BestLenIs
<1>1. /\ h \in Prefixes /\ Len(h) = k * BlockSize /\ k * BlockSize \in 0..Len(Text[r])
      /\ h = Upto(r, k * BlockSize)
  BY <1>0, FullProps DEF Full
<1> HIDE DEF k, h, n
<1>2. c # None /\ (\A b \in Range(c) : b \in p.alloc /\ p.kv[b] # None) /\ Chained(p, c, h)
  BY <1>0 DEF Servable
<1>3. c \in Seq(Blocks)  BY <1>1, <1>2, Facts
<1> HIDE DEF c
<1>4. /\ c # <<>> /\ p.id[c[Len(c)]] = h
      /\ \A i \in DOMAIN c : /\ IsPrefixOf(p.id[c[i]], h)
                             /\ Len(p.id[c[i]]) - span[c[i]] =
                                  IF i = 1 THEN 0 ELSE Len(p.id[c[i - 1]])
  BY <1>2 DEF Chained, Continues
<1>5. DOMAIN c = 1..Len(c) /\ Len(c) \in Nat \ {0} /\ Range(c) \subseteq p.alloc
      /\ \A i \in 1..Len(c) : c[i] \in Range(c)
  BY <1>2, <1>3, <1>4, RangeSeq
<1>6. ASSUME NEW i \in 1..Len(c)
      PROVE  /\ p.kv[c[i]] = p.id[c[i]] /\ p.kv[c[i]] # None
             /\ p.kv[c[i]] = Upto(r, Len(p.kv[c[i]]))
  <2>1. Sound(pool, span, c[i])  BY <1>5, Facts
  <2>2. p.kv[c[i]] = p.id[c[i]] /\ p.kv[c[i]] # None /\ Len(p.kv[c[i]]) \in Nat
    BY <2>1, SoundName
  <2>3. IsPrefixOf(p.kv[c[i]], h)  BY <1>4, <1>5, <2>2
  <2>4. Len(p.kv[c[i]]) \in 0..(k * BlockSize) /\ p.kv[c[i]] = SubSeq(h, 1, Len(p.kv[c[i]]))
    BY <2>2, <2>3, <1>1 DEF IsPrefixOf
  <2>5. SubSeq(Upto(r, k * BlockSize), 1, Len(p.kv[c[i]])) = Upto(r, Len(p.kv[c[i]]))
    BY <2>4, <1>1, UptoProps
  <2> QED  BY <2>2, <2>4, <2>5, <1>1
<1>7. ASSUME NEW i \in 1..Len(c)
      PROVE  Len(p.kv[c[i]]) - span[c[i]] = IF i = 1 THEN 0 ELSE Len(p.kv[c[i - 1]])
  <2>1. CASE i = 1  BY <2>1, <1>4, <1>5, <1>6
  <2>2. CASE i # 1
    <3>1. i - 1 \in 1..Len(c)  BY <2>2
    <3> QED  BY <2>2, <3>1, <1>4, <1>5, <1>6
  <2> QED  BY <2>1, <2>2
<1>8. k * BlockSize = Len(p.kv[c[Len(c)]])
  <2>1. Len(c) \in 1..Len(c)  BY <1>5
  <2> QED  BY <2>1, <1>1, <1>4, <1>6
<1>9. Reads(p, span, r, [ids |-> c, n |-> k * BlockSize])
  BY <1>4, <1>5, <1>6, <1>7, <1>8 DEF Reads
<1> QED  BY <1>0, <1>3, <1>4, <1>5, <1>9 DEF c, k, h, n

(* What a fetch may hold: blocks in use with the KV of the prompt.         *)
LEMMA CandidateReads ==
  ASSUME IInv, NEW r \in Requests, NEW p, p.kv = pool.kv, p.id = pool.id,
         p.alloc \subseteq pool.alloc, Candidate(p, r) # <<>>
  PROVE  LET t == [ids |-> Candidate(p, r), n |-> Covered(p, r)]
         IN  /\ t \in Table /\ t.n <= Len(Text[r]) /\ Aligned(t.n)
             /\ Range(t.ids) \subseteq p.alloc
             /\ Reads(p, span, r, t)
<1>1. \A k \in 0..(Asked[r] \div BlockSize) :
        k * BlockSize \in Nat /\ k * BlockSize <= Len(Text[r]) /\ Aligned(k * BlockSize)
  BY FullProps, UptoProps
<1>2. SharedLen(p, r) \in Nat  BY SharedLenIs, FullProps
<1>3. CASE SharedLen(p, r) > 0
  <2>1. Candidate(p, r) = Shared(p, r) /\ Covered(p, r) = SharedLen(p, r) * BlockSize
    BY <1>3 DEF Candidate, Covered
  <2>2. /\ Shared(p, r) \in Seq(Blocks) /\ Range(Shared(p, r)) \subseteq p.alloc
        /\ SharedLen(p, r) \in 0..(Asked[r] \div BlockSize)
        /\ Reads(p, span, r, [ids |-> Shared(p, r), n |-> SharedLen(p, r) * BlockSize])
    BY SharedReads
  <2> HIDE DEF Reads
  <2> QED  BY <2>1, <2>2, <1>1 DEF Table
<1>4. CASE ~(SharedLen(p, r) > 0)
  <2>1. Candidate(p, r) = Indexed(p, r) /\ Covered(p, r) = BestLen(p, r) * BlockSize
    BY <1>4 DEF Candidate, Covered
  <2>2. BestLen(p, r) > 0 /\ ~(BestLen(p, r) = 0)
        /\ Indexed(p, r) = index[Full(r, BestLen(p, r))]
    BY <2>1 DEF Indexed
  <2>3. /\ Indexed(p, r) \in Seq(Blocks) /\ Range(Indexed(p, r)) \subseteq p.alloc
        /\ BestLen(p, r) \in 1..(Asked[r] \div BlockSize)
        /\ Reads(p, span, r, [ids |-> Indexed(p, r), n |-> BestLen(p, r) * BlockSize])
    BY <2>2, IndexedReads
  <2>4. BestLen(p, r) \in 0..(Asked[r] \div BlockSize)  BY <2>3
  <2> HIDE DEF Reads
  <2> QED  BY <2>1, <2>3, <2>4, <1>1 DEF Table
<1> QED  BY <1>3, <1>4

-----------------------------------------------------------------------------
(* One lemma for each operation.                                           *)
LEMMA InitHolds == Init => IInv
<1> SUFFICES ASSUME Init  PROVE IInv
  OBVIOUS
<1>1. IsFiniteSet(Blocks) /\ Cardinality(Blocks) \in Nat /\ Cardinality({}) = 0
  BY PoolAssumption, FS_CardinalityType, FS_EmptySet
<1>2. EmptyPool \in Pool  BY <1>1 DEF EmptyPool, Pool
<1>3. BlockSize \in Nat /\ <<>> \in Seq(Requests)  BY TextAssumption
<1>4. TypeOK  BY <1>2, <1>3 DEF Init, TypeOK
<1>5. \A b \in Blocks : Holders(b) = {}  BY DEF Init, Holders, Held
<1>6. References
  <2>1. /\ pool.free = Blocks /\ pool.alloc = {} /\ pool.num = Cardinality(Blocks)
        /\ \A b \in Blocks : pool.ref[b] = 0
    BY DEF Init, EmptyPool
  <2>2. AccountsFor(pool, {})  BY <2>1, <1>1 DEF AccountsFor
  <2> QED  BY <2>1, <2>2, <1>1, <1>5 DEF References
<1>7. Range(entries) = {} /\ Once(entries) /\ live = {} /\ storing = None
  <2>1. entries = <<>> /\ live = {} /\ storing = None  BY DEF Init
  <2>2. DOMAIN <<>> = {}  OBVIOUS
  <2> QED  BY <2>1, <2>2 DEF Once, Range
<1>8. Owners  BY <1>7 DEF Init, Owners, TablesHaveOwners
<1>9. TablesHoldTheirText /\ BlocksAreSound
  BY DEF Init, TablesHoldTheirText, BlocksAreSound, EmptyPool
<1> QED  BY <1>4, <1>6, <1>8, <1>9 DEF IInv

LEMMA FetchKeeps ==
  ASSUME IInv, NEW r \in Requests, Fetch(r)
  PROVE  IInv'
<1> DEFINE p == Released(pool, r)
           c == Candidate(p, r)
           usable == c # <<>> /\ \A b \in Range(c) : p.kv[b] # None
           q == Pruned(p, Probed(p, r))
           t == IF usable THEN [ids |-> c, n |-> Covered(p, r)] ELSE None
           C == IF t = None THEN {} ELSE Range(t.ids)
<1>0. /\ pool \in Pool /\ entries \in Seq(Requests) /\ live \subseteq Requests
      /\ tables \in [Requests -> Table \cup {None}] /\ Placed(pool, pool)
  BY Facts DEF Placed
<1>1. /\ p \in Pool /\ AccountsFor(p, {}) /\ p.alloc \subseteq pool.alloc
      /\ p.kv = pool.kv /\ p.id = pool.id /\ p.idMap = pool.idMap
  BY <1>0, ReleaseHeld
<1>2. /\ storing = None /\ r \notin live /\ storing' = storing
      /\ pool' = (IF usable THEN Retain(q, Range(c)) ELSE q)
      /\ tables' = [tables EXCEPT ![r] = t]
      /\ entries' = Without(entries, r) /\ live' = live \cup {r}
      /\ span' = span /\ index' = index
  BY DEF Fetch
<1> HIDE DEF p
<1>3. /\ q \in Pool /\ q.alloc = p.alloc /\ q.ref = p.ref /\ q.free = p.free /\ q.num = p.num
      /\ q.kv = p.kv /\ q.id = p.id
      /\ \A b \in p.alloc : p.id[b] \in Prefixes /\ p.idMap[p.id[b]] = b
                                => q.idMap[p.id[b]] = b
  BY <1>1, PrunedKeeps
<1>4. AccountsFor(q, {})  BY <1>1, <1>3 DEF AccountsFor
<1> HIDE DEF q, c
<1>5. ASSUME usable
      PROVE  /\ t \in Table /\ t # None /\ t.n <= Len(Text[r]) /\ Aligned(t.n)
             /\ t.ids = c /\ C = Range(c) /\ C \subseteq p.alloc
             /\ Reads(pool, span, r, t)
  <2>1. t = [ids |-> c, n |-> Covered(p, r)]  BY <1>5
  <2>2. /\ t \in Table /\ t.n <= Len(Text[r]) /\ Aligned(t.n)
        /\ Range(t.ids) \subseteq p.alloc /\ Reads(p, span, r, t)
    BY <1>1, <1>5, <2>1, CandidateReads DEF c
  <2>3. t # None  BY <2>2, NoTableAssumption DEF Table
  <2> HIDE DEF t
  <2>4. t.ids = c  BY <2>1
  <2>5. Reads(pool, span, r, t)  BY <2>2, <1>1 DEF Reads
  <2> QED  BY <2>2, <2>3, <2>4, <2>5
<1>6. /\ ~usable => t = None /\ C = {}
      /\ C = IF t = None THEN {} ELSE Range(t.ids)
  OBVIOUS
<1> HIDE DEF C, t, usable
<1>7. t = None \/ (t \in Table /\ t.n <= Len(Text[r]) /\ Reads(pool, span, r, t) /\ Aligned(t.n))
  BY <1>5, <1>6
<1>8. C \subseteq p.alloc /\ (usable => C = Range(c))  BY <1>5, <1>6
<1>9. /\ pool' \in Pool /\ AccountsFor(pool', {}) /\ pool'.alloc = p.alloc
      /\ pool'.kv = pool.kv /\ pool'.id = pool.id /\ pool'.idMap = q.idMap
      /\ \A b \in Blocks : pool'.ref[b] = p.ref[b] + Bit(b \in C)
  <2>1. CASE usable
    <3>1. pool' = Retain(q, Range(c)) /\ Range(c) \in SUBSET q.alloc /\ C = Range(c)
      BY <2>1, <1>2, <1>3, <1>8
    <3> QED  BY <3>1, <1>1, <1>3, <1>4, RetainRefs
  <2>2. CASE ~usable
    <3>1. pool' = q /\ C = {}  BY <2>2, <1>2, <1>6
    <3>2. \A b \in Blocks : q.ref[b] = p.ref[b] + Bit(b \in C) /\ q.ref[b] = p.ref[b]
      BY <3>1, <1>3 DEF Bit, Pool
    <3> QED  BY <3>1, <3>2, <1>1, <1>3, <1>4
  <2> QED  BY <2>1, <2>2
<1>13. /\ References' /\ TablesHoldTheirText' /\ BlocksAreSound'
       /\ tables' \in [Requests -> Table \cup {None}]
       /\ \A s \in Requests : tables'[s] # None => tables'[s].n <= Len(Text[s])
  <2>1. Held(r)' = C  BY <1>2, <1>6, HoldersStep
  <2>2. \A b \in pool'.alloc : pool.id[b] \in Prefixes /\ pool.idMap[pool.id[b]] = b
                                  => pool'.idMap[pool.id[b]] = b
    BY <1>1, <1>3, <1>9
  <2>3. t = None \/ (t \in Table /\ t.n <= Len(Text[r]) /\ Reads(pool, span, r, t))  BY <1>7
  <2>4. /\ Held(r)' \subseteq Released(pool, r).alloc /\ pool'.alloc = Released(pool, r).alloc
        /\ \A b \in Blocks : pool'.ref[b] = Released(pool, r).ref[b] + Bit(b \in Held(r)')
    BY <2>1, <1>8, <1>9 DEF p
  <2> QED  BY <2>2, <2>3, <2>4, <1>2, <1>9, Swap
<1>14. /\ entries' \in Seq(Requests) /\ Once(entries') /\ Range(entries') = Range(entries) \ {r}
  BY <1>0, <1>2, WithoutKeeps DEF IInv, Owners
<1>15. TypeOK'  BY <1>0, <1>2, <1>9, <1>13, <1>14 DEF IInv, TypeOK
<1>16. Owners'
  <2>0. \A s \in Requests : s # r => tables'[s] = tables[s]  BY <1>0, <1>2
  <2>1. TablesHaveOwners'  BY <2>0, <1>2, <1>14 DEF IInv, Owners, TablesHaveOwners
  <2>2. Range(entries') \cap live' = {}  BY <1>2, <1>14 DEF IInv, Owners
  <2>3. ASSUME NEW s \in live', tables'[s] # None  PROVE Aligned(tables'[s].n)
    <3>1. CASE s = r  BY <3>1, <2>3, <1>0, <1>2, <1>7
    <3>2. CASE s # r  BY <3>2, <2>0, <2>3, <1>0, <1>2 DEF IInv, Owners
    <3> QED  BY <3>1, <3>2
  <2> QED  BY <2>1, <2>2, <2>3, <1>2, <1>14 DEF Owners
<1> QED  BY <1>13, <1>15, <1>16 DEF IInv

LEMMA ReleaseCacheKeeps ==
  ASSUME IInv, NEW r \in Requests, ReleaseCache(r)
  PROVE  IInv'
<1>0. /\ pool \in Pool /\ entries \in Seq(Requests) /\ live \subseteq Requests
      /\ tables \in [Requests -> Table \cup {None}] /\ Placed(pool, pool)
  BY Facts DEF Placed
<1> DEFINE p == Released(pool, r)
<1>1. /\ p \in Pool /\ AccountsFor(p, {})
      /\ p.kv = pool.kv /\ p.id = pool.id /\ p.idMap = pool.idMap
      /\ \A b \in Blocks : p.ref[b] \in Nat
  BY <1>0, ReleaseHeld
<1> HIDE DEF p
<1>2. /\ storing = None /\ storing' = storing /\ pool' = p
      /\ tables' = [tables EXCEPT ![r] = None]
      /\ entries' = Without(entries, r) /\ live' = live \ {r}
      /\ span' = span /\ index' = index
  BY DEF ReleaseCache, p
<1>3. /\ References' /\ TablesHoldTheirText' /\ BlocksAreSound'
      /\ tables' \in [Requests -> Table \cup {None}]
      /\ \A s \in Requests : tables'[s] # None => tables'[s].n <= Len(Text[s])
  <2>1. Held(r)' = {}  BY <1>2, HoldersStep
  <2>2. \A b \in Blocks : pool'.ref[b] = Released(pool, r).ref[b] + Bit(b \in Held(r)')
    BY <2>1, <1>1, <1>2 DEF Bit, p
  <2>3. Held(r)' \subseteq Released(pool, r).alloc /\ pool'.alloc = Released(pool, r).alloc
    BY <2>1, <1>2 DEF p
  <2> QED  BY <2>2, <2>3, <1>1, <1>2, Swap
<1>4. /\ entries' \in Seq(Requests) /\ Once(entries') /\ Range(entries') = Range(entries) \ {r}
  BY <1>0, <1>2, WithoutKeeps DEF IInv, Owners
<1>5. TypeOK'  BY <1>0, <1>1, <1>2, <1>3, <1>4 DEF IInv, TypeOK
<1>6. Owners'
  <2>0. tables'[r] = None /\ \A s \in Requests : s # r => tables'[s] = tables[s]  BY <1>0, <1>2
  <2>1. TablesHaveOwners'  BY <2>0, <1>2, <1>4 DEF IInv, Owners, TablesHaveOwners
  <2> QED  BY <2>0, <2>1, <1>0, <1>2, <1>4 DEF IInv, Owners
<1> QED  BY <1>3, <1>5, <1>6 DEF IInv

(* Steps that leave blocks, references and tables alone.                   *)
LEMMA SamePool ==
  ASSUME IInv, pool' = pool, span' = span, tables' = tables
  PROVE  /\ References' /\ TablesHoldTheirText' /\ BlocksAreSound'
<1>1. \A b \in Blocks : Holders(b)' = Holders(b)  BY DEF Holders, Held
<1>2. References'  BY <1>1 DEF IInv, References
<1>3. TablesHoldTheirText'  BY DEF IInv, TablesHoldTheirText
<1>4. BlocksAreSound'  BY DEF IInv, BlocksAreSound, Sound
<1> QED  BY <1>2, <1>3, <1>4

(* Steps that leave the tables, their blocks and the references alone.     *)
LEMMA SamePlaces ==
  ASSUME IInv, Placed(pool, pool'), span' = span, tables' = tables,
         \A b \in pool.alloc : pool'.kv[b] = pool.kv[b] /\ Sound(pool', span, b)
  PROVE  References' /\ TablesHoldTheirText' /\ BlocksAreSound'
<1>1. \A b \in Blocks : Holders(b)' = Holders(b)  BY DEF Holders, Held
<1>2. References'  BY <1>1 DEF IInv, References, AccountsFor, Placed
<1>3. TablesHoldTheirText'
  <2> SUFFICES ASSUME NEW r \in Requests, tables[r] # None
               PROVE  Reads(pool', span', r, tables[r])
    BY DEF TablesHoldTheirText, Reads
  <2>1. tables[r].ids \in Seq(Blocks) /\ Reads(pool, span, r, tables[r])
        /\ Range(tables[r].ids) \subseteq pool.alloc
    BY TableFacts, HeldAllocated
  <2>2. \A b \in Range(tables[r].ids) : pool'.kv[b] = pool.kv[b] /\ span'[b] = span[b]
    BY <2>1
  <2> QED  BY <2>1, <2>2, ReadsMoves
<1>4. BlocksAreSound'  BY DEF BlocksAreSound, Placed
<1> QED  BY <1>2, <1>3, <1>4

LEMMA PrunedSound ==
  ASSUME IInv, NEW H, NEW q, q.kv = pool.kv, q.id = pool.id, q.idMap = Pruned(pool, H).idMap,
         NEW b \in pool.alloc
  PROVE  Sound(q, span, b)
<1>1. pool \in Pool /\ Sound(pool, span, b)  BY Facts
<1>2. pool.id[b] \in Prefixes  BY <1>1, SoundName
<1>3. pool.idMap[pool.id[b]] = b => q.idMap[pool.id[b]] = b  BY <1>1, <1>2, PrunedKeeps
<1>4. span[b] = BlockSize => q.idMap[pool.id[b]] = b  BY <1>1, <1>3 DEF Sound
<1> QED  BY <1>1, <1>4, SoundMoves

LEMMA StoreStartKeeps ==
  ASSUME IInv, NEW r \in Requests, StoreStart(r)
  PROVE  IInv'
<1> DEFINE e == [ids |-> <<>>, n |-> 0]
           t == IF tables[r] = None THEN e ELSE tables[r]
<1>0. /\ pool \in Pool /\ AccountsFor(pool, {}) /\ live \subseteq Requests
      /\ tables \in [Requests -> Table \cup {None}]
      /\ Len(Text[r]) \in Nat /\ Len(Text[r]) >= 1
  BY Facts, UptoProps
<1>1. /\ storing = None /\ r \in live
      /\ tables' = [tables EXCEPT ![r] = t]
      /\ pool' = pool /\ span' = span /\ entries' = entries /\ index' = index /\ live' = live
  BY DEF StoreStart
<1>2. PICK u \in {Len(Text[r]) - 1, Len(Text[r])} : storing' = [id |-> r, upto |-> u]
  BY DEF StoreStart
<1>3. storing'.id = r /\ storing'.upto \in 0..Len(Text[r])  BY <1>0, <1>2
<1>4. e \in Table /\ e.ids = <<>> /\ e.n = 0  BY DEF Table
<1>5. e # None  BY <1>4, NoTableAssumption DEF Table
<1> HIDE DEF e
<1>6. CASE tables[r] # None
  <2>1. tables' = tables  BY <1>0, <1>1, <1>6
  <2>2. References' /\ TablesHoldTheirText' /\ BlocksAreSound'  BY <1>1, <2>1, SamePool
  <2>3. TypeOK'  BY <1>1, <1>3, <2>1 DEF IInv, TypeOK
  <2>4. Owners'  BY <1>1, <1>3, <1>6, <2>1 DEF IInv, Owners, TablesHaveOwners
  <2> QED  BY <2>2, <2>3, <2>4 DEF IInv
<1>7. CASE tables[r] = None
  <2>1. tables' = [tables EXCEPT ![r] = e]  BY <1>1, <1>7
  <2>2. Range(<<>>) = {}
    <3>1. DOMAIN <<>> = {}  OBVIOUS
    <3> QED  BY <3>1 DEF Range
  <2>3. Held(r) = {} /\ Held(r)' = {}  BY <2>1, <2>2, <1>4, <1>5, <1>7, HoldersStep DEF Held
  <2>4. e \in Table /\ e.n <= Len(Text[r])  BY <1>0, <1>4
  <2>5. \A b \in Blocks :
          /\ pool'.ref[b] + Bit(b \in Held(r)) = pool.ref[b] + Bit(b \in Held(r)')
          /\ pool'.ref[b] \in Nat
          /\ (b \in pool'.alloc) <=> (pool'.ref[b] > 0)
    BY <1>1, <2>3, BlockState DEF Bit
  <2>6. /\ References' /\ tables' \in [Requests -> Table \cup {None}]
        /\ \A q \in Requests : tables'[q] # None => tables'[q].n <= Len(Text[q])
    BY <1>0, <1>1, <2>1, <2>4, <2>5, TableStep
  <2>7. Reads(pool', span', r, e)
    <3>1. DOMAIN <<>> = {}  OBVIOUS
    <3> QED  BY <1>4, <3>1 DEF Reads
  <2>8. TablesHoldTheirText'  BY <1>1, <2>1, <2>7, TextsStep
  <2>9. BlocksAreSound'  BY <1>1 DEF IInv, BlocksAreSound, Sound
  <2>10. TypeOK'  BY <1>1, <1>3, <2>6 DEF IInv, TypeOK
  <2>11. tables'[r] = e /\ \A s \in Requests : s # r => tables'[s] = tables[s]
    BY <1>0, <2>1
  <2>12. Owners'
    BY <1>0, <1>1, <1>3, <1>4, <1>5, <1>7, <2>11, Boundaries DEF IInv, Owners, TablesHaveOwners
  <2> QED  BY <2>6, <2>8, <2>9, <2>10, <2>12 DEF IInv
<1> QED  BY <1>6, <1>7

(* The store under way.                                                    *)
LEMMA StoreFacts ==
  ASSUME IInv, storing # None
  PROVE  LET r == storing.id
         IN  /\ r \in live /\ r \in Requests /\ tables[r] # None
             /\ tables[r] \in Table /\ tables[r].n \in Nat
             /\ storing.upto \in Nat /\ storing.upto <= Len(Text[r])
             /\ r \notin Range(entries)
             /\ More => /\ Aligned(tables[r].n) /\ Size \in 1..BlockSize
                        /\ tables[r].n + Size \in 1..Len(Text[r])
                        /\ Identity = Upto(r, tables[r].n + Size)
                        /\ Identity \in Prefixes /\ Identity # None
                        /\ Len(Identity) = tables[r].n + Size
                        /\ \/ Aligned(tables[r].n + Size)
                           \/ tables[r].n + Size >= storing.upto
<1> DEFINE r == storing.id
           n == tables[r].n
           u == storing.upto
<1>1. r \in live /\ r \in Requests /\ u \in 0..Len(Text[r]) /\ tables[r] # None
      /\ r \notin Range(entries)
  BY Facts DEF IInv, TypeOK, Owners
<1>2. tables[r] \in Table /\ n \in Nat  BY <1>1, TableFacts DEF Table
<1>3. Len(Text[r]) \in Nat /\ BlockSize \in Nat \ {0}  BY <1>1, UptoProps, TextAssumption
<1>4. ASSUME More
      PROVE  /\ Aligned(n) /\ Size \in 1..BlockSize /\ n + Size \in 1..Len(Text[r])
             /\ Identity = Upto(r, n + Size)
             /\ (Aligned(n + Size) \/ n + Size >= u)
  <2>1. n < u  BY <1>4 DEF More
  <2>2. Aligned(n)  BY <1>1, <1>2, <2>1 DEF IInv, Owners
  <2>3. Size = IF u - n < BlockSize THEN u - n ELSE BlockSize  BY DEF Size
  <2>4. Size \in 1..BlockSize /\ n + Size \in 1..Len(Text[r])
    BY <1>1, <1>2, <1>3, <2>1, <2>3
  <2>5. Aligned(n + Size) \/ n + Size >= u
    <3>1. CASE u - n < BlockSize  BY <3>1, <1>1, <1>2, <1>3, <2>3
    <3>2. CASE ~(u - n < BlockSize)  BY <3>2, <2>2, <2>3, Boundaries
    <3> QED  BY <3>1, <3>2
  <2>6. Identity = Upto(r, n + Size)  BY DEF Identity
  <2> QED  BY <2>2, <2>4, <2>5, <2>6
<1>5. ASSUME More
      PROVE  Identity \in Prefixes /\ Identity # None /\ Len(Identity) = n + Size
  <2>1. n + Size \in 0..Len(Text[r]) /\ n + Size # 0  BY <1>3, <1>4, <1>5
  <2> QED  BY <2>1, <1>1, <1>4, <1>5, UptoProps
<1> QED  BY <1>1, <1>2, <1>3, <1>4, <1>5

(* A table that takes one more block of its text.                          *)
LEMMA GrowReads ==
  ASSUME NEW p, NEW sp, NEW r \in Requests, NEW t, t.ids \in Seq(Blocks), t.n \in Nat,
         Reads(p, sp, r, t), NEW b \in Blocks, NEW z \in Nat \ {0},
         t.n + z <= Len(Text[r]), p.kv[b] = Upto(r, t.n + z), sp[b] = z
  PROVE  Reads(p, sp, r, [ids |-> Append(t.ids, b), n |-> t.n + z])
<1> DEFINE s == t.ids
           a == Append(s, b)
<1>0. Len(Text[r]) \in Nat  BY UptoProps
<1>1. t.n + z \in 0..Len(Text[r]) /\ t.n + z # 0  BY <1>0
<1>2. Len(p.kv[b]) = t.n + z /\ p.kv[b] # None  BY <1>1, UptoProps
<1>3. /\ a \in Seq(Blocks) /\ a # <<>> /\ Len(a) = Len(s) + 1
      /\ \A i \in 1..Len(s) : a[i] = s[i]
      /\ a[Len(s) + 1] = b
  BY AppendSeq
<1> HIDE DEF a
<1>4. DOMAIN a = 1..(Len(s) + 1) /\ DOMAIN s = 1..Len(s) /\ Len(s) \in Nat
      /\ (s = <<>> <=> Len(s) = 0)
  BY <1>3, RangeSeq
<1>5. ASSUME NEW i \in 1..(Len(s) + 1)
      PROVE  /\ p.kv[a[i]] # None /\ p.kv[a[i]] = Upto(r, Len(p.kv[a[i]]))
             /\ Len(p.kv[a[i]]) - sp[a[i]] = IF i = 1 THEN 0 ELSE Len(p.kv[a[i - 1]])
  <2>1. CASE i \in 1..Len(s)
    <3>1. a[i] = s[i] /\ (i # 1 => i - 1 \in 1..Len(s) /\ a[i - 1] = s[i - 1])
      BY <2>1, <1>3, <1>4
    <3> QED  BY <2>1, <3>1, <1>4 DEF Reads
  <2>2. CASE i = Len(s) + 1
    <3>1. a[i] = b  BY <2>2, <1>3
    <3>2. Len(p.kv[b]) - sp[b] = t.n  BY <1>2
    <3>3. CASE s = <<>>
      <4>1. t.n = 0 /\ i = 1  BY <3>3, <2>2, <1>4 DEF Reads
      <4> QED  BY <4>1, <3>1, <3>2, <1>2
    <3>4. CASE s # <<>>
      <4>1. t.n = Len(p.kv[s[Len(s)]])  BY <3>4 DEF Reads
      <4>2. i # 1 /\ i - 1 = Len(s) /\ a[i - 1] = s[Len(s)]  BY <3>4, <2>2, <1>3, <1>4
      <4> QED  BY <4>1, <4>2, <3>1, <3>2, <1>2
    <3> QED  BY <3>3, <3>4
  <2> QED  BY <2>1, <2>2, <1>4
<1>6. t.n + z = Len(p.kv[a[Len(a)]])  BY <1>2, <1>3
<1> QED  BY <1>3, <1>4, <1>5, <1>6 DEF Reads, a

(* The blocks of a table are in use and no longer than what it covers.     *)
LEMMA TableBlocks ==
  ASSUME IInv, NEW r \in Requests, tables[r] # None
  PROVE  LET s == tables[r].ids
         IN  /\ Len(s) \in Nat /\ DOMAIN s = 1..Len(s)
             /\ \A i \in 1..Len(s) :
                  /\ s[i] \in Held(r) /\ s[i] \in pool.alloc
                  /\ Len(pool.kv[s[i]]) \in Nat /\ span[s[i]] \in Nat \ {0}
                  /\ Len(pool.kv[s[i]]) <= tables[r].n
             /\ \A i, j \in 1..Len(s) : i < j => Len(pool.kv[s[i]]) < Len(pool.kv[s[j]])
             /\ \A b \in Held(r) : \E i \in 1..Len(s) : b = s[i]
<1> DEFINE s == tables[r].ids
<1>1. /\ s \in Seq(Blocks) /\ Held(r) = Range(s) /\ Reads(pool, span, r, tables[r])
  BY TableFacts
<1>2. /\ Len(s) \in Nat /\ DOMAIN s = 1..Len(s)
      /\ \A i \in 1..Len(s) : s[i] \in Held(r)
      /\ \A b \in Held(r) : \E i \in 1..Len(s) : b = s[i]
  BY <1>1, RangeSeq
<1>3. \A i \in 1..Len(s) : s[i] \in pool.alloc /\ Len(pool.kv[s[i]]) \in Nat
                           /\ span[s[i]] \in Nat \ {0}
  <2> SUFFICES ASSUME NEW i \in 1..Len(s)
               PROVE  s[i] \in pool.alloc /\ Len(pool.kv[s[i]]) \in Nat
                      /\ span[s[i]] \in Nat \ {0}
    OBVIOUS
  <2>1. s[i] \in pool.alloc  BY <1>2, HeldAllocated
  <2>2. Sound(pool, span, s[i])  BY <2>1, Facts
  <2> QED  BY <2>1, <2>2, SoundName
<1>4. /\ \A i, j \in 1..Len(s) : i < j => Len(pool.kv[s[i]]) < Len(pool.kv[s[j]])
      /\ \A i \in 1..Len(s) : Len(pool.kv[s[i]]) <= tables[r].n
  BY <1>1, <1>3, Ascending
<1> QED  BY <1>2, <1>3, <1>4

(* The store under way lists one more block.                               *)
LEMMA Grown ==
  ASSUME IInv, More, NEW b \in Blocks, tables' = WithBlock(b),
         entries' = entries, live' = live, storing' = storing
  PROVE  LET r == storing.id
             t == [ids |-> Append(tables[r].ids, b), n |-> tables[r].n + Size]
         IN  /\ tables' = [tables EXCEPT ![r] = t]
             /\ t \in Table /\ t # None /\ t.n <= Len(Text[r])
             /\ Range(t.ids) = Held(r) \cup {b}
             /\ Owners'
<1> DEFINE r == storing.id
           t == [ids |-> Append(tables[r].ids, b), n |-> tables[r].n + Size]
<1>0. storing # None  BY DEF More
<1>1. /\ r \in live /\ r \in Requests /\ tables[r] # None
      /\ tables[r] \in Table /\ tables[r].n \in Nat
      /\ storing.upto \in Nat
      /\ Size \in 1..BlockSize /\ tables[r].n + Size \in 1..Len(Text[r])
      /\ (Aligned(tables[r].n + Size) \/ tables[r].n + Size >= storing.upto)
  BY <1>0, StoreFacts
<1>2. tables[r].ids \in Seq(Blocks) /\ Held(r) = Range(tables[r].ids)
      /\ tables \in [Requests -> Table \cup {None}] /\ Len(Text[r]) \in Nat
      /\ BlockSize \in Nat
  BY <1>1, TableFacts, Facts, UptoProps, TextAssumption
<1>3. Append(tables[r].ids, b) \in Seq(Blocks)
      /\ Range(Append(tables[r].ids, b)) = Held(r) \cup {b}
  BY <1>2, AppendSeq
<1>4. t \in Table /\ t.n <= Len(Text[r]) /\ t.n = tables[r].n + Size
  BY <1>1, <1>2, <1>3 DEF Table
<1>5. t # None  BY <1>4, NoTableAssumption DEF Table
<1>6. tables' = [tables EXCEPT ![r] = t]  BY <1>1, <1>2 DEF WithBlock
<1>7. Range(t.ids) = Held(r) \cup {b}  BY <1>3
<1> HIDE DEF t
<1>8. tables'[r] = t /\ \A s \in Requests : s # r => tables'[s] = tables[s]
  BY <1>1, <1>2, <1>6
<1>9. Owners'
  <2>1. TablesHaveOwners'
    BY <1>1, <1>5, <1>8 DEF IInv, Owners, TablesHaveOwners
  <2>2. storing' # None => tables'[storing'.id] # None  BY <1>5, <1>8
  <2>3. ASSUME NEW s \in live', tables'[s] # None
        PROVE  Aligned(tables'[s].n)
               \/ (storing' # None /\ storing'.id = s /\ tables'[s].n >= storing'.upto)
    <3>1. CASE s = r  BY <3>1, <1>0, <1>1, <1>4, <1>8
    <3>2. CASE s # r
      <4>1. s \in Requests /\ s \in live /\ tables'[s] = tables[s]  BY <3>2, <2>3, <1>8, Facts
      <4> QED  BY <4>1, <2>3 DEF IInv, Owners
    <3> QED  BY <3>1, <3>2
  <2> QED  BY <2>1, <2>2, <2>3 DEF IInv, Owners
<1> QED  BY <1>4, <1>5, <1>6, <1>7, <1>9 DEF t

LEMMA StoreSharedKeeps ==
  ASSUME IInv, StoreShared, NEW r \in Requests, storing.id = r
  PROVE  IInv'
<1> DEFINE n == tables[r].n
           b == FindById(pool, Identity)
           t == [ids |-> Append(tables[r].ids, b), n |-> n + Size]
<1>0. /\ More /\ Known /\ storing # None /\ Size = BlockSize /\ b # None
      /\ pool' = Retain(pool, {b}) /\ tables' = WithBlock(b)
      /\ span' = span /\ entries' = entries /\ index' = index
      /\ live' = live /\ storing' = storing
  BY DEF StoreShared, Known, More
<1>1. /\ pool \in Pool /\ AccountsFor(pool, {}) /\ pool.alloc \subseteq Blocks
      /\ None \notin pool.alloc
  BY Facts, PoolAssumption
<1>2. b \in pool.alloc /\ b \in Blocks /\ pool.id[b] = Identity  BY <1>0, <1>1, Found
<1>3. /\ r \in Requests /\ tables[r] # None /\ n \in Nat
      /\ Aligned(n) /\ n + Size \in 1..Len(Text[r])
      /\ Size \in 1..BlockSize
      /\ Identity = Upto(r, n + Size) /\ Len(Identity) = n + Size
  BY <1>0, StoreFacts
<1>4. Sound(pool, span, b)  BY <1>2, Facts
<1> HIDE DEF b
<1>5. pool.kv[b] = Upto(r, n + Size) /\ Len(pool.kv[b]) = n + Size
      /\ pool.id[b] \in Prefixes
  BY <1>2, <1>3, <1>4, SoundName
<1>6. span[b] = Size
  <2>1. Aligned(n + Size)  BY <1>0, <1>3, Boundaries
  <2>2. Aligned(Len(pool.kv[b]) - span[b]) /\ span[b] \in 1..BlockSize  BY <1>4 DEF Sound
  <2>3. Aligned((n + Size) - span[b])  BY <2>2, <1>5
  <2>4. span[b] = BlockSize
    <3>1. \A m, s : Aligned(m) /\ Aligned(m - s) /\ s \in 1..BlockSize => s = BlockSize
      BY Boundaries
    <3> HIDE DEF n
    <3> QED  BY <3>1, <2>1, <2>2, <2>3
  <2> QED  BY <2>4, <1>0
<1>7. b \notin Held(r)
  <2> SUFFICES ASSUME b \in Held(r)  PROVE FALSE
    OBVIOUS
  <2>1. PICK i \in 1..Len(tables[r].ids) : b = tables[r].ids[i]  BY <1>3, TableBlocks
  <2>2. Len(pool.kv[b]) <= n /\ Len(pool.kv[b]) \in Nat  BY <2>1, <1>3, TableBlocks
  <2>3. BlockSize \in Nat /\ BlockSize >= 1  BY TextAssumption
  <2> QED  BY <2>2, <2>3, <1>0, <1>3, <1>5
<1>8. /\ tables' = [tables EXCEPT ![r] = t]
      /\ t \in Table /\ t # None /\ t.n <= Len(Text[r])
      /\ Range(t.ids) = Held(r) \cup {b}
      /\ Owners'
  BY <1>0, <1>2, Grown
<1>9. /\ pool' \in Pool /\ AccountsFor(pool', {}) /\ pool'.alloc = pool.alloc
      /\ pool'.kv = pool.kv /\ pool'.id = pool.id /\ pool'.idMap = pool.idMap
      /\ \A c \in Blocks : pool'.ref[c] = pool.ref[c] + Bit(c \in {b})
  <2>1. {b} \in SUBSET pool.alloc  BY <1>2
  <2> QED  BY <2>1, <1>0, <1>1, RetainRefs
<1>10. Reads(pool', span', r, t)
  <2>1. /\ tables[r].ids \in Seq(Blocks) /\ tables[r].n \in Nat
        /\ Reads(pool, span, r, tables[r])
    BY <1>3, TableFacts
  <2>2. Reads(pool', span', r, tables[r])  BY <2>1, <1>0, <1>9 DEF Reads
  <2>3. Size \in Nat \ {0} /\ n + Size <= Len(Text[r])
    <3>1. BlockSize \in Nat \ {0}  BY TextAssumption
    <3> QED  BY <3>1, <1>0, <1>3
  <2>4. pool'.kv[b] = Upto(r, n + Size) /\ span'[b] = Size  BY <1>0, <1>5, <1>6, <1>9
  <2> HIDE DEF Reads
  <2> QED  BY <2>1, <2>2, <2>3, <2>4, <1>2, <1>3, GrowReads
<1> HIDE DEF t
<1>11. Held(r)' = Held(r) \cup {b}
  <2>1. Held(r)' = IF t = None THEN {} ELSE Range(t.ids)  BY <1>3, <1>8, HoldersStep
  <2> QED  BY <2>1, <1>8
<1>12. ASSUME NEW c \in Blocks
       PROVE  /\ pool'.ref[c] + Bit(c \in Held(r)) = pool.ref[c] + Bit(c \in Held(r)')
              /\ pool'.ref[c] \in Nat
              /\ (c \in pool'.alloc) <=> (pool'.ref[c] > 0)
  <2>1. pool.ref[c] \in Nat /\ ((c \in pool.alloc) <=> (pool.ref[c] > 0))  BY BlockState
  <2>2. CASE c = b
    <3>1. Bit(c \in Held(r)) = 0 /\ Bit(c \in Held(r)') = 1 /\ Bit(c \in {b}) = 1
      BY <2>2, <1>7, <1>11 DEF Bit
    <3> QED  BY <3>1, <2>1, <2>2, <1>2, <1>9
  <2>3. CASE c # b
    <3>1. (c \in Held(r)' <=> c \in Held(r)) /\ c \notin {b}  BY <2>3, <1>11
    <3>2. Bit(c \in Held(r)) = Bit(c \in Held(r)') /\ Bit(c \in {b}) = 0
          /\ Bit(c \in Held(r)) \in {0, 1}
      BY <3>1 DEF Bit
    <3> QED  BY <3>2, <2>1, <1>9
  <2> QED  BY <2>2, <2>3
<1>13. /\ References' /\ tables' \in [Requests -> Table \cup {None}]
       /\ \A q \in Requests : tables'[q] # None => tables'[q].n <= Len(Text[q])
  BY <1>3, <1>8, <1>9, <1>12, TableStep
<1>14. TablesHoldTheirText'
  <2>1. \A q \in Requests \ {r} : \A c \in Held(q) :
          pool'.kv[c] = pool.kv[c] /\ span'[c] = span[c]
    BY <1>0, <1>9
  <2> QED  BY <2>1, <1>3, <1>8, <1>10, TextsStep
<1>15. BlocksAreSound'
  <2> SUFFICES ASSUME NEW c \in pool.alloc  PROVE Sound(pool', span', c)
    BY <1>9 DEF BlocksAreSound
  <2>1. Sound(pool, span, c)  BY Facts
  <2> QED  BY <2>1, <1>0, <1>9 DEF Sound
<1>16. TypeOK'  BY <1>0, <1>9, <1>13 DEF IInv, TypeOK
<1> QED  BY <1>8, <1>13, <1>14, <1>15, <1>16 DEF IInv

(* A free block taken for new tokens: nobody holds it, and no block in use *)
(* is named for those tokens yet.                                          *)
LEMMA LookedIs ==
  ASSUME IInv
  PROVE  /\ Looked \in Pool /\ Placed(pool, Looked) /\ AccountsFor(Looked, {})
         /\ Looked.kv = pool.kv /\ Looked.id = pool.id /\ Looked.pinned = pool.pinned
         /\ \A b \in pool.alloc : Sound(Looked, span, b)
<1>0. pool \in Pool /\ AccountsFor(pool, {})  BY Facts
<1>1. CASE Size = BlockSize
  <2>1. Looked = Pruned(pool, {Identity})  BY <1>1 DEF Looked
  <2>2. /\ Looked \in Pool /\ Placed(pool, Looked)
        /\ Looked.kv = pool.kv /\ Looked.id = pool.id /\ Looked.pinned = pool.pinned
    BY <2>1, <1>0, PrunedKeeps DEF Placed
  <2>3. \A b \in pool.alloc : Sound(Looked, span, b)  BY <2>1, <2>2, PrunedSound
  <2>4. AccountsFor(Looked, {})  BY <2>2, <1>0 DEF Placed, AccountsFor
  <2> QED  BY <2>2, <2>3, <2>4
<1>2. CASE Size # BlockSize
  <2>1. Looked = pool  BY <1>2 DEF Looked
  <2> QED  BY <2>1, <1>0, Facts DEF Placed
<1> QED  BY <1>1, <1>2

LEMMA FilledIs ==
  ASSUME IInv, More, ~Known, NEW b \in Victims(pool), pool' = Filled(Claim(Looked, {b}), b),
         span' = [span EXCEPT ![b] = Size]
  PROVE  /\ b \in Blocks /\ b \notin pool.alloc /\ pool.ref[b] = 0
         /\ pool' \in Pool /\ AccountsFor(pool', {}) /\ pool'.alloc = pool.alloc \cup {b}
         /\ pool'.ref = [d \in Blocks |-> IF d \in {b} THEN 1 ELSE pool.ref[d]]
         /\ pool'.kv[b] = Identity /\ span'[b] = Size
         /\ span' \in [Blocks -> 0..BlockSize]
         /\ \A d \in pool.alloc : pool'.kv[d] = pool.kv[d] /\ span'[d] = span[d]
         /\ BlocksAreSound'
<1> DEFINE p == Looked
           E == {d \in {b} : Evictable(p, d)}
           e == ForgetAll(p, E)
           c == Claim(p, {b})
           q == Filled(c, b)
<1>0. /\ storing # None /\ storing.id \in Requests
      /\ Aligned(tables[storing.id].n) /\ tables[storing.id].n \in Nat
      /\ Size \in 1..BlockSize /\ tables[storing.id].n + Size \in 1..Len(Text[storing.id])
      /\ Identity = Upto(storing.id, tables[storing.id].n + Size)
      /\ Identity \in Prefixes /\ Len(Identity) = tables[storing.id].n + Size
  BY StoreFacts DEF More
<1>1. /\ p \in Pool /\ Placed(pool, p) /\ AccountsFor(p, {})
      /\ p.kv = pool.kv /\ p.id = pool.id
      /\ \A d \in pool.alloc : Sound(p, span, d)
  BY LookedIs
<1>2. /\ b \in Blocks /\ b \in pool.free /\ pool.free \subseteq Blocks
      /\ span \in [Blocks -> 0..BlockSize] /\ pool.alloc \subseteq Blocks
  BY Facts DEF Victims
<1>3. pool.ref[b] = 0 /\ b \notin pool.alloc  BY <1>2, BlockState
<1> HIDE DEF p
<1>4. /\ c \in Pool /\ AccountsFor(c, {}) /\ c.alloc = pool.alloc \cup {b}
      /\ c.ref = [d \in Blocks |-> IF d \in {b} THEN 1 ELSE pool.ref[d]]
  <2>1. {b} \in SUBSET p.free /\ {} \in SUBSET Blocks  BY <1>1, <1>2 DEF Placed
  <2>2. c \in Pool /\ AccountsFor(c, {}) /\ c.alloc = p.alloc \cup {b}
        /\ c.ref = [d \in Blocks |-> IF d \in {b} THEN 1 ELSE p.ref[d]]
    BY <2>1, <1>1, ClaimKeeps
  <2> QED  BY <2>2, <1>1 DEF Placed
<1>5. c.kv = e.kv /\ c.id = e.id /\ c.idMap = e.idMap  BY DEF Claim, EvictCached, ForgetAll
<1>6. E \subseteq {b}  OBVIOUS
<1> HIDE DEF E
<1>7. ASSUME NEW d \in pool.alloc
      PROVE  c.kv[d] = pool.kv[d] /\ Sound(c, span, d) /\ d \in Blocks /\ d # b
  <2>1. d \in Blocks \ E /\ d # b  BY <1>2, <1>3, <1>6
  <2>2. Sound(e, span, d)  BY <2>1, <1>1, ForgetSound
  <2>3. e.kv[d] = p.kv[d]  BY <2>1, <1>1 DEF ForgetAll
  <2> HIDE DEF c, e
  <2>4. Sound(c, span, d)  BY <2>2, <1>5 DEF Sound
  <2> QED  BY <2>1, <2>3, <2>4, <1>1, <1>5
<1> HIDE DEF c
<1>8. /\ q \in Pool /\ AccountsFor(q, {}) /\ q.alloc = c.alloc /\ q.ref = c.ref
      /\ q.kv = [c.kv EXCEPT ![b] = Identity] /\ q.id = [c.id EXCEPT ![b] = Identity]
      /\ q.idMap = IF Size = BlockSize THEN [c.idMap EXCEPT ![Identity] = b] ELSE c.idMap
      /\ c.kv \in [Blocks -> Prefixes \cup {None}] /\ c.id \in [Blocks -> Prefixes \cup {None}]
      /\ c.idMap \in [Prefixes -> Blocks \cup {None}]
  BY <1>0, <1>2, <1>4 DEF Filled, Pool, AccountsFor
<1>9. pool' = q  BY DEF p, c
<1> HIDE DEF q
<1>10. /\ span' \in [Blocks -> 0..BlockSize] /\ span'[b] = Size
       /\ \A d \in Blocks : d # b => span'[d] = span[d]
  <2>1. Size \in 0..BlockSize  BY <1>0
  <2> QED  BY <2>1, <1>2
<1>11. ASSUME NEW d \in pool.alloc
       PROVE  q.kv[d] = pool.kv[d] /\ span'[d] = span[d] /\ Sound(q, span', d)
  <2>1. d \in Blocks /\ d # b /\ c.kv[d] = pool.kv[d] /\ Sound(c, span, d)  BY <1>7
  <2>2. q.kv[d] = c.kv[d] /\ q.id[d] = c.id[d] /\ span'[d] = span[d]
    BY <2>1, <1>8, <1>10
  <2>3. c.id[d] = pool.id[d] /\ c.id[d] \in Prefixes
    <3>1. Sound(pool, span, d)  BY Facts
    <3> QED  BY <3>1, <2>1, SoundName
  <2>4. Size = BlockSize /\ span[d] = BlockSize => c.id[d] # Identity
    <3> SUFFICES ASSUME Size = BlockSize, span[d] = BlockSize, pool.id[d] = Identity
                 PROVE  FALSE
      BY <2>3
    <3>1. pool.idMap[Identity] = d  BY Facts DEF Sound
    <3>2. FindById(pool, Identity) = d  BY <3>1 DEF FindById
    <3>3. d # None  BY <2>1, PoolAssumption
    <3> QED  BY <3>2, <3>3 DEF Known
  <2>5. span[d] = BlockSize => q.idMap[c.id[d]] = d
    <3>1. span[d] = BlockSize => c.idMap[c.id[d]] = d  BY <2>1 DEF Sound
    <3> QED  BY <3>1, <2>3, <2>4, <1>8
  <2> QED  BY <2>1, <2>2, <2>5, SoundMoves
<1>12. q.kv[b] = Identity /\ Sound(q, span', b)
  <2>1. q.kv[b] = Identity /\ q.id[b] = Identity  BY <1>2, <1>8
  <2>2. Size = BlockSize => q.idMap[Identity] = b  BY <1>0, <1>8
  <2>3. (tables[storing.id].n + Size) - Size = tables[storing.id].n  BY <1>0
  <2>4. Aligned(Len(q.kv[b]) - span'[b])  BY <2>1, <2>3, <1>0, <1>10
  <2> QED  BY <2>1, <2>2, <2>4, <1>0, <1>10 DEF Sound
<1>13. BlocksAreSound'
  <2> SUFFICES ASSUME NEW d \in q.alloc  PROVE Sound(q, span', d)
    BY <1>9 DEF BlocksAreSound
  <2>1. d \in pool.alloc \/ d = b  BY <1>4, <1>8
  <2> QED  BY <2>1, <1>11, <1>12
<1> QED  BY <1>2, <1>3, <1>4, <1>8, <1>9, <1>10, <1>11, <1>12, <1>13

LEMMA StoreNewKeeps ==
  ASSUME IInv, StoreNew, NEW r \in Requests, storing.id = r
  PROVE  IInv'
<1>0. /\ More /\ ~Known /\ storing # None
      /\ entries' = entries /\ index' = index /\ live' = live /\ storing' = storing
  BY DEF StoreNew, More
<1>1. PICK b \in Victims(pool) : /\ pool' = Filled(Claim(Looked, {b}), b)
                                 /\ span' = [span EXCEPT ![b] = Size]
                                 /\ tables' = WithBlock(b)
  BY DEF StoreNew
<1> DEFINE n == tables[r].n
           t == [ids |-> Append(tables[r].ids, b), n |-> n + Size]
<1>2. /\ b \in Blocks /\ b \notin pool.alloc /\ pool.ref[b] = 0
      /\ pool' \in Pool /\ AccountsFor(pool', {}) /\ pool'.alloc = pool.alloc \cup {b}
      /\ pool'.ref = [d \in Blocks |-> IF d \in {b} THEN 1 ELSE pool.ref[d]]
      /\ pool'.kv[b] = Identity /\ span'[b] = Size
      /\ span' \in [Blocks -> 0..BlockSize]
      /\ \A d \in pool.alloc : pool'.kv[d] = pool.kv[d] /\ span'[d] = span[d]
      /\ BlocksAreSound'
  BY <1>0, <1>1, FilledIs
<1>3. /\ tables[r] # None /\ n \in Nat
      /\ n + Size \in 1..Len(Text[r]) /\ Size \in 1..BlockSize
      /\ Identity = Upto(r, n + Size)
  BY <1>0, StoreFacts
<1>4. b \notin Held(r)  BY <1>2, HeldAllocated
<1>5. /\ tables' = [tables EXCEPT ![r] = t]
      /\ t \in Table /\ t # None /\ t.n <= Len(Text[r])
      /\ Range(t.ids) = Held(r) \cup {b}
      /\ Owners'
  BY <1>0, <1>1, <1>2, Grown
<1>6. \A q \in Requests : \A d \in Held(q) : pool'.kv[d] = pool.kv[d] /\ span'[d] = span[d]
  BY <1>2, HeldAllocated
<1>7. Reads(pool', span', r, t)
  <2>1. /\ tables[r].ids \in Seq(Blocks) /\ tables[r].n \in Nat
        /\ Reads(pool, span, r, tables[r]) /\ Held(r) = Range(tables[r].ids)
    BY <1>3, TableFacts
  <2>2. \A d \in Range(tables[r].ids) : pool'.kv[d] = pool.kv[d] /\ span'[d] = span[d]
    BY <2>1, <1>6
  <2>3. Size \in Nat \ {0} /\ n + Size <= Len(Text[r])
    <3>1. BlockSize \in Nat \ {0} /\ Len(Text[r]) \in Nat  BY TextAssumption, UptoProps
    <3> QED  BY <3>1, <1>3
  <2> HIDE DEF Reads
  <2>4. Reads(pool', span', r, tables[r])  BY <2>1, <2>2, ReadsMoves
  <2>5. pool'.kv[b] = Upto(r, n + Size) /\ span'[b] = Size  BY <1>2, <1>3
  <2> QED  BY <2>1, <2>3, <2>4, <2>5, <1>2, <1>3, GrowReads
<1> HIDE DEF t
<1>8. Held(r)' = Held(r) \cup {b}
  <2>1. Held(r)' = IF t = None THEN {} ELSE Range(t.ids)  BY <1>5, HoldersStep
  <2> QED  BY <2>1, <1>5
<1>9. ASSUME NEW d \in Blocks
      PROVE  /\ pool'.ref[d] + Bit(d \in Held(r)) = pool.ref[d] + Bit(d \in Held(r)')
             /\ pool'.ref[d] \in Nat
             /\ (d \in pool'.alloc) <=> (pool'.ref[d] > 0)
  <2>1. pool.ref[d] \in Nat /\ ((d \in pool.alloc) <=> (pool.ref[d] > 0))  BY BlockState
  <2>2. CASE d = b
    <3>1. Bit(d \in Held(r)) = 0 /\ Bit(d \in Held(r)') = 1
      BY <2>2, <1>4, <1>8 DEF Bit
    <3>2. pool'.ref[d] = 1 /\ pool.ref[d] = 0 /\ d \in pool'.alloc  BY <2>2, <1>2
    <3> QED  BY <3>1, <3>2
  <2>3. CASE d # b
    <3>1. (d \in Held(r)' <=> d \in Held(r)) /\ (d \in pool'.alloc <=> d \in pool.alloc)
      BY <2>3, <1>2, <1>8
    <3>2. Bit(d \in Held(r)) = Bit(d \in Held(r)') /\ Bit(d \in Held(r)) \in {0, 1}
      BY <3>1 DEF Bit
    <3>3. pool'.ref[d] = pool.ref[d]  BY <2>3, <1>2
    <3> QED  BY <3>1, <3>2, <3>3, <2>1
  <2> QED  BY <2>2, <2>3
<1>10. /\ References' /\ tables' \in [Requests -> Table \cup {None}]
       /\ \A q \in Requests : tables'[q] # None => tables'[q].n <= Len(Text[q])
  BY <1>2, <1>5, <1>9, TableStep
<1>11. TablesHoldTheirText'
  BY <1>5, <1>6, <1>7, TextsStep
<1>12. TypeOK'  BY <1>0, <1>2, <1>10 DEF IInv, TypeOK
<1> QED  BY <1>2, <1>5, <1>10, <1>11, <1>12 DEF IInv

(* A table goes; what the others list keeps its tensors.                   *)
LEMMA Freed ==
  ASSUME IInv, NEW r \in Requests, NEW p \in Pool, Placed(pool, p), pool' = Released(p, r),
         tables' = [tables EXCEPT ![r] = None], span' = span,
         \A q \in Requests \ {r} : \A b \in Held(q) :
           p.kv[b] = pool.kv[b] /\ Sound(p, span, b)
  PROVE  /\ References' /\ TablesHoldTheirText' /\ BlocksAreSound' /\ pool' \in Pool
         /\ tables' \in [Requests -> Table \cup {None}]
         /\ \A q \in Requests : tables'[q] # None => tables'[q].n <= Len(Text[q])
<1>1. /\ pool' \in Pool /\ AccountsFor(pool', {}) /\ pool'.alloc \subseteq pool.alloc
      /\ pool'.kv = p.kv /\ pool'.id = p.id /\ pool'.idMap = p.idMap
      /\ \A b \in Blocks : /\ pool'.ref[b] + Bit(b \in Held(r)) = pool.ref[b]
                           /\ pool'.ref[b] \in Nat
                           /\ (b \in pool'.alloc) <=> (pool'.ref[b] > 0)
  BY ReleaseHeld
<1>2. Held(r)' = {} /\ \A q \in Requests : q # r => Held(q)' = Held(q)  BY HoldersStep
<1>3. ASSUME NEW b \in Blocks
      PROVE  /\ pool'.ref[b] + Bit(b \in Held(r)) = pool.ref[b] + Bit(b \in Held(r)')
             /\ pool'.ref[b] \in Nat
             /\ (b \in pool'.alloc) <=> (pool'.ref[b] > 0)
  <2>1. Bit(b \in Held(r)') = 0  BY <1>2 DEF Bit
  <2>2. pool.ref[b] \in Nat  BY BlockState
  <2> QED  BY <2>1, <2>2, <1>1
<1>4. /\ References' /\ tables' \in [Requests -> Table \cup {None}]
      /\ \A q \in Requests : tables'[q] # None => tables'[q].n <= Len(Text[q])
  BY <1>1, <1>3, TableStep
<1>5. TablesHoldTheirText'  BY <1>1, TextsStep
<1>6. BlocksAreSound'
  <2> SUFFICES ASSUME NEW b \in pool'.alloc  PROVE Sound(pool', span, b)
    BY DEF BlocksAreSound
  <2>1. b \in Blocks  BY <1>1 DEF Pool
  <2>2. Holders(b)' # {}  BY <2>1, <1>4 DEF References
  <2>3. PICK q \in Requests : b \in Held(q)'  BY <2>2 DEF Holders
  <2>4. q # r /\ b \in Held(q)  BY <2>3, <1>2
  <2>5. Sound(p, span, b)  BY <2>4
  <2> QED  BY <2>5, <1>1 DEF Sound
<1> QED  BY <1>1, <1>4, <1>5, <1>6

LEMMA StoreRaisesKeeps ==
  ASSUME IInv, StoreRaises, NEW r \in Requests, storing.id = r
  PROVE  IInv'
<1>0. /\ storing # None /\ pool' = Released(Looked, r)
      /\ tables' = [tables EXCEPT ![r] = None]
      /\ live' = live \ {r} /\ storing' = None
      /\ span' = span /\ entries' = entries /\ index' = index
  BY DEF StoreRaises, More
<1>1. Looked \in Pool /\ Placed(pool, Looked) /\ Looked.kv = pool.kv
      /\ \A b \in pool.alloc : Sound(Looked, span, b)
  BY LookedIs
<1>2. \A q \in Requests \ {r} : \A b \in Held(q) :
        Looked.kv[b] = pool.kv[b] /\ Sound(Looked, span, b)
  BY <1>1, HeldAllocated
<1>3. /\ References' /\ TablesHoldTheirText' /\ BlocksAreSound' /\ pool' \in Pool
      /\ tables' \in [Requests -> Table \cup {None}]
      /\ \A q \in Requests : tables'[q] # None => tables'[q].n <= Len(Text[q])
  BY <1>0, <1>1, <1>2, Freed
<1>4. r \in live /\ r \notin Range(entries)  BY <1>0, StoreFacts
<1>5. tables'[r] = None /\ \A s \in Requests : s # r => tables'[s] = tables[s]
  BY <1>0, Facts
<1>6. TypeOK'  BY <1>0, <1>3 DEF IInv, TypeOK
<1>7. Owners'
  <2>1. TablesHaveOwners'  BY <1>0, <1>4, <1>5 DEF IInv, Owners, TablesHaveOwners
  <2>2. ASSUME NEW s \in live', tables'[s] # None  PROVE Aligned(tables'[s].n)
    <3>1. s \in live /\ s \in Requests /\ s # r /\ tables'[s] = tables[s]
      BY <2>2, <1>0, <1>5, Facts
    <3> QED  BY <3>1, <2>2, <1>0 DEF IInv, Owners
  <2> QED  BY <2>1, <2>2, <1>0 DEF IInv, Owners
<1> QED  BY <1>3, <1>6, <1>7 DEF IInv

LEMMA EvictEntryKeeps ==
  ASSUME IInv, EvictEntry, NEW r, Head(entries) = r
  PROVE  IInv'
<1> DEFINE P == Private(r)
           p == ForgetAll(pool, P)
<1>0. /\ storing = None /\ entries # <<>> /\ pool' = Released(p, r)
      /\ tables' = [tables EXCEPT ![r] = None] /\ entries' = Tail(entries)
      /\ span' = span /\ index' = index /\ live' = live /\ storing' = storing
  BY DEF EvictEntry, Released
<1>1. /\ pool \in Pool /\ entries \in Seq(Requests) /\ Once(entries)
      /\ tables \in [Requests -> Table \cup {None}]
  BY Facts DEF IInv, Owners
<1>2. /\ r \in Range(entries) /\ entries' \in Seq(Requests) /\ Once(entries')
      /\ Range(entries') = Range(entries) \ {r}
  BY <1>0, <1>1, TailSeq
<1>3. r \in Requests  BY <1>1, <1>2, RangeSeq
<1>4. p \in Pool /\ Placed(pool, p)  BY <1>1, ForgetKeeps DEF Placed
<1>5. ASSUME NEW q \in Requests \ {r}, NEW b \in Held(q)
      PROVE  p.kv[b] = pool.kv[b] /\ Sound(p, span, b)
  <2>1. b \in pool.alloc /\ b \in Blocks /\ Sound(pool, span, b)  BY HeldAllocated, Facts
  <2>2. b \notin P
    <3>1. b \in Held(r) => pool.ref[b] > 1 /\ pool.ref[b] \in Nat
      BY <2>1, <1>3, BlockState
    <3> QED  BY <3>1 DEF Private
  <2> HIDE DEF P
  <2>3. Sound(p, span, b)  BY <2>1, <2>2, <1>1, ForgetSound
  <2>4. p.kv[b] = pool.kv[b]  BY <2>1, <2>2, <1>1 DEF ForgetAll, Pool
  <2> QED  BY <2>3, <2>4
<1> HIDE DEF p
<1>6. /\ References' /\ TablesHoldTheirText' /\ BlocksAreSound' /\ pool' \in Pool
      /\ tables' \in [Requests -> Table \cup {None}]
      /\ \A q \in Requests : tables'[q] # None => tables'[q].n <= Len(Text[q])
  BY <1>0, <1>3, <1>4, <1>5, Freed
<1>7. TypeOK'  BY <1>0, <1>2, <1>6 DEF IInv, TypeOK
<1>8. tables'[r] = None /\ \A s \in Requests : s # r => tables'[s] = tables[s]
  BY <1>0, <1>1, <1>3
<1>9. Owners'
  <2>1. TablesHaveOwners'  BY <1>0, <1>2, <1>8 DEF IInv, Owners, TablesHaveOwners
  <2>2. ASSUME NEW s \in live', tables'[s] # None  PROVE Aligned(tables'[s].n)
    <3>1. s \in live /\ s \in Requests /\ s # r /\ tables'[s] = tables[s]
      BY <2>2, <1>0, <1>2, <1>8, Facts DEF IInv, Owners
    <3> QED  BY <3>1, <2>2, <1>0 DEF IInv, Owners
  <2> QED  BY <2>1, <2>2, <1>0, <1>2 DEF IInv, Owners
<1> QED  BY <1>6, <1>7, <1>9 DEF IInv

LEMMA StoreEndKeeps ==
  ASSUME IInv, StoreEnd, NEW r \in Requests, storing.id = r
  PROVE  IInv'
<1> DEFINE t == tables[r].ids
           at(h) == {i \in DOMAIN t : pool.id[t[i]] = h}
           cut(h) == SubSeq(t, 1, CHOOSE i \in at(h) : TRUE)
           w == Without(entries, r)
<1>0. /\ storing # None /\ entries' = Append(w, r) /\ live' = live \ {r}
      /\ index' = [h \in Prefixes |-> IF at(h) # {} THEN cut(h) ELSE index[h]]
      /\ pool' = (IF More THEN Looked ELSE pool)
      /\ storing' = None /\ span' = span /\ tables' = tables
  BY DEF StoreEnd
<1>1. /\ tables[r] # None /\ r \in live /\ entries \in Seq(Requests) /\ Once(entries)
      /\ index \in [Prefixes -> Seq(Blocks) \cup {None}]
  BY <1>0, StoreFacts, Facts DEF IInv, Owners
<1>2. /\ Placed(pool, pool') /\ pool'.kv = pool.kv /\ pool' \in Pool
      /\ \A b \in pool.alloc : Sound(pool', span, b)
  BY <1>0, LookedIs, Facts DEF Placed
<1>3. References' /\ TablesHoldTheirText' /\ BlocksAreSound'
  BY <1>0, <1>2, SamePlaces
<1>4. ASSUME NEW h \in Prefixes, at(h) # {}  PROVE cut(h) \in Seq(Blocks)
  <2>1. t \in Seq(Blocks)  BY <1>1, TableFacts
  <2> DEFINE i == CHOOSE i \in at(h) : TRUE
  <2>2. i \in 1..Len(t) /\ Len(t) \in Nat
    <3>1. i \in at(h) /\ DOMAIN t = 1..Len(t) /\ Len(t) \in Nat  BY <1>4, <2>1, RangeSeq
    <3> QED  BY <3>1
  <2> HIDE DEF i, t
  <2>3. 1 \in 1..(Len(t) + 1) /\ i \in 0..Len(t) /\ 1 <= i + 1  BY <2>2
  <2>4. SubSeq(t, 1, i) \in Seq(Blocks)  BY <2>1, <2>3, Part
  <2> QED  BY <2>4 DEF i
<1>5. index' \in [Prefixes -> Seq(Blocks) \cup {None}]
  <2> HIDE DEF at, cut
  <2> QED  BY <1>0, <1>1, <1>4
<1>6. /\ w \in Seq(Requests) /\ Once(w) /\ Range(w) = Range(entries) \ {r}
  BY <1>1, WithoutKeeps
<1> HIDE DEF w
<1>7. /\ entries' \in Seq(Requests) /\ Once(entries') /\ Range(entries') = Range(entries) \cup {r}
  BY <1>0, <1>6, AppendSeq
<1>8. TypeOK'  BY <1>0, <1>2, <1>5, <1>7 DEF IInv, TypeOK
<1>9. Owners'
  <2>1. TablesHaveOwners'  BY <1>0, <1>1, <1>7 DEF IInv, Owners, TablesHaveOwners
  <2>2. Range(entries') \cap live' = {}  BY <1>0, <1>7 DEF IInv, Owners
  <2>3. ASSUME NEW s \in live', tables'[s] # None  PROVE Aligned(tables'[s].n)
    <3>1. s \in live /\ s # r  BY <1>0
    <3> QED  BY <3>1, <2>3, <1>0 DEF IInv, Owners
  <2> QED  BY <2>1, <2>2, <2>3, <1>0, <1>7 DEF Owners
<1> QED  BY <1>3, <1>8, <1>9 DEF IInv

LEMMA ForkCacheKeeps ==
  ASSUME IInv, NEW r \in Requests, NEW q \in Requests, ForkCache(r, q)
  PROVE  IInv'
<1> DEFINE t == tables[r]
           w == Without(entries, q)
<1>0. /\ storing = None /\ r \in Range(entries) /\ q \notin live
      /\ t.n <= Len(Text[q]) /\ Upto(q, t.n) = Upto(r, t.n)
      /\ pool' = (IF q = r THEN pool ELSE Retain(Released(pool, q), Held(r)))
      /\ tables' = [tables EXCEPT ![q] = t] /\ entries' = Append(w, q)
      /\ span' = span /\ index' = index /\ live' = live /\ storing' = storing
  BY DEF ForkCache
<1>1. /\ pool \in Pool /\ entries \in Seq(Requests) /\ Once(entries)
      /\ tables \in [Requests -> Table \cup {None}] /\ Placed(pool, pool)
      /\ t # None
  BY <1>0, Facts DEF IInv, Owners, TablesHaveOwners, Placed
<1>2. /\ w \in Seq(Requests) /\ Once(w) /\ Range(w) = Range(entries) \ {q}
  BY <1>1, WithoutKeeps
<1> HIDE DEF w
<1>3. /\ entries' \in Seq(Requests) /\ Once(entries') /\ Range(entries') = Range(entries) \cup {q}
  BY <1>0, <1>2, AppendSeq
<1>4. tables'[q] = t /\ \A s \in Requests : s # q => tables'[s] = tables[s]  BY <1>0, <1>1
<1>5. Owners'
  <2>1. TablesHaveOwners'  BY <1>0, <1>1, <1>3, <1>4 DEF IInv, Owners, TablesHaveOwners
  <2>2. Range(entries') \cap live' = {}  BY <1>0, <1>3 DEF IInv, Owners
  <2>3. ASSUME NEW s \in live', tables'[s] # None  PROVE Aligned(tables'[s].n)
    <3>1. s \in live /\ s # q /\ tables'[s] = tables[s]  BY <1>0, <1>4, Facts
    <3> QED  BY <3>1, <2>3, <1>0 DEF IInv, Owners
  <2> QED  BY <2>1, <2>2, <2>3, <1>0, <1>3 DEF Owners
<1>6. CASE q = r
  <2>1. pool' = pool /\ tables' = tables  BY <1>0, <1>1, <1>6
  <2>2. References' /\ TablesHoldTheirText' /\ BlocksAreSound'  BY <2>1, <1>0, SamePool
  <2>3. TypeOK'  BY <2>1, <1>0, <1>3 DEF IInv, TypeOK
  <2> QED  BY <2>2, <2>3, <1>5 DEF IInv
<1>7. CASE q # r
  <2> DEFINE p == Released(pool, q)
  <2>1. /\ p \in Pool /\ AccountsFor(p, {}) /\ p.alloc \subseteq pool.alloc
        /\ p.kv = pool.kv /\ p.id = pool.id /\ p.idMap = pool.idMap
        /\ Held(r) \subseteq p.alloc
    BY <1>1, <1>7, ReleaseHeld
  <2> HIDE DEF p
  <2>2. pool' = Retain(p, Held(r))  BY <1>0, <1>7 DEF p
  <2>3. /\ pool' \in Pool /\ AccountsFor(pool', {}) /\ pool'.alloc = p.alloc
        /\ pool'.kv = pool.kv /\ pool'.id = pool.id /\ pool'.idMap = pool.idMap
        /\ \A b \in Blocks : pool'.ref[b] = p.ref[b] + Bit(b \in Held(r))
    BY <2>1, <2>2, RetainRefs
  <2>4. /\ t \in Table /\ t.ids \in Seq(Blocks) /\ t.n \in 0..Len(Text[r])
        /\ Held(r) = Range(t.ids) /\ Reads(pool, span, r, t)
    BY <1>1, TableFacts
  <2>5. Held(q)' = Held(r)
    <3>1. Held(q)' = IF t = None THEN {} ELSE Range(t.ids)  BY <1>0, HoldersStep
    <3> QED  BY <3>1, <1>1, <2>4
  <2>6. Reads(pool, span, q, t)
    <3>1. t.n \in 0..Len(Text[q]) /\ Len(Text[q]) \in Nat  BY <1>0, <2>4, UptoProps
    <3>2. ASSUME NEW i \in 1..Len(t.ids)
          PROVE  pool.kv[t.ids[i]] = Upto(q, Len(pool.kv[t.ids[i]]))
      <4>1. Len(pool.kv[t.ids[i]]) \in 0..t.n  BY <1>1, <2>4, <3>1, TableBlocks
      <4>2. /\ SubSeq(Upto(q, t.n), 1, Len(pool.kv[t.ids[i]]))
                 = Upto(q, Len(pool.kv[t.ids[i]]))
            /\ SubSeq(Upto(r, t.n), 1, Len(pool.kv[t.ids[i]]))
                 = Upto(r, Len(pool.kv[t.ids[i]]))
        BY <2>4, <3>1, <4>1, UptoProps
      <4>3. DOMAIN t.ids = 1..Len(t.ids)  BY <2>4, RangeSeq
      <4>4. pool.kv[t.ids[i]] = Upto(r, Len(pool.kv[t.ids[i]]))
        BY <2>4, <4>3 DEF Reads
      <4> QED  BY <4>2, <4>4, <1>0
    <3>3. DOMAIN t.ids = 1..Len(t.ids)  BY <2>4, RangeSeq
    <3> HIDE DEF t
    <3> QED  BY <2>4, <3>2, <3>3 DEF Reads
  <2>7. /\ References' /\ TablesHoldTheirText' /\ BlocksAreSound'
        /\ tables' \in [Requests -> Table \cup {None}]
        /\ \A s \in Requests : tables'[s] # None => tables'[s].n <= Len(Text[s])
    <3>1. t \in Table /\ t.n <= Len(Text[q]) /\ Reads(pool, span, q, t)
      BY <1>0, <2>4, <2>6
    <3>2. /\ Held(q)' \subseteq Released(pool, q).alloc
          /\ pool'.alloc = Released(pool, q).alloc
          /\ \A b \in Blocks : pool'.ref[b] = Released(pool, q).ref[b] + Bit(b \in Held(q)')
      BY <2>1, <2>3, <2>5 DEF p
    <3> HIDE DEF t
    <3> QED  BY <3>1, <3>2, <2>3, <1>0, Swap
  <2>8. TypeOK'  BY <2>3, <2>7, <1>0, <1>3 DEF IInv, TypeOK
  <2> QED  BY <2>7, <2>8, <1>5 DEF IInv
<1> QED  BY <1>6, <1>7

LEMMA PruneIndexKeeps ==
  ASSUME IInv, PruneIndex
  PROVE  IInv'
<1>1. /\ pool' = pool /\ span' = span /\ tables' = tables /\ entries' = entries
      /\ live' = live /\ storing' = storing
      /\ \E h \in Prefixes : index' = [index EXCEPT ![h] = None]
  BY DEF PruneIndex
<1>2. References' /\ TablesHoldTheirText' /\ BlocksAreSound'  BY <1>1, SamePool
<1>3. TypeOK'  BY <1>1 DEF IInv, TypeOK
<1>4. Owners'  BY <1>1 DEF IInv, Owners, TablesHaveOwners
<1> QED  BY <1>2, <1>3, <1>4 DEF IInv

LEMMA ReleasePressureKeeps ==
  ASSUME IInv, ReleasePressure
  PROVE  IInv'
<1> DEFINE S == {b \in Victims(pool) : pool.kv[b] # None}
<1>0. /\ pool' = ForgetAll(pool, S) /\ span' = span /\ tables' = tables
      /\ entries' = entries /\ index' = index /\ live' = live /\ storing' = storing
  BY DEF ReleasePressure
<1>1. pool \in Pool /\ S \cap pool.alloc = {} /\ pool.alloc \subseteq Blocks
  BY Facts DEF Victims, AccountsFor
<1> HIDE DEF S
<1>2. pool' \in Pool /\ Placed(pool, pool')  BY <1>0, <1>1, ForgetKeeps DEF Placed
<1>3. \A b \in pool.alloc : pool'.kv[b] = pool.kv[b] /\ Sound(pool', span, b)
  <2> SUFFICES ASSUME NEW b \in pool.alloc
               PROVE  pool'.kv[b] = pool.kv[b] /\ Sound(pool', span, b)
    OBVIOUS
  <2>1. b \in Blocks \ S /\ Sound(pool, span, b)  BY <1>1, Facts
  <2>2. Sound(pool', span, b)  BY <2>1, <1>0, <1>1, ForgetSound
  <2>3. pool'.kv[b] = pool.kv[b]  BY <2>1, <1>0, <1>1 DEF ForgetAll, Pool
  <2> QED  BY <2>2, <2>3
<1>4. References' /\ TablesHoldTheirText' /\ BlocksAreSound'
  BY <1>0, <1>2, <1>3, SamePlaces
<1>5. TypeOK'  BY <1>0, <1>2 DEF IInv, TypeOK
<1>6. Owners'  BY <1>0 DEF IInv, Owners, TablesHaveOwners
<1> QED  BY <1>4, <1>5, <1>6 DEF IInv

(* Pins and unpins change flags and drop stale hash entries.               *)
LEMMA PinsKeep ==
  ASSUME IInv, NEW H, NEW S \in SUBSET Blocks,
         pool' = [Pruned(pool, H) EXCEPT !.pinned = S],
         UNCHANGED <<span, tables, entries, index, live, storing>>
  PROVE  IInv'
<1> DEFINE q == Pruned(pool, H)
<1>1. /\ q \in Pool /\ q.free = pool.free /\ q.num = pool.num /\ q.alloc = pool.alloc
      /\ q.ref = pool.ref /\ q.kv = pool.kv /\ q.id = pool.id
  BY Facts, PrunedKeeps
<1> HIDE DEF q
<1>2. /\ pool' \in Pool /\ Placed(pool, pool') /\ pool'.kv = pool.kv /\ pool'.id = pool.id
      /\ pool'.idMap = q.idMap
  <2>1. pool' = [q EXCEPT !.pinned = S]  BY DEF q
  <2> QED  BY <2>1, <1>1 DEF Pool, Placed
<1>3. \A b \in pool.alloc : Sound(pool', span, b)  BY <1>2, PrunedSound DEF q
<1>4. References' /\ TablesHoldTheirText' /\ BlocksAreSound'  BY <1>2, <1>3, SamePlaces
<1>5. TypeOK'  BY <1>2 DEF IInv, TypeOK
<1>6. Owners'  BY DEF IInv, Owners, TablesHaveOwners
<1> QED  BY <1>4, <1>5, <1>6 DEF IInv

LEMMA PinKeeps ==
  ASSUME IInv, NEW r \in Requests, Pin(r)
  PROVE  IInv'
<1> DEFINE shared == Range(Shared(pool, r)) \ pool.pinned
           more == IF shared # {} THEN shared ELSE Range(Indexed(pool, r))
           S == pool.pinned \cup more
<1>1. /\ pool' = [Pruned(pool, Probed(pool, r)) EXCEPT !.pinned = @ \cup more]
      /\ UNCHANGED <<span, tables, entries, index, live, storing>>
  BY DEF Pin
<1>2. pool \in Pool /\ pool.alloc \subseteq Blocks  BY Facts
<1>3. Range(Shared(pool, r)) \subseteq Blocks  BY <1>2, SharedReads
<1>4. Range(Indexed(pool, r)) \subseteq Blocks
  <2>1. CASE BestLen(pool, r) > 0
    <3>1. ~(BestLen(pool, r) = 0)  BY <2>1
    <3> QED  BY <2>1, <3>1, <1>2, IndexedReads DEF Indexed
  <2>2. CASE ~(BestLen(pool, r) > 0)
    <3>1. Indexed(pool, r) = <<>> /\ DOMAIN <<>> = {}  BY <2>2 DEF Indexed
    <3> QED  BY <3>1 DEF Range
  <2> QED  BY <2>1, <2>2
<1>5. S \in SUBSET Blocks  BY <1>2, <1>3, <1>4 DEF Pool
<1> HIDE DEF more
<1>6. pool' = [Pruned(pool, Probed(pool, r)) EXCEPT !.pinned = S]
  BY <1>1, <1>2, PrunedKeeps
<1> HIDE DEF S
<1> QED  BY <1>1, <1>5, <1>6, PinsKeep

LEMMA UnpinKeeps ==
  ASSUME IInv, NEW r \in Requests, Unpin(r)
  PROVE  IInv'
<1> DEFINE S == pool.pinned \ Range(Candidate(pool, r))
<1>1. /\ pool' = [Pruned(pool, Probed(pool, r))
                    EXCEPT !.pinned = @ \ Range(Candidate(pool, r))]
      /\ UNCHANGED <<span, tables, entries, index, live, storing>>
  BY DEF Unpin
<1>2. S \in SUBSET Blocks /\ pool \in Pool  BY Facts DEF Pool
<1>3. pool' = [Pruned(pool, Probed(pool, r)) EXCEPT !.pinned = S]
  BY <1>1, <1>2, PrunedKeeps
<1> HIDE DEF S
<1> QED  BY <1>1, <1>2, <1>3, PinsKeep

LEMMA ClearKeeps ==
  ASSUME IInv, Clear
  PROVE  IInv'
<1>0. /\ storing = None /\ pool' = EmptyPool /\ span' = [b \in Blocks |-> 0]
      /\ tables' = [r \in Requests |-> None] /\ entries' = <<>>
      /\ index' = [h \in Prefixes |-> None] /\ live' = live /\ storing' = storing
  BY DEF Clear
<1>1. IsFiniteSet(Blocks) /\ Cardinality(Blocks) \in Nat /\ Cardinality({}) = 0
  BY PoolAssumption, FS_CardinalityType, FS_EmptySet
<1>2. EmptyPool \in Pool  BY <1>1 DEF EmptyPool, Pool
<1>3. BlockSize \in Nat /\ <<>> \in Seq(Requests)  BY TextAssumption
<1>4. TypeOK'  BY <1>0, <1>2, <1>3 DEF TypeOK, IInv
<1>5. \A b \in Blocks : Holders(b)' = {}  BY <1>0 DEF Holders, Held
<1>6. References'
  <2>1. /\ pool'.free = Blocks /\ pool'.alloc = {} /\ pool'.num = Cardinality(Blocks)
        /\ \A b \in Blocks : pool'.ref[b] = 0
    BY <1>0 DEF EmptyPool
  <2>2. AccountsFor(pool', {})  BY <2>1, <1>1 DEF AccountsFor
  <2> QED  BY <2>1, <2>2, <1>1, <1>5 DEF References
<1>7. Range(entries') = {} /\ Once(entries')
  <2>1. DOMAIN <<>> = {}  OBVIOUS
  <2> QED  BY <2>1, <1>0 DEF Once, Range
<1>8. Owners'
  <2>1. TablesHaveOwners'  BY <1>0, <1>7 DEF TablesHaveOwners
  <2>2. \A r \in live' : tables'[r] = None  BY <1>0, Facts
  <2> QED  BY <2>1, <2>2, <1>0, <1>7 DEF Owners
<1>9. TablesHoldTheirText' /\ BlocksAreSound'
  BY <1>0 DEF TablesHoldTheirText, BlocksAreSound, EmptyPool
<1> QED  BY <1>4, <1>6, <1>8, <1>9 DEF IInv

-----------------------------------------------------------------------------
LEMMA NextKeeps ==
  ASSUME IInv, Next
  PROVE  IInv'
<1>1. ASSUME NEW r \in Requests, Fetch(r) \/ ReleaseCache(r) \/ StoreStart(r)  PROVE IInv'
  BY <1>1, FetchKeeps, ReleaseCacheKeeps, StoreStartKeeps
<1>2. ASSUME NEW r \in System, Pin(r) \/ Unpin(r)  PROVE IInv'
  <2>1. r \in Requests  BY TextAssumption
  <2> QED  BY <1>2, <2>1, PinKeeps, UnpinKeeps
<1>3. ASSUME NEW r \in Requests, NEW q \in Requests, ForkCache(r, q)  PROVE IInv'
  BY <1>3, ForkCacheKeeps
<1>4. ASSUME StoreShared \/ StoreNew \/ StoreRaises \/ StoreEnd  PROVE IInv'
  <2>1. storing # None  BY <1>4 DEF StoreShared, StoreNew, StoreRaises, StoreEnd, More
  <2>2. PICK r \in Requests : storing.id = r  BY <2>1, StoreFacts
  <2> QED  BY <1>4, <2>2, StoreSharedKeeps, StoreNewKeeps, StoreRaisesKeeps, StoreEndKeeps
<1>5. ASSUME EvictEntry  PROVE IInv'
  <2>1. PICK r : Head(entries) = r  OBVIOUS
  <2> QED  BY <1>5, <2>1, EvictEntryKeeps
<1>6. ASSUME PruneIndex \/ ReleasePressure \/ Clear  PROVE IInv'
  BY <1>6, PruneIndexKeeps, ReleasePressureKeeps, ClearKeeps
<1> QED  BY <1>1, <1>2, <1>3, <1>4, <1>5, <1>6 DEF Next

LEMMA Preserved == IInv /\ [Next]_vars => IInv'
<1>1. ASSUME IInv, UNCHANGED vars  PROVE IInv'
  <2>1. /\ pool' = pool /\ span' = span /\ tables' = tables /\ entries' = entries
        /\ index' = index /\ live' = live /\ storing' = storing
    BY <1>1 DEF vars
  <2>2. References' /\ TablesHoldTheirText' /\ BlocksAreSound'  BY <1>1, <2>1, SamePool
  <2>3. TypeOK'  BY <1>1, <2>1 DEF IInv, TypeOK
  <2>4. Owners'  BY <1>1, <2>1 DEF IInv, Owners, TablesHaveOwners
  <2> QED  BY <2>2, <2>3, <2>4 DEF IInv
<1> QED  BY <1>1, NextKeeps

(* The pool, the tables, the entries and the prefix index keep their types *)
(* whatever the operations, the store that fills blocks one at a time      *)
(* among them; no table covers more than its request's text.               *)
THEOREM TypeCorrect == Spec => []TypeOK
<1>1. IInv => TypeOK  BY DEF IInv
<1> QED  BY <1>1, InitHolds, Preserved, PTL DEF Spec

(* The reference count of every block is the number of tables that list    *)
(* it, the free queue holds the others, and every table has an owner whose *)
(* release, store or eviction gives the references back.                   *)
THEOREM ReferencesBalanced == Spec => []ReferencesBalance
<1>1. IInv => ReferencesBalance  BY DEF IInv, References, Owners, ReferencesBalance
<1> QED  BY <1>1, InitHolds, Preserved, PTL DEF Spec

(* The blocks fetch_cache, store_cache and fork_cache put in a table hold  *)
(* the KV of the request's own text, end to end.                           *)
THEOREM TextsHeld == Spec => []TablesHoldTheirText
<1>1. IInv => TablesHoldTheirText  BY DEF IInv
<1> QED  BY <1>1, InitHolds, Preserved, PTL DEF Spec

(* store_cache never keeps the same full block twice.                      *)
THEOREM KeptOnce == Spec => []StoredOnce
<1>1. ASSUME IInv  PROVE StoredOnce
  <2> SUFFICES ASSUME NEW b \in pool.alloc, NEW c \in pool.alloc, b # c,
                      span[b] = BlockSize, span[c] = BlockSize
               PROVE  pool.id[b] # pool.id[c]
    BY DEF StoredOnce
  <2>1. pool.idMap[pool.id[b]] = b /\ pool.idMap[pool.id[c]] = c
    BY <1>1, Facts DEF Sound
  <2> QED  BY <2>1
<1> QED  BY <1>1, InitHolds, Preserved, PTL DEF Spec

(* The blocks of a table up to one that ends at a boundary are full: the   *)
(* i-th ends after i full blocks.                                          *)
LEMMA FullBelow ==
  ASSUME IInv, NEW q \in Requests, tables[q] # None, NEW m \in 1..Len(tables[q].ids),
         Aligned(Len(pool.kv[tables[q].ids[m]]))
  PROVE  \A i \in 1..m : /\ span[tables[q].ids[i]] = BlockSize
                         /\ Len(pool.kv[tables[q].ids[i]]) = i * BlockSize
<1> DEFINE s == tables[q].ids
           L(i) == Len(pool.kv[s[i]])
           z(i) == span[s[i]]
           W == {i \in 1..m : L(i) # i * BlockSize}
<1>0. BlockSize \in Nat  BY TextAssumption
<1>1. /\ Len(s) \in Nat /\ DOMAIN s = 1..Len(s) /\ m \in Nat /\ m <= Len(s)
      /\ \A i \in 1..m : L(i) \in Nat /\ s[i] \in pool.alloc
  BY TableBlocks
<1>2. \A i \in 1..m : z(i) \in 1..BlockSize /\ Aligned(L(i) - z(i))
  BY <1>1, Facts DEF Sound
<1>3. \A i \in 1..m : L(i) - z(i) = IF i = 1 THEN 0 ELSE L(i - 1)
  BY <1>1, TableFacts DEF Reads
<1>4. Aligned(L(m))  OBVIOUS
<1> HIDE DEF L, z, s
<1>5. ASSUME NEW i \in 1..m  PROVE Aligned(L(i))
  <2>1. CASE i = m  BY <2>1, <1>4
  <2>2. CASE i # m
    <3>1. i + 1 \in 1..m /\ i + 1 # 1 /\ i + 1 - 1 = i  BY <2>2, <1>1
    <3>2. L(i + 1) - z(i + 1) = L(i)  BY <3>1, <1>3
    <3>3. Aligned(L(i + 1) - z(i + 1))  BY <3>1, <1>2
    <3> QED  BY <3>2, <3>3
  <2> QED  BY <2>1, <2>2
<1>6. \A i \in 1..m : z(i) = BlockSize  BY <1>2, <1>5, Boundaries
<1>7. W = {}
  <2> SUFFICES ASSUME W # {}  PROVE FALSE
    OBVIOUS
  <2>1. W \in SUBSET Nat  BY <1>1
  <2>2. PICK i \in W : \A j \in W : i <= j
    <3> HIDE DEF W
    <3> QED  BY <2>1, LeastIndex
  <2>3. i \in 1..m /\ L(i) # i * BlockSize /\ L(i) \in Nat /\ z(i) = BlockSize
    BY <1>1, <1>6
  <2>4. (i - 1) * BlockSize = i * BlockSize - BlockSize /\ i * BlockSize \in Nat
    <3>1. i \in Nat  BY <2>3, <1>1
    <3> HIDE DEF W
    <3> QED  BY <3>1, <1>0, Multiples
  <2>5. CASE i = 1
    <3>1. 1 * BlockSize = BlockSize  BY <1>0
    <3>2. L(i) - BlockSize = 0  BY <2>3, <2>5, <1>3
    <3> QED  BY <3>1, <3>2, <2>3, <2>5, <1>0
  <2>6. CASE i # 1
    <3>1. i - 1 \in 1..m /\ ~(i <= i - 1)  BY <2>3, <2>6, <1>1
    <3>2. i - 1 \notin W  BY <3>1, <2>2
    <3>3. L(i - 1) = (i - 1) * BlockSize  BY <3>1, <3>2
    <3>4. L(i) - BlockSize = L(i - 1)  BY <2>3, <2>6, <1>3
    <3> QED  BY <3>3, <3>4, <2>3, <2>4, <1>0
  <2> QED  BY <2>5, <2>6
<1>8. \A i \in 1..m : z(i) = BlockSize /\ L(i) = i * BlockSize  BY <1>6, <1>7
<1> QED  BY <1>8 DEF L, z, s

(* A match with every full block of the prompt through the k-th.           *)
LEMMA SharedReaches ==
  ASSUME NEW p, NEW r \in Requests, NEW k \in 1..(Asked[r] \div BlockSize),
         \A i \in 1..k : Matches(p, Full(r, i))
  PROVE  Covered(p, r) >= k * BlockSize
<1> DEFINE n == Asked[r] \div BlockSize
           c == SharedLen(p, r)
<1>0. n \in Nat /\ BlockSize \in Nat  BY FullProps, TextAssumption
<1>1. c \in 0..n /\ (c < n => ~Matches(p, Full(r, c + 1)))  BY SharedLenIs
<1>2. k \in 1..n  OBVIOUS
<1>3. Covered(p, r) = IF c > 0 THEN c * BlockSize ELSE BestLen(p, r) * BlockSize
  BY DEF Covered
<1> HIDE DEF n, c
<1>4. c >= k
  <2> SUFFICES ASSUME c < k  PROVE FALSE
    BY <1>0, <1>1, <1>2
  <2>1. c < n /\ c + 1 \in 1..k  BY <1>0, <1>1, <1>2
  <2> QED  BY <2>1, <1>1
<1>5. c > 0 /\ c \in Nat /\ k \in Nat  BY <1>0, <1>1, <1>2, <1>4
<1>6. k * BlockSize <= c * BlockSize /\ k * BlockSize \in Nat /\ c * BlockSize \in Nat
  BY <1>0, <1>4, <1>5, Multiples
<1> QED  BY <1>3, <1>5, <1>6

(* A prompt whose full blocks another table holds is served at least those *)
(* by fetch_cache: find_shared_prefix meets each of them under its hash.   *)
THEOREM FoundAgain == Spec => []StoredIsFound
<1>1. ASSUME IInv  PROVE StoredIsFound
  <2> SUFFICES ASSUME NEW r \in Requests \ live, NEW k \in 1..(Asked[r] \div BlockSize),
                      NEW b \in pool.alloc \ Held(r), pool.kv[b] = Full(r, k)
               PROVE  Covered(Released(pool, r), r) >= k * BlockSize
    BY DEF StoredIsFound
  <2> DEFINE p == Released(pool, r)
  <2>0. pool \in Pool /\ Placed(pool, pool) /\ pool.alloc \subseteq Blocks
        /\ None \notin pool.alloc /\ BlockSize \in Nat \ {0}
    BY <1>1, Facts, PoolAssumption, TextAssumption DEF Placed
  <2>1. Holders(b) # {}  BY <1>1, <2>0 DEF IInv, References
  <2>2. PICK q \in Requests : b \in Held(q)  BY <2>1 DEF Holders
  <2>3. q # r /\ tables[q] # None  BY <2>2 DEF Held
  <2> DEFINE s == tables[q].ids
  <2>4. PICK m \in 1..Len(s) : b = s[m]  BY <1>1, <2>2, <2>3, TableBlocks
  <2>5. /\ Asked[r] \div BlockSize \in Nat /\ k \in 0..(Asked[r] \div BlockSize)
        /\ k \in Nat /\ k * BlockSize \in 0..Len(Text[r]) /\ Aligned(k * BlockSize)
        /\ Len(Full(r, k)) = k * BlockSize
    BY FullProps
  <2>6. \A i \in 1..m : span[s[i]] = BlockSize /\ Len(pool.kv[s[i]]) = i * BlockSize
    <3>1. Aligned(Len(pool.kv[s[m]]))  BY <2>4, <2>5
    <3> QED  BY <1>1, <2>3, <3>1, FullBelow
  <2>7. m \in Nat /\ m \in 1..m /\ DOMAIN s = 1..Len(s) /\ Len(s) \in Nat
    BY <1>1, <2>3, TableBlocks
  <2>8. m = k
    <3>1. m * BlockSize = k * BlockSize  BY <2>4, <2>5, <2>6, <2>7
    <3>2. CASE m < k
      <4>1. (m + 1) * BlockSize <= k * BlockSize  BY <3>2, <2>0, <2>5, <2>7, Multiples
      <4>2. (m + 1) * BlockSize = m * BlockSize + BlockSize /\ m * BlockSize \in Nat
        BY <2>0, <2>7, Multiples
      <4> QED  BY <3>1, <4>1, <4>2, <2>0
    <3>3. CASE k < m
      <4>1. (k + 1) * BlockSize <= m * BlockSize  BY <3>3, <2>0, <2>5, <2>7, Multiples
      <4>2. (k + 1) * BlockSize = k * BlockSize + BlockSize /\ k * BlockSize \in Nat
        BY <2>0, <2>5, Multiples
      <4> QED  BY <3>1, <4>1, <4>2, <2>0
    <3> QED  BY <3>2, <3>3, <2>5, <2>7
  <2>9. ASSUME NEW i \in 1..k  PROVE pool.kv[s[i]] = Full(r, i)
    <3>1. i \in 1..Len(s) /\ i \in Nat /\ i <= k /\ k \in 1..Len(s)  BY <2>4, <2>7, <2>8
    <3>2. i * BlockSize \in 0..(k * BlockSize)
      BY <3>1, <2>0, <2>5, Multiples
    <3>3. /\ Reads(pool, span, q, tables[q]) /\ tables[q].n \in 0..Len(Text[q])
          /\ Len(Text[q]) \in Nat
      BY <1>1, <2>3, TableFacts, UptoProps
    <3>4. /\ pool.kv[s[i]] = Upto(q, i * BlockSize) /\ pool.kv[s[k]] = Upto(q, k * BlockSize)
      BY <3>1, <3>3, <2>6, <2>7, <2>8 DEF Reads
    <3>5. k * BlockSize \in 0..Len(Text[q])
      <4>1. Len(pool.kv[s[k]]) <= tables[q].n  BY <1>1, <2>3, <3>1, TableBlocks
      <4>2. Len(pool.kv[s[k]]) = k * BlockSize  BY <2>6, <2>7, <2>8
      <4> QED  BY <4>1, <4>2, <3>3, <2>5
    <3>6. Upto(q, k * BlockSize) = Upto(r, k * BlockSize)
      BY <3>4, <2>4, <2>8 DEF Full
    <3>7. /\ SubSeq(Upto(q, k * BlockSize), 1, i * BlockSize) = Upto(q, i * BlockSize)
          /\ SubSeq(Upto(r, k * BlockSize), 1, i * BlockSize) = Upto(r, i * BlockSize)
      BY <3>2, <3>5, <2>5, UptoProps
    <3> QED  BY <3>4, <3>6, <3>7 DEF Full
  <2>10. p.id = pool.id /\ p.idMap = pool.idMap /\ Held(q) \subseteq p.alloc
    BY <1>1, <2>0, <2>3, ReleaseHeld
  <2> HIDE DEF p
  <2>11. ASSUME NEW i \in 1..k  PROVE Matches(p, Full(r, i))
    <3>1. i \in 1..Len(s) /\ i \in 1..m  BY <2>4, <2>7, <2>8
    <3>2. s[i] \in pool.alloc /\ s[i] \in Held(q)  BY <1>1, <2>3, <3>1, TableBlocks
    <3>3. Sound(pool, span, s[i]) /\ s[i] # None  BY <1>1, <2>0, <3>2, Facts
    <3>4. pool.id[s[i]] = Full(r, i)  BY <3>3, <2>9, SoundName
    <3>5. span[s[i]] = BlockSize  BY <3>1, <2>6
    <3>6. pool.idMap[Full(r, i)] = s[i]  BY <3>3, <3>4, <3>5 DEF Sound
    <3>7. FindById(p, Full(r, i)) = s[i]  BY <3>2, <3>4, <3>6, <2>10 DEF FindById
    <3> QED  BY <3>3, <3>5, <3>7 DEF Matches
  <2> QED  BY <2>11, SharedReaches DEF p
<1> QED  BY <1>1, InitHolds, Preserved, PTL DEF Spec
=============================================================================
