------------------------ MODULE FreeBlockQueueProofs ------------------------
(***************************************************************************)
(* Proofs about FreeBlockQueue for every finite set of blocks and every    *)
(* window: the pointers stay well formed, the counter stays right, and the *)
(* list implements the queue of FreeQueueSpec step by step.                *)
(*                                                                         *)
(* The invariant says that the pointers chain, in both directions, the     *)
(* blocks a walk from the head finds, each once (Well).  A chain is given  *)
(* by its sequence (OneChain), so an operation on the pointers is an       *)
(* operation on the sequence: ListedChain reads it back, UnlinkChains and  *)
(* UnlinkAllChains take blocks out of it, LinkAllChains adds them.  The    *)
(* first section says what a selection from a sequence is, since both the  *)
(* walk and the pops skip elements.                                        *)
(***************************************************************************)
EXTENDS FreeBlockQueue, FiniteSetTheorems, SequenceTheorems,
        WellFoundedInduction, TLAPS

-----------------------------------------------------------------------------
(* What a selection from a sequence is.                                    *)

(* pos numbers the members of I from 1 to n in increasing order.           *)
Numbers(pos, n, I) ==
  /\ n \in Nat /\ pos \in [1..n -> I]
  /\ \A j \in I : \E k \in 1..n : pos[k] = j
  /\ \A j, k \in 1..n : j < k => pos[j] < pos[k]

(* The members of I from the smallest on.                                  *)
Enum(I) ==
  [k \in 1..Cardinality(I) |->
     CHOOSE i \in I : Cardinality({j \in I : j <= i}) = k]

Picked(q, S) == {i \in DOMAIN q : q[i] \in S}

Through(q, e) == [k \in DOMAIN e |-> q[e[k]]]

(* A set of natural numbers that is not empty has a least member.          *)
LEMMA LeastIndex ==
  ASSUME NEW S \in SUBSET Nat, S # {}
  PROVE  \E i \in S : \A j \in S : i <= j
<1> DEFINE R == OpToRel(<, Nat)
<1>1. PICK i \in S : \A j \in S : <<j, i>> \notin R
  <2>1. IsWellFoundedOn(R, Nat)  BY NatLessThanWellFounded
  <2> HIDE DEF R
  <2> QED  BY <2>1, WFMin
<1>2. \A j \in S : ~(j < i)
  BY <1>1 DEF OpToRel
<1> QED  BY <1>2

(* Max is the greatest member of a set of indices.                         *)
LEMMA MaxOf ==
  ASSUME NEW n \in Nat, NEW T \in SUBSET (1..n), T # {}
  PROVE  Max(T) \in T /\ \A j \in T : j <= Max(T)
<1> DEFINE U == {i \in Nat : \E j \in T : i = n - j}
<1>1. PICK i \in U : \A j \in U : i <= j
  <2>0. PICK j \in T : j \in 1..n  OBVIOUS
  <2>1. n - j \in U  BY <2>0
  <2> HIDE DEF U
  <2> QED  BY <2>1, LeastIndex, U \in SUBSET Nat DEF U
<1>2. PICK m \in T : i = n - m  BY <1>1
<1>3. \A j \in T : j <= m
  <2> TAKE j \in T
  <2>1. n - j \in U  OBVIOUS
  <2> QED  BY <1>1, <1>2, <2>1
<1>4. \A j \in T : m >= j  BY <1>3
<1>5. \E x \in T : \A y \in T : x >= y  BY <1>4
<1>6. Max(T) \in T /\ \A y \in T : Max(T) >= y  BY <1>5 DEF Max
<1> QED  BY <1>6

(* Two functions that are built up in the same way, one element at a time. *)
LEMMA SameFold ==
  ASSUME NEW D, IsFiniteSet(D), NEW G, NEW H, G[{}] = H[{}],
         \A T \in SUBSET D :
            T # {} => \E x \in T : G[T \ {x}] = H[T \ {x}] => G[T] = H[T]
  PROVE  G[D] = H[D]
<1> DEFINE C == {n \in Nat : \E T \in SUBSET D : Cardinality(T) = n /\ G[T] # H[T]}
<1>1. \A T \in SUBSET D : Cardinality(T) \in Nat /\ IsFiniteSet(T)
  BY FS_Subset, FS_CardinalityType
<1>2. SUFFICES C = {}  BY <1>1
<1>3. SUFFICES ASSUME C # {} PROVE FALSE  OBVIOUS
<1>4. PICK n \in C : \A m \in C : n <= m
  <2>1. C \in SUBSET Nat  OBVIOUS
  <2> HIDE DEF C
  <2> QED  BY <1>3, <2>1, LeastIndex
<1>5. PICK T \in SUBSET D : Cardinality(T) = n /\ G[T] # H[T]  BY <1>4
<1>6. PICK x \in T : G[T \ {x}] = H[T \ {x}] => G[T] = H[T]  BY <1>5
<1>7. T \ {x} \in SUBSET D /\ Cardinality(T \ {x}) = n - 1 /\ n - 1 \in Nat
  <2>1. IsFiniteSet(T) /\ T \ {x} \in SUBSET D  BY <1>1
  <2>2. Cardinality(T \ {x}) = Cardinality(T) - 1  BY <2>1, FS_RemoveElement
  <2>3. Cardinality(T \ {x}) \in Nat  BY <1>1, <2>1
  <2> QED  BY <1>5, <2>1, <2>2, <2>3
<1>8. n - 1 \in C  BY <1>5, <1>6, <1>7
<1> QED  BY <1>4, <1>8

(* The number of an element is how many there are up to it, so there is    *)
(* one numbering only.                                                     *)
LEMMA OneNumbering ==
  ASSUME NEW I \in SUBSET Nat, NEW n, NEW pos, Numbers(pos, n, I)
  PROVE  IsFiniteSet(I) /\ n = Cardinality(I) /\ pos = Enum(I)
<1>0. n \in Nat /\ \A k \in 1..n : pos[k] \in I /\ pos[k] \in Nat
  BY DEF Numbers
<1> DEFINE Upper(k) == {j \in I : j <= pos[k]}
<1>1. ASSUME NEW k \in 1..n
      PROVE  IsFiniteSet(Upper(k)) /\ Cardinality(Upper(k)) = k
  <2> DEFINE f == [i \in 1..k |-> pos[i]]
  <2>1. f \in [1..k -> Upper(k)]  BY <1>0 DEF Numbers
  <2>2. \A i, j \in 1..k : f[i] = f[j] => i = j  BY <1>0 DEF Numbers
  <2>3. \A j \in Upper(k) : \E i \in 1..k : f[i] = j
    <3> TAKE j \in Upper(k)
    <3>1. PICK i \in 1..n : pos[i] = j  BY DEF Numbers
    <3>2. ~(k < i)  BY <1>0, <3>1 DEF Numbers
    <3> QED  BY <3>1, <3>2
  <2>4. f \in Bijection(1..k, Upper(k))
    <3> HIDE DEF f
    <3> QED  BY <2>1, <2>2, <2>3 DEF Bijection, Injection, Surjection, IsInjective
  <2>5. IsFiniteSet(1..k) /\ Cardinality(1..k) = k  BY FS_Interval
  <2>6. ExistsBijection(1..k, Upper(k))
    <3> HIDE DEF f
    <3> QED  BY <2>4 DEF ExistsBijection
  <2> HIDE DEF Upper
  <2> QED  BY <2>5, <2>6, FS_Bijection
<1>2. IsFiniteSet(I) /\ Cardinality(I) = n
  <2>1. CASE n = 0
    <3>1. I = {}  BY <2>1 DEF Numbers
    <3> QED  BY <2>1, <3>1, FS_EmptySet
  <2>2. CASE n # 0
    <3>1. ASSUME NEW j \in I  PROVE j <= pos[n]
      <4>1. PICK k \in 1..n : pos[k] = j  BY DEF Numbers
      <4>2. k = n \/ k < n  BY <1>0
      <4> QED  BY <1>0, <4>1, <4>2 DEF Numbers
    <3>2. I = Upper(n)  BY <3>1
    <3> QED  BY <1>0, <1>1, <2>2, <3>2
  <2> QED  BY <2>1, <2>2
<1>3. ASSUME NEW k \in 1..n
      PROVE  pos[k] = CHOOSE i \in I : Cardinality({j \in I : j <= i}) = k
  <2>1. pos[k] \in I /\ Cardinality({j \in I : j <= pos[k]}) = k  BY <1>0, <1>1
  <2>2. ASSUME NEW i \in I, Cardinality({j \in I : j <= i}) = k  PROVE i = pos[k]
    <3>1. PICK m \in 1..n : pos[m] = i  BY DEF Numbers
    <3>2. m = k  BY <1>1, <2>2, <3>1
    <3> QED  BY <3>1, <3>2
  <2> QED  BY <2>1, <2>2
<1>4. pos = [k \in 1..n |-> pos[k]]  BY DEF Numbers
<1> QED  BY <1>2, <1>3, <1>4 DEF Enum

(* Every finite set of natural numbers can be numbered.                    *)
LEMMA SomeNumbering ==
  ASSUME NEW I \in SUBSET Nat, IsFiniteSet(I)
  PROVE  Numbers(Enum(I), Cardinality(I), I)
<1> DEFINE n == Cardinality(I)
           Below(i) == {j \in I : j <= i}
           rank == [i \in I |-> Cardinality(Below(i))]
<1>0. n \in Nat  BY FS_CardinalityType
<1>1. \A i \in I : IsFiniteSet(Below(i)) /\ rank[i] \in Nat
  <2> TAKE i \in I
  <2>1. Below(i) \in SUBSET I  OBVIOUS
  <2> QED  BY <2>1, FS_Subset, FS_CardinalityType
<1>2. ASSUME NEW i \in I  PROVE rank[i] \in 1..n
  <2>1. Below(i) \in SUBSET I /\ Below(i) # {}  OBVIOUS
  <2>2. Cardinality(Below(i)) <= n  BY <2>1, FS_Subset
  <2>3. Cardinality(Below(i)) # 0  BY <1>1, <2>1, FS_EmptySet
  <2> QED  BY <1>0, <1>1, <2>2, <2>3
<1>3. ASSUME NEW i \in I, NEW j \in I, i < j  PROVE rank[i] < rank[j]
  <2>0. i \in Nat /\ j \in Nat /\ \A m \in Nat : m <= i => m <= j  BY <1>3
  <2>1. Below(i) \in SUBSET Below(j)  BY <2>0
  <2>4. j \in Below(j) /\ j \notin Below(i)  BY <1>3, <2>0
  <2>2. /\ Cardinality(Below(i)) <= Cardinality(Below(j))
        /\ Cardinality(Below(i)) # Cardinality(Below(j))
    <3> HIDE DEF Below
    <3> QED  BY <1>1, <2>1, <2>4, FS_Subset
  <2> QED  BY <1>1, <2>2
<1>4. \A i, j \in I : rank[i] = rank[j] => i = j
  <2> HIDE DEF rank
  <2>1. \A i, j \in I : i = j \/ i < j \/ j < i  OBVIOUS
  <2> QED  BY <1>0, <1>2, <1>3, <2>1
<1>5. \A k \in 1..n : \E i \in I : rank[i] = k
  <2>1. rank \in Injection(I, 1..n)
    <3>1. rank \in [I -> 1..n]  BY <1>2
    <3> HIDE DEF rank
    <3> QED  BY <1>4, <3>1 DEF Injection, IsInjective
  <2>2. IsFiniteSet(1..n) /\ Cardinality(1..n) = n  BY <1>0, FS_Interval
  <2>3. rank \in Surjection(I, 1..n)
    <3> HIDE DEF rank
    <3> QED  BY <2>1, <2>2, FS_Injection
  <2> HIDE DEF rank
  <2> QED  BY <2>3 DEF Surjection
<1>6. ASSUME NEW k \in 1..n
      PROVE  Enum(I)[k] \in I /\ rank[Enum(I)[k]] = k
  <2>1. PICK i \in I : Cardinality(Below(i)) = k  BY <1>5
  <2>2. Enum(I)[k] = CHOOSE x \in I : Cardinality({j \in I : j <= x}) = k
    BY DEF Enum
  <2> QED  BY <2>1, <2>2
<1>7. Enum(I) \in [1..n -> I]
  <2>1. Enum(I) = [k \in 1..n |-> Enum(I)[k]]  BY DEF Enum
  <2> QED  BY <1>6, <2>1
<1> HIDE DEF rank
<1>8. \A j \in I : \E k \in 1..n : Enum(I)[k] = j  BY <1>2, <1>4, <1>6
<1>9. \A j, k \in 1..n : j < k => Enum(I)[j] < Enum(I)[k]
  <2> TAKE j, k \in 1..n
  <2> HAVE j < k
  <2>1. Enum(I)[j] \in Nat /\ Enum(I)[k] \in Nat  BY <1>6
  <2>2. rank[Enum(I)[j]] = j /\ rank[Enum(I)[k]] = k  BY <1>6
  <2>3. ~(k < j) /\ k # j  BY <1>0
  <2>4. Enum(I)[j] # Enum(I)[k]  BY <2>2, <2>3
  <2>5. ~(Enum(I)[k] < Enum(I)[j])  BY <1>3, <1>6, <2>2, <2>3
  <2> QED  BY <2>1, <2>4, <2>5
<1> QED  BY <1>0, <1>7, <1>8, <1>9 DEF Numbers

(* A larger member is numbered last.                                       *)
LEMMA EnumGrows ==
  ASSUME NEW I \in SUBSET Nat, IsFiniteSet(I), NEW m \in Nat,
         \A i \in I : i < m
  PROVE  Enum(I \cup {m}) = Append(Enum(I), m)
<1> DEFINE n == Cardinality(I)
           e == Enum(I)
           a == Append(e, m)
<1>1. Numbers(e, n, I)  BY SomeNumbering
<1>2. n \in Nat /\ e \in [1..n -> I]  BY <1>1 DEF Numbers
<1> HIDE DEF e, n
<1>3. e \in Seq(Nat) /\ Len(e) = n
  <2>1. e \in [1..n -> Nat]  BY <1>2
  <2> QED  BY <1>2, <2>1, SeqDef
<1>4. /\ a \in [1..(n + 1) -> I \cup {m}] /\ a[n + 1] = m
      /\ \A k \in 1..n : a[k] = e[k]
  <2>1. /\ a \in Seq(Nat) /\ Len(a) = n + 1 /\ a[n + 1] = m
        /\ \A k \in 1..n : a[k] = e[k]
    BY <1>3, AppendProperties
  <2>2. a \in [1..(n + 1) -> Nat]  BY <2>1, LenProperties
  <2>3. \A k \in 1..(n + 1) : k = n + 1 \/ k \in 1..n  BY <1>2
  <2>4. \A k \in 1..(n + 1) : a[k] \in I \cup {m}  BY <1>2, <2>1, <2>3
  <2> HIDE DEF a
  <2> QED  BY <2>1, <2>2, <2>4
<1> HIDE DEF a
<1>5. Numbers(a, n + 1, I \cup {m})
  <2>1. \A j \in I \cup {m} : \E k \in 1..(n + 1) : a[k] = j
    <3>1. \A j \in I : \E k \in 1..n : a[k] = j  BY <1>1, <1>4 DEF Numbers
    <3> QED  BY <1>2, <1>4, <3>1
  <2>2. ASSUME NEW j \in 1..(n + 1), NEW k \in 1..(n + 1), j < k
        PROVE  a[j] < a[k]
    <3>1. j \in 1..n  BY <1>2, <2>2
    <3>2. CASE k = n + 1  BY <1>2, <1>4, <3>1, <3>2
    <3>3. CASE k # n + 1
      <4>1. k \in 1..n  BY <1>2, <3>3
      <4> QED  BY <1>1, <1>4, <2>2, <3>1, <4>1 DEF Numbers
    <3> QED  BY <3>2, <3>3
  <2> QED  BY <1>2, <1>4, <2>1, <2>2 DEF Numbers
<1> QED  BY <1>5, OneNumbering DEF a, e

(* There is nothing to number in the empty set.                            *)
LEMMA EnumEmpty == Enum({}) = << >>
<1>1. Numbers(<< >>, 0, {})  BY DEF Numbers
<1> QED  BY <1>1, OneNumbering

(* Keep reads the sequence at the picked indices.                          *)
LEMMA KeepReads ==
  ASSUME NEW B, NEW q \in Seq(B), NEW S
  PROVE  Keep(q, S) = Through(q, Enum(Picked(q, S)))
<1> DEFINE D == DOMAIN q
           P(T) == {i \in T : q[i] \in S}
           G == [T \in SUBSET D |-> Through(q, Enum(P(T)))]
           It == CHOOSE H : H = [T \in SUBSET D |->
                   IF T = {} THEN << >>
                   ELSE IF q[Max(T)] \in S
                        THEN Append(H[T \ {Max(T)}], q[Max(T)])
                        ELSE H[T \ {Max(T)}]]
<1>1. Len(q) \in Nat /\ D = 1..Len(q) /\ IsFiniteSet(D) /\ q \in [D -> B]
  <2>1. Len(q) \in Nat /\ D = 1..Len(q) /\ q \in [D -> B]  BY LenProperties
  <2>2. \A n \in Nat : IsFiniteSet(1..n)  BY FS_Interval
  <2> QED  BY <2>1, <2>2
<1>2. G[{}] = << >>
  <2>1. P({}) = {} /\ {} \in SUBSET D  OBVIOUS
  <2>2. G[{}] = Through(q, << >>)  BY <2>1, EnumEmpty
  <2>3. DOMAIN << >> = {}  OBVIOUS
  <2> QED  BY <2>2, <2>3 DEF Through
<1>3. ASSUME NEW T \in SUBSET D, T # {}
      PROVE  /\ Max(T) \in T
             /\ G[T] = IF q[Max(T)] \in S
                       THEN Append(G[T \ {Max(T)}], q[Max(T)])
                       ELSE G[T \ {Max(T)}]
  <2> DEFINE m == Max(T)
             I == P(T \ {m})
  <2>1. m \in T /\ m \in Nat /\ \A j \in T : j \in Nat /\ j <= m
    BY <1>1, <1>3, MaxOf
  <2> HIDE DEF m
  <2>2. T \ {m} \in SUBSET D  BY <1>3
  <2>3. CASE q[m] \notin S
    <3>1. P(T) = I  BY <2>3
    <3> QED  BY <2>1, <2>2, <2>3, <3>1 DEF m
  <2>4. CASE q[m] \in S
    <3>1. P(T) = I \cup {m}  BY <2>1, <2>4
    <3>2. I \in SUBSET Nat /\ \A i \in I : i < m  BY <2>1
    <3>3. I \in SUBSET D  BY <2>2
    <3> DEFINE e == Enum(I)
               n == Cardinality(I)
    <3>4. IsFiniteSet(I) /\ n \in Nat
      <4> HIDE DEF I
      <4> QED  BY <1>1, <3>3, FS_Subset, FS_CardinalityType
    <3>5. Enum(P(T)) = Append(e, m)
      <4> HIDE DEF I, P
      <4> QED  BY <2>1, <3>1, <3>2, <3>4, EnumGrows
    <3>6. e \in [1..n -> I]
      <4> HIDE DEF I
      <4> QED  BY <3>2, <3>4, SomeNumbering DEF Numbers
    <3> HIDE DEF e, n
    <3>7. e \in Seq(D) /\ Len(e) = n /\ DOMAIN e = 1..n
      <4> HIDE DEF I
      <4> QED  BY <3>3, <3>4, <3>6, SeqDef
    <3>8. Through(q, Append(e, m)) = Append(Through(q, e), q[m])
      <4> DEFINE x == Through(q, Append(e, m))
                 y == Through(q, e)
      <4>1. y = [k \in 1..n |-> q[e[k]]]  BY <3>7 DEF Through
      <4>2. \A k \in 1..n : e[k] \in D /\ q[e[k]] \in B
        BY <1>1, <3>7, ElementOfSeq
      <4>3. y \in [1..n -> B]  BY <4>1, <4>2
      <4>4. y \in Seq(B) /\ Len(y) = n
        <5> HIDE DEF y
        <5> QED  BY <3>4, <4>3, SeqDef
      <4>5. m \in D /\ q[m] \in B  BY <1>1, <2>1
      <4>6. /\ Append(e, m) \in Seq(D) /\ Len(Append(e, m)) = n + 1
            /\ \A k \in 1..n : Append(e, m)[k] = e[k]
            /\ Append(e, m)[n + 1] = m
        BY <3>7, <4>5, AppendProperties
      <4>7. DOMAIN Append(e, m) = 1..(n + 1)  BY <4>6, LenProperties
      <4>8. /\ x = [k \in 1..(n + 1) |-> q[Append(e, m)[k]]]
        BY <4>7 DEF Through
      <4>9. \A k \in 1..(n + 1) : k \in 1..n \/ k = n + 1  BY <3>4
      <4>10. \A k \in 1..(n + 1) : x[k] = IF k = n + 1 THEN q[m] ELSE y[k]
        BY <3>4, <4>1, <4>6, <4>8, <4>9
      <4>11. \A k \in 1..(n + 1) : x[k] \in B
        <5> HIDE DEF x, y
        <5> QED  BY <4>3, <4>5, <4>9, <4>10
      <4>12. x \in [1..(n + 1) -> B]
        <5>1. x = [k \in 1..(n + 1) |-> x[k]]  BY <4>8
        <5> HIDE DEF x
        <5> QED  BY <4>11, <5>1
      <4>13. x \in Seq(B) /\ Len(x) = n + 1
        <5>1. n + 1 \in Nat  BY <3>4
        <5> HIDE DEF x
        <5> QED  BY <4>12, <5>1, SeqDef
      <4>14. /\ Append(y, q[m]) \in Seq(B) /\ Len(Append(y, q[m])) = n + 1
             /\ \A k \in 1..n : Append(y, q[m])[k] = y[k]
             /\ Append(y, q[m])[n + 1] = q[m]
        <5> HIDE DEF y
        <5> QED  BY <4>4, <4>5, AppendProperties
      <4>15. \A k \in 1..(n + 1) : x[k] = Append(y, q[m])[k]
        <5> HIDE DEF x, y
        <5> QED  BY <3>4, <4>9, <4>10, <4>14
      <4> HIDE DEF x, y
      <4>16. x = Append(y, q[m])
        BY <4>13, <4>14, <4>15, SeqEqual
      <4> QED  BY <4>16 DEF x, y
    <3>9. G[T] = Append(G[T \ {m}], q[m])
      <4>1. G[T] = Through(q, Enum(P(T)))  BY <1>3
      <4>2. G[T \ {m}] = Through(q, e)  BY <2>2 DEF e
      <4> HIDE DEF G
      <4> QED  BY <3>5, <3>8, <4>1, <4>2
    <3> QED  BY <2>1, <2>4, <3>9 DEF m
  <2> QED  BY <2>3, <2>4
<1> HIDE DEF G
<1>4. G = [T \in SUBSET D |->
             IF T = {} THEN << >>
             ELSE IF q[Max(T)] \in S
                  THEN Append(G[T \ {Max(T)}], q[Max(T)])
                  ELSE G[T \ {Max(T)}]]
  <2>1. G = [T \in SUBSET D |-> G[T]]  BY DEF G
  <2> QED  BY <1>2, <1>3, <2>1
<1>5. It = [T \in SUBSET D |->
              IF T = {} THEN << >>
              ELSE IF q[Max(T)] \in S
                   THEN Append(It[T \ {Max(T)}], q[Max(T)])
                   ELSE It[T \ {Max(T)}]]
  BY <1>4
<1>6. Keep(q, S) = It[D]
  BY DEF Keep, FoldLeft, MapThenFoldSet
<1> HIDE DEF It
<1>7. It[D] = G[D]
  <2>1. It[{}] = G[{}]  BY <1>2, <1>5
  <2>2. \A T \in SUBSET D : T # {} =>
          \E x \in T : It[T \ {x}] = G[T \ {x}] => It[T] = G[T]
    BY <1>3, <1>5
  <2> QED  BY <1>1, <2>1, <2>2, SameFold
<1>8. G[D] = Through(q, Enum(P(D)))  BY DEF G
<1> QED  BY <1>6, <1>7, <1>8 DEF Picked

(* Any numbering of the picked indices tells what is kept,                 *)
LEMMA KeepIs ==
  ASSUME NEW B, NEW q \in Seq(B), NEW S, NEW n, NEW pos,
         Numbers(pos, n, Picked(q, S))
  PROVE  Keep(q, S) = Through(q, pos) /\ DOMAIN pos = 1..n
<1>1. Picked(q, S) \in SUBSET Nat  BY LenProperties DEF Picked
<1>2. pos = Enum(Picked(q, S))  BY <1>1, OneNumbering
<1>3. DOMAIN pos = 1..n  BY DEF Numbers
<1> QED  BY <1>2, <1>3, KeepReads

(* and there is one, as long as the result.                                *)
LEMMA KeepNumbers ==
  ASSUME NEW B, NEW q \in Seq(B), NEW S
  PROVE  /\ Keep(q, S) \in Seq(B)
         /\ \E pos : /\ Numbers(pos, Len(Keep(q, S)), Picked(q, S))
                     /\ \A k \in 1..Len(Keep(q, S)) :
                          pos[k] \in 1..Len(q) /\ Keep(q, S)[k] = q[pos[k]]
<1> DEFINE I == Picked(q, S)
           n == Cardinality(I)
           pos == Enum(I)
<1>1. Len(q) \in Nat /\ DOMAIN q = 1..Len(q) /\ q \in [1..Len(q) -> B]
  BY LenProperties
<1>2. I \in SUBSET (1..Len(q))  BY <1>1 DEF Picked
<1>3. IsFiniteSet(I) /\ n \in Nat
  <2>1. \A m \in Nat : IsFiniteSet(1..m)  BY FS_Interval
  <2> HIDE DEF I
  <2> QED  BY <1>1, <1>2, <2>1, FS_Subset, FS_CardinalityType
<1>4. Numbers(pos, n, I)
  <2>1. I \in SUBSET Nat  BY <1>1, <1>2
  <2> HIDE DEF I
  <2> QED  BY <1>3, <2>1, SomeNumbering
<1> HIDE DEF n, pos
<1>5. Keep(q, S) = [k \in 1..n |-> q[pos[k]]]
  <2>1. Keep(q, S) = Through(q, pos) /\ DOMAIN pos = 1..n  BY <1>4, KeepIs
  <2> QED  BY <2>1 DEF Through
<1> HIDE DEF I
<1>6. \A k \in 1..n : pos[k] \in 1..Len(q)  BY <1>2, <1>4 DEF Numbers
<1>7. Keep(q, S) \in [1..n -> B]  BY <1>1, <1>5, <1>6
<1>8. Keep(q, S) \in Seq(B) /\ Len(Keep(q, S)) = n  BY <1>3, <1>7, SeqDef
<1> QED  BY <1>4, <1>5, <1>6, <1>8 DEF I

(* No element occurs twice.                                                *)
Once(s) == \A i, j \in 1..Len(s) : s[i] = s[j] => i = j

(* What is kept: the members of S, no more than there were, none twice.    *)
LEMMA KeepRange ==
  ASSUME NEW B, NEW q \in Seq(B), NEW S
  PROVE  /\ Keep(q, S) \in Seq(B)
         /\ ToSet(Keep(q, S)) = ToSet(q) \cap S
         /\ Once(q) => Once(Keep(q, S))
<1> DEFINE r == Keep(q, S)
           n == Len(r)
<1>1. r \in Seq(B) /\ n \in Nat /\ DOMAIN r = 1..n /\ DOMAIN q = 1..Len(q)
  BY KeepNumbers, LenProperties
<1>2. PICK pos : /\ Numbers(pos, n, Picked(q, S))
                 /\ \A k \in 1..n : pos[k] \in 1..Len(q) /\ r[k] = q[pos[k]]
  BY KeepNumbers
<1> HIDE DEF r, n
<1>3. \A i \in 1..Len(q) :
         q[i] \in S <=> \E k \in 1..n : pos[k] = i
  BY <1>1, <1>2 DEF Numbers, Picked
<1>4. ToSet(r) = ToSet(q) \cap S
  <2>1. ASSUME NEW b \in ToSet(r)  PROVE b \in ToSet(q) \cap S
    <3>1. PICK k \in 1..n : b = r[k]  BY <1>1 DEF ToSet
    <3>2. pos[k] \in 1..Len(q) /\ b = q[pos[k]]  BY <1>2, <3>1
    <3> QED  BY <1>1, <1>3, <3>2 DEF ToSet
  <2>2. ASSUME NEW b \in ToSet(q) \cap S  PROVE b \in ToSet(r)
    <3>1. PICK i \in 1..Len(q) : b = q[i]  BY <1>1 DEF ToSet
    <3>2. PICK k \in 1..n : pos[k] = i  BY <1>3, <3>1
    <3> QED  BY <1>1, <1>2, <3>1, <3>2 DEF ToSet
  <2> QED  BY <2>1, <2>2
<1>5. Once(q) => Once(r)
  <2> SUFFICES ASSUME Once(q), NEW i \in 1..n, NEW j \in 1..n, r[i] = r[j]
               PROVE i = j
    BY DEF Once, n
  <2>1. pos[i] = pos[j] /\ pos[i] \in Nat  BY <1>2 DEF Once
  <2>2. ~(i < j) /\ ~(j < i)  BY <1>2, <2>1 DEF Numbers
  <2> QED  BY <1>1, <2>2
<1> QED  BY <1>1, <1>4, <1>5 DEF r

(* Keeping twice is keeping what is in both sets.                          *)
LEMMA KeepKeep ==
  ASSUME NEW B, NEW q \in Seq(B), NEW S, NEW T
  PROVE  Keep(Keep(q, S), T) = Keep(q, S \cap T)
<1> DEFINE r == Keep(q, S)
           n == Len(r)
           u == Keep(r, T)
           m == Len(u)
<1>1. r \in Seq(B) /\ n \in Nat /\ DOMAIN r = 1..n /\ DOMAIN q = 1..Len(q)
  BY KeepNumbers, LenProperties
<1>2. PICK pos : /\ Numbers(pos, n, Picked(q, S))
                 /\ \A k \in 1..n : pos[k] \in 1..Len(q) /\ r[k] = q[pos[k]]
  BY KeepNumbers
<1> HIDE DEF r, n
<1>3. u \in Seq(B) /\ m \in Nat  BY <1>1, KeepNumbers, LenProperties
<1>4. PICK rho : /\ Numbers(rho, m, Picked(r, T))
                 /\ \A k \in 1..m : rho[k] \in 1..n /\ u[k] = r[rho[k]]
  BY <1>1, KeepNumbers DEF n
<1>5. u \in [1..m -> B]  BY <1>3, LenProperties
<1> HIDE DEF u, m
<1> DEFINE at == [k \in 1..m |-> pos[rho[k]]]
<1>6. \A k \in 1..m : /\ at[k] \in 1..Len(q) /\ u[k] = q[at[k]]
                      /\ rho[k] \in Picked(r, T) /\ pos[rho[k]] \in Picked(q, S)
  BY <1>2, <1>4 DEF Numbers
<1>7. Numbers(at, m, Picked(q, S \cap T))
  <2>1. at \in [1..m -> Picked(q, S \cap T)]
    <3>1. \A k \in 1..m : q[at[k]] \in S /\ r[rho[k]] \in T
      BY <1>6 DEF Picked
    <3>2. \A k \in 1..m : r[rho[k]] = q[at[k]]  BY <1>2, <1>4
    <3>3. \A k \in 1..m : at[k] \in Picked(q, S \cap T)
      BY <1>1, <1>6, <3>1, <3>2 DEF Picked
    <3> QED  BY <3>3
  <2>2. ASSUME NEW i \in Picked(q, S \cap T)
        PROVE  \E k \in 1..m : at[k] = i
    <3>1. i \in Picked(q, S) /\ q[i] \in T  BY DEF Picked
    <3>2. PICK j \in 1..n : pos[j] = i  BY <1>2, <3>1 DEF Numbers
    <3>3. j \in Picked(r, T)  BY <1>1, <1>2, <3>1, <3>2 DEF Picked
    <3>4. PICK k \in 1..m : rho[k] = j  BY <1>4, <3>3 DEF Numbers
    <3> QED  BY <3>2, <3>4
  <2>3. ASSUME NEW j \in 1..m, NEW k \in 1..m, j < k  PROVE at[j] < at[k]
    <3>1. rho[j] < rho[k]  BY <1>4, <2>3 DEF Numbers
    <3>2. rho[j] \in 1..n /\ rho[k] \in 1..n  BY <1>4
    <3> QED  BY <1>2, <3>1, <3>2 DEF Numbers
  <2> HIDE DEF at
  <2> QED  BY <1>3, <2>1, <2>2, <2>3 DEF Numbers
<1>8. Keep(q, S \cap T) = [k \in 1..m |-> q[at[k]]]
  <2> HIDE DEF at
  <2>1. Keep(q, S \cap T) = Through(q, at) /\ DOMAIN at = 1..m
    BY <1>7, KeepIs
  <2> QED  BY <2>1 DEF Through
<1>9. u = [k \in 1..m |-> q[at[k]]]
  <2> HIDE DEF at
  <2> QED  BY <1>5, <1>6
<1> QED  BY <1>8, <1>9 DEF u, r

(* When the picked elements come first, they are the beginning.            *)
LEMMA KeepInitial ==
  ASSUME NEW B, NEW q \in Seq(B), NEW S, NEW n \in 0..Len(q),
         \A i \in 1..Len(q) : q[i] \in S <=> i <= n
  PROVE  Keep(q, S) = [i \in 1..n |-> q[i]]
<1> DEFINE pos == [i \in 1..n |-> i]
<1>1. Len(q) \in Nat /\ DOMAIN q = 1..Len(q)  BY LenProperties
<1>2. Picked(q, S) = 1..n  BY <1>1 DEF Picked
<1>3. Numbers(pos, n, 1..n)  BY <1>1 DEF Numbers
<1>4. Keep(q, S) = Through(q, pos)
  <2> HIDE DEF pos
  <2> QED  BY <1>2, <1>3, KeepIs
<1> QED  BY <1>4 DEF Through

(* Nothing is skipped when everything is in the set.                       *)
LEMMA KeepAll ==
  ASSUME NEW B, NEW q \in Seq(B), NEW S, B \subseteq S
  PROVE  Keep(q, S) = q
<1>1. Len(q) \in Nat /\ q \in [1..Len(q) -> B]  BY LenProperties
<1>2. \A i \in 1..Len(q) : q[i] \in S <=> i <= Len(q)  BY <1>1
<1>3. Keep(q, S) = [i \in 1..Len(q) |-> q[i]]
  <2>1. Len(q) \in 0..Len(q)  BY <1>1
  <2> QED  BY <1>2, <2>1, KeepInitial
<1> QED  BY <1>1, <1>3

(* Without its element i, a sequence closes the gap.                       *)
LEMMA KeepOthers ==
  ASSUME NEW B, NEW q \in Seq(B), Once(q), NEW i \in 1..Len(q)
  PROVE  LET r == Keep(q, B \ {q[i]})
         IN  /\ Len(r) = Len(q) - 1
             /\ \A k \in 1..(Len(q) - 1) :
                  r[k] = IF k < i THEN q[k] ELSE q[k + 1]
<1> DEFINE n == Len(q)
           pos == [k \in 1..(n - 1) |-> IF k < i THEN k ELSE k + 1]
           r == Keep(q, B \ {q[i]})
<1>1. n \in Nat /\ DOMAIN q = 1..n /\ q \in [1..n -> B] /\ i \in 1..n
  BY LenProperties
<1> HIDE DEF n
<1>2. Picked(q, B \ {q[i]}) = (1..n) \ {i}
  BY <1>1 DEF Picked, Once, n
<1>3. Numbers(pos, n - 1, (1..n) \ {i})
  <2>1. n - 1 \in Nat  BY <1>1
  <2>2. pos \in [1..(n - 1) -> (1..n) \ {i}]
    <3>1. \A k \in 1..(n - 1) : pos[k] \in (1..n) \ {i}  BY <1>1
    <3> QED  BY <3>1
  <2>3. ASSUME NEW j \in (1..n) \ {i}  PROVE \E k \in 1..(n - 1) : pos[k] = j
    <3>1. CASE j < i
      <4>1. j \in 1..(n - 1) /\ pos[j] = j  BY <1>1, <3>1
      <4> QED  BY <4>1
    <3>2. CASE ~(j < i)
      <4>1. j - 1 \in 1..(n - 1) /\ pos[j - 1] = j  BY <1>1, <3>2
      <4> QED  BY <4>1
    <3> QED  BY <3>1, <3>2
  <2>4. \A j, k \in 1..(n - 1) : j < k => pos[j] < pos[k]  BY <1>1
  <2> HIDE DEF pos
  <2> QED  BY <2>1, <2>2, <2>3, <2>4 DEF Numbers
<1>4. r = [k \in 1..(n - 1) |-> q[pos[k]]]
  <2> HIDE DEF pos
  <2>1. Numbers(pos, n - 1, Picked(q, B \ {q[i]}))  BY <1>2, <1>3
  <2>2. r = Through(q, pos) /\ DOMAIN pos = 1..(n - 1)  BY <2>1, KeepIs
  <2> QED  BY <2>2 DEF Through
<1>5. r \in Seq(B) /\ DOMAIN r = 1..Len(r) /\ Len(r) \in Nat
  BY KeepNumbers, LenProperties
<1>6. Len(r) = n - 1
  <2>1. DOMAIN r = 1..(n - 1)  BY <1>4
  <2> HIDE DEF r
  <2> QED  BY <1>1, <1>5, <2>1
<1>7. \A k \in 1..(n - 1) : r[k] = IF k < i THEN q[k] ELSE q[k + 1]
  BY <1>4
<1> QED  BY <1>6, <1>7 DEF n

-----------------------------------------------------------------------------
(* The pointers that chain a sequence of blocks between the sentinels.     *)

(* Node i of the list: the head is node 0, the tail the one after the last.*)
Node(s, i) ==
  IF i = 0 THEN FakeHead ELSE IF i = Len(s) + 1 THEN FakeTail ELSE s[i]

Links == [next : [Nodes -> Nodes \cup {None}], prev : [Nodes -> Nodes \cup {None}]]

(* Each node points at the next one and back; blocks outside at nothing.   *)
Chains(l, s) ==
  /\ l \in Links
  /\ \A i \in 0..Len(s) : /\ l.next[Node(s, i)] = Node(s, i + 1)
                          /\ l.prev[Node(s, i + 1)] = Node(s, i)
  /\ \A b \in Blocks \ ToSet(s) : l.next[b] = None /\ l.prev[b] = None
  /\ l.next[FakeTail] = None /\ l.prev[FakeHead] = None

(* What is used of a sequence of blocks.                                   *)
LEMMA SeqFacts ==
  ASSUME NEW s \in Seq(Blocks)
  PROVE  /\ Len(s) \in Nat /\ DOMAIN s = 1..Len(s) /\ s \in [1..Len(s) -> Blocks]
         /\ ToSet(s) = {s[i] : i \in 1..Len(s)} /\ ToSet(s) \subseteq Blocks
BY LenProperties DEF ToSet

(* A sequence without repetition has as many elements as places.           *)
LEMMA OnceCounts ==
  ASSUME NEW s \in Seq(Blocks), Once(s)
  PROVE  /\ IsFiniteSet(ToSet(s)) /\ Cardinality(ToSet(s)) = Len(s)
         /\ Len(s) <= Cardinality(Blocks) /\ Cardinality(Blocks) \in Nat
<1> DEFINE n == Len(s)
<1>1. n \in Nat /\ s \in [1..n -> Blocks]  BY SeqFacts
<1>2. s \in Bijection(1..n, ToSet(s))
  <2>1. \A i \in 1..n : s[i] \in ToSet(s)  BY SeqFacts
  <2>2. \A b \in ToSet(s) : \E i \in 1..n : s[i] = b  BY SeqFacts
  <2>3. s \in [1..n -> ToSet(s)]  BY <1>1, <2>1
  <2> QED  BY <2>2, <2>3 DEF Once, Bijection, Injection, Surjection, IsInjective
<1>3. ExistsBijection(1..n, ToSet(s))  BY <1>2 DEF ExistsBijection
<1>4. IsFiniteSet(1..n) /\ Cardinality(1..n) = n
  <2>1. \A m \in Nat : IsFiniteSet(1..m) /\ Cardinality(1..m) = m  BY FS_Interval
  <2> QED  BY <1>1, <2>1
<1>5. IsFiniteSet(ToSet(s)) /\ Cardinality(ToSet(s)) = n
  BY <1>3, <1>4, FS_Bijection
<1>6. ToSet(s) \in SUBSET Blocks  BY SeqFacts
<1>7. Cardinality(ToSet(s)) <= Cardinality(Blocks)
  BY <1>6, BlocksAssumption, FS_Subset
<1>8. Cardinality(Blocks) \in Nat  BY BlocksAssumption, FS_CardinalityType
<1> QED  BY <1>5, <1>7, <1>8

(* The nodes of a list are different from each other.                      *)
LEMMA NodeFacts ==
  ASSUME NEW s \in Seq(Blocks), Once(s)
  PROVE  /\ \A i \in 0..(Len(s) + 1) : Node(s, i) \in Nodes
         /\ \A i, j \in 0..(Len(s) + 1) : Node(s, i) = Node(s, j) => i = j
         /\ \A i \in 1..Len(s) : Node(s, i) = s[i] /\ s[i] \in Blocks
         /\ Node(s, 0) = FakeHead /\ Node(s, Len(s) + 1) = FakeTail
<1>1. Len(s) \in Nat /\ \A i \in 1..Len(s) : s[i] \in Blocks  BY SeqFacts
<1>2. \A i \in 0..(Len(s) + 1) : i = 0 \/ i = Len(s) + 1 \/ i \in 1..Len(s)
  BY <1>1
<1>3. \A i \in 1..Len(s) : Node(s, i) = s[i]  BY <1>1 DEF Node
<1>4. Node(s, 0) = FakeHead /\ Node(s, Len(s) + 1) = FakeTail  BY <1>1 DEF Node
<1>5. FakeHead \notin Blocks /\ FakeTail \notin Blocks /\ FakeHead # FakeTail
  BY SentinelAssumption
<1>6. \A i, j \in 1..Len(s) : s[i] = s[j] => i = j  BY DEF Once
<1>7. \A i \in 0..(Len(s) + 1) : Node(s, i) \in Nodes
  BY <1>1, <1>2, <1>3, <1>4 DEF Nodes
<1>8. \A i, j \in 0..(Len(s) + 1) : Node(s, i) = Node(s, j) => i = j
  BY <1>1, <1>2, <1>3, <1>4, <1>5, <1>6
<1> QED  BY <1>1, <1>3, <1>4, <1>7, <1>8

(* Every node is a sentinel, in the chain or outside it.                   *)
LEMMA NodeCases ==
  ASSUME NEW s \in Seq(Blocks), Once(s), NEW x \in Nodes
  PROVE  \/ \E i \in 0..(Len(s) + 1) : x = Node(s, i)
         \/ x \in Blocks \ ToSet(s)
<1>1. Len(s) \in Nat  BY SeqFacts
<1>2. CASE x = FakeHead
  <2>1. 0 \in 0..(Len(s) + 1) /\ x = Node(s, 0)  BY <1>1, <1>2, NodeFacts
  <2> QED  BY <2>1
<1>3. CASE x = FakeTail
  <2>1. Len(s) + 1 \in 0..(Len(s) + 1) /\ x = Node(s, Len(s) + 1)
    BY <1>1, <1>3, NodeFacts
  <2> QED  BY <2>1
<1>4. CASE x \in ToSet(s)
  <2>1. PICK i \in 1..Len(s) : x = s[i]  BY <1>4, SeqFacts
  <2>2. i \in 0..(Len(s) + 1) /\ x = Node(s, i)  BY <1>1, <2>1, NodeFacts
  <2> QED  BY <2>2
<1> QED  BY <1>2, <1>3, <1>4 DEF Nodes

(* A sequence has one chain only,                                          *)
LEMMA OneChain ==
  ASSUME NEW s \in Seq(Blocks), Once(s), NEW l, NEW m, Chains(l, s), Chains(m, s)
  PROVE  l = m
<1>1. Len(s) \in Nat  BY SeqFacts
<1>2. ASSUME NEW x \in Nodes  PROVE l.next[x] = m.next[x] /\ l.prev[x] = m.prev[x]
  <2>1. CASE x \in Blocks \ ToSet(s)  BY <2>1 DEF Chains
  <2>2. CASE \E i \in 0..(Len(s) + 1) : x = Node(s, i)
    <3>1. PICK i \in 0..(Len(s) + 1) : x = Node(s, i)  BY <2>2
    <3>2. l.next[x] = m.next[x]
      <4>1. CASE i \in 0..Len(s)  BY <3>1, <4>1 DEF Chains
      <4>2. CASE i = Len(s) + 1  BY <3>1, <4>2, NodeFacts DEF Chains
      <4> QED  BY <1>1, <4>1, <4>2
    <3>3. l.prev[x] = m.prev[x]
      <4>1. CASE i - 1 \in 0..Len(s)
        <5>1. x = Node(s, i - 1 + 1)  BY <1>1, <3>1
        <5> QED  BY <4>1, <5>1 DEF Chains
      <4>2. CASE i = 0  BY <3>1, <4>2, NodeFacts DEF Chains
      <4> QED  BY <1>1, <4>1, <4>2
    <3> QED  BY <3>2, <3>3
  <2> QED  BY <2>1, <2>2, NodeCases
<1>3. l \in Links /\ m \in Links  BY DEF Chains
<1>4. l.next = m.next
  <2>1. l.next = [x \in Nodes |-> l.next[x]] /\ m.next = [x \in Nodes |-> m.next[x]]
    BY <1>3 DEF Links
  <2> QED  BY <1>2, <2>1
<1>5. l.prev = m.prev
  <2>1. l.prev = [x \in Nodes |-> l.prev[x]] /\ m.prev = [x \in Nodes |-> m.prev[x]]
    BY <1>3 DEF Links
  <2> QED  BY <1>2, <2>1
<1> QED  BY <1>3, <1>4, <1>5 DEF Links

(* The list of a queue without blocks.                                     *)
LEMMA EmptyChains == Chains(Empty, << >>)
<1>1. Empty \in Links  BY DEF Empty, Links, Nodes
<1>2. Len(<< >>) = 0 /\ \A i \in 0..0 : i = 0  OBVIOUS
<1>3. Node(<< >>, 0) = FakeHead /\ Node(<< >>, 1) = FakeTail  BY DEF Node
<1>4. /\ Empty.next[FakeHead] = FakeTail /\ Empty.prev[FakeTail] = FakeHead
      /\ Empty.next[FakeTail] = None /\ Empty.prev[FakeHead] = None
      /\ \A b \in Blocks : Empty.next[b] = None /\ Empty.prev[b] = None
  BY SentinelAssumption DEF Empty, Nodes
<1> QED  BY <1>1, <1>2, <1>3, <1>4 DEF Chains

(* Walking a chain from the head finds its blocks in order.                *)
LEMMA ListedChain ==
  ASSUME NEW s \in Seq(Blocks), Once(s), NEW l, Chains(l, s)
  PROVE  Listed(l) = s
<1> DEFINE N == Cardinality(Blocks)
           n == Len(s)
           G == [k \in 0..N |-> IF k < n THEN s[k + 1] ELSE FakeTail]
           hop == CHOOSE H : H = [k \in 0..N |->
                    IF k = 0 THEN l.next[FakeHead]
                    ELSE IF H[k - 1] \in Blocks THEN l.next[H[k - 1]] ELSE H[k - 1]]
           walk == [i \in 1..(N + 1) |-> hop[i - 1]]
<1>1. n \in Nat /\ N \in Nat /\ n <= N /\ \A i \in 1..n : s[i] \in Blocks
  BY OnceCounts, SeqFacts
<1>2. FakeTail \notin Blocks  BY SentinelAssumption
<1>3. l.next[FakeHead] = IF 0 < n THEN s[1] ELSE FakeTail
  <2>1. l.next[Node(s, 0)] = Node(s, 0 + 1)  BY <1>1 DEF Chains
  <2>2. Node(s, 1) = IF 0 < n THEN s[1] ELSE FakeTail  BY <1>1 DEF Node
  <2> QED  BY <2>1, <2>2, NodeFacts
<1>4. ASSUME NEW i \in 1..n
      PROVE  l.next[s[i]] = IF i < n THEN s[i + 1] ELSE FakeTail
  <2>1. l.next[Node(s, i)] = Node(s, i + 1)  BY <1>1 DEF Chains
  <2>2. Node(s, i) = s[i]  BY NodeFacts
  <2>3. Node(s, i + 1) = IF i < n THEN s[i + 1] ELSE FakeTail  BY <1>1 DEF Node
  <2> QED  BY <2>1, <2>2, <2>3
<1> HIDE DEF n, N
<1>5. G = [k \in 0..N |->
             IF k = 0 THEN l.next[FakeHead]
             ELSE IF G[k - 1] \in Blocks THEN l.next[G[k - 1]] ELSE G[k - 1]]
  <2>1. G[0] = l.next[FakeHead]  BY <1>1, <1>3
  <2>2. ASSUME NEW k \in 0..N, k # 0
        PROVE  G[k] = IF G[k - 1] \in Blocks THEN l.next[G[k - 1]] ELSE G[k - 1]
    <3>1. k - 1 \in 0..N /\ k - 1 + 1 = k  BY <1>1, <2>2
    <3>2. G[k - 1] = IF k - 1 < n THEN s[k] ELSE FakeTail  BY <3>1
    <3>3. CASE k - 1 < n
      <4>1. k \in 1..n  BY <1>1, <2>2, <3>3
      <4>2. G[k - 1] = s[k] /\ s[k] \in Blocks  BY <1>1, <3>2, <3>3, <4>1
      <4>3. G[k] = IF k < n THEN s[k + 1] ELSE FakeTail  OBVIOUS
      <4> HIDE DEF G
      <4> QED  BY <1>4, <4>1, <4>2, <4>3
    <3>4. CASE ~(k - 1 < n)
      <4>1. ~(k < n)  BY <1>1, <3>4
      <4>2. G[k] = FakeTail  BY <4>1
      <4> HIDE DEF G
      <4> QED  BY <1>2, <3>2, <3>4, <4>2
    <3> QED  BY <3>3, <3>4
  <2>3. G = [k \in 0..N |-> G[k]]  OBVIOUS
  <2> HIDE DEF G
  <2> QED  BY <2>1, <2>2, <2>3
<1> HIDE DEF G
<1>6. hop = [k \in 0..N |->
               IF k = 0 THEN l.next[FakeHead]
               ELSE IF hop[k - 1] \in Blocks THEN l.next[hop[k - 1]] ELSE hop[k - 1]]
  BY <1>5
<1> HIDE DEF hop
<1>7. \A k \in 0..N : hop[k] = G[k]
  <2> DEFINE D == {k \in 0..N : hop[k] # G[k]}
  <2>1. SUFFICES ASSUME D # {}  PROVE FALSE  OBVIOUS
  <2>2. PICK k \in D : \A j \in D : k <= j
    <3>1. D \in SUBSET Nat  BY <1>1
    <3> HIDE DEF D
    <3> QED  BY <2>1, <3>1, LeastIndex
  <2>3. k # 0  BY <1>1, <1>5, <1>6
  <2>4. k - 1 \in 0..N /\ k - 1 \notin D  BY <1>1, <2>2, <2>3
  <2>5. hop[k - 1] = G[k - 1]  BY <2>4
  <2>6. hop[k] = G[k]  BY <1>5, <1>6, <2>2, <2>5
  <2> QED  BY <2>2, <2>6
<1>8. Listed(l) = Keep(walk, Blocks)  BY DEF Listed, hop, N
<1>9. \A i \in 1..(N + 1) : walk[i] = IF i <= n THEN s[i] ELSE FakeTail
  <2> TAKE i \in 1..(N + 1)
  <2>1. i - 1 \in 0..N /\ i - 1 + 1 = i /\ (i - 1 < n <=> i <= n)  BY <1>1
  <2> QED  BY <1>7, <2>1 DEF G
<1>10. walk \in Seq(Nodes) /\ Len(walk) = N + 1
  <2>1. \A i \in 1..(N + 1) : walk[i] \in Nodes
    <3> HIDE DEF walk
    <3> QED  BY <1>1, <1>9 DEF Nodes
  <2>2. walk \in [1..(N + 1) -> Nodes]
    <3>1. walk = [i \in 1..(N + 1) |-> walk[i]]  OBVIOUS
    <3> HIDE DEF walk
    <3> QED  BY <2>1, <3>1
  <2>3. N + 1 \in Nat  BY <1>1
  <2> HIDE DEF walk
  <2> QED  BY <2>2, <2>3, SeqDef
<1> HIDE DEF walk
<1>11. Keep(walk, Blocks) = [i \in 1..n |-> walk[i]]
  <2>1. n \in 0..Len(walk)  BY <1>1, <1>10
  <2>2. \A i \in 1..Len(walk) : walk[i] \in Blocks <=> i <= n
    BY <1>1, <1>2, <1>9, <1>10
  <2> QED  BY <1>10, <2>1, <2>2, KeepInitial
<1>12. \A i \in 1..n : walk[i] = s[i]  BY <1>1, <1>9
<1>13. s = [i \in 1..n |-> s[i]]  BY SeqFacts DEF n
<1> QED  BY <1>8, <1>11, <1>12, <1>13

(* Unlinking a block of a chain leaves the chain of the others.            *)
LEMMA UnlinkChains ==
  ASSUME NEW s \in Seq(Blocks), Once(s), NEW l, Chains(l, s), NEW i \in 1..Len(s)
  PROVE  Chains(Unlink(l, s[i]), Keep(s, Blocks \ {s[i]}))
<1> DEFINE n == Len(s)
           b == s[i]
           t == Keep(s, Blocks \ {b})
           m == Unlink(l, b)
<1>1. n \in Nat /\ i \in 1..n /\ b \in Blocks /\ b \in Nodes  BY SeqFacts DEF Nodes
<1>2. /\ t \in Seq(Blocks) /\ ToSet(t) = ToSet(s) \cap (Blocks \ {b})
      /\ Len(t) = n - 1
      /\ \A k \in 1..(n - 1) : t[k] = IF k < i THEN s[k] ELSE s[k + 1]
  BY KeepRange, KeepOthers
<1> DEFINE p == Node(s, i - 1)
           x == Node(s, i + 1)
<1>3. /\ l \in Links /\ l.prev[b] = p /\ l.next[b] = x
      /\ p \in Nodes /\ x \in Nodes /\ p # b /\ x # b
  <2>1. i - 1 \in 0..n /\ i \in 0..n /\ i - 1 + 1 = i /\ Node(s, i) = b
    BY <1>1, NodeFacts
  <2>2. l.prev[b] = p /\ l.next[b] = x /\ l \in Links  BY <2>1 DEF Chains
  <2>3. /\ i - 1 \in 0..(n + 1) /\ i + 1 \in 0..(n + 1) /\ i \in 0..(n + 1)
        /\ i - 1 # i /\ i + 1 # i
    BY <1>1
  <2>4. p \in Nodes /\ x \in Nodes /\ p # b /\ x # b  BY <2>1, <2>3, NodeFacts
  <2> QED  BY <2>2, <2>4
<1> HIDE DEF b, t
<1>4. /\ m.next = [y \in Nodes |-> IF y = b THEN None
                                   ELSE IF y = p THEN x ELSE l.next[y]]
      /\ m.prev = [y \in Nodes |-> IF y = b THEN None
                                   ELSE IF y = x THEN p ELSE l.prev[y]]
      /\ m = [next |-> m.next, prev |-> m.prev]
  <2> HIDE DEF p, x
  <2>1. /\ l.next \in [Nodes -> Nodes \cup {None}]
        /\ l.prev \in [Nodes -> Nodes \cup {None}]
    BY <1>3 DEF Links
  <2>2. m.next = [l.next EXCEPT ![p] = x, ![b] = None]  BY <1>3 DEF Unlink
  <2>3. m.prev = [l.prev EXCEPT ![x] = p, ![b] = None]  BY <1>3 DEF Unlink
  <2>4. m = [next |-> m.next, prev |-> m.prev]  BY DEF Unlink
  <2> HIDE DEF m
  <2> QED  BY <1>1, <1>3, <2>1, <2>2, <2>3, <2>4
<1> HIDE DEF m
<1>5. m \in Links
  <2> HIDE DEF p, x
  <2>1. \A y \in Nodes : l.next[y] \in Nodes \cup {None} /\ l.prev[y] \in Nodes \cup {None}
    BY <1>3 DEF Links
  <2>2. /\ m.next \in [Nodes -> Nodes \cup {None}]
        /\ m.prev \in [Nodes -> Nodes \cup {None}]
    BY <1>3, <1>4, <2>1
  <2> QED  BY <1>4, <2>2 DEF Links
<1>6. ASSUME NEW k \in 0..n
      PROVE  Node(t, k) = IF k < i THEN Node(s, k) ELSE Node(s, k + 1)
  <2>1. CASE k = 0  BY <1>1, <2>1 DEF Node
  <2>2. CASE k = n  BY <1>1, <1>2, <2>2 DEF Node
  <2>3. CASE k \in 1..(n - 1)  BY <1>1, <1>2, <2>3 DEF Node
  <2> QED  BY <1>1, <2>1, <2>2, <2>3
<1>7. ASSUME NEW k \in 0..(n - 1)
      PROVE  /\ m.next[Node(t, k)] = Node(t, k + 1)
             /\ m.prev[Node(t, k + 1)] = Node(t, k)
  <2>0. k \in 0..n /\ k + 1 \in 0..n /\ k \in Nat  BY <1>1
  <2>1. CASE k = i - 1
    <3>1. Node(t, k) = p /\ Node(t, k + 1) = x  BY <1>1, <1>6, <2>0, <2>1
    <3> HIDE DEF p, x
    <3> QED  BY <1>3, <1>4, <3>1
  <2>2. CASE k # i - 1
    <3> DEFINE j == IF k < i THEN k ELSE k + 1
    <3>1. /\ j \in 0..n /\ j \in 0..(n + 1) /\ j + 1 \in 0..(n + 1)
          /\ j # i /\ j # i - 1 /\ j + 1 # i /\ j + 1 # i + 1
      BY <1>1, <2>0, <2>2
    <3>2. Node(t, k) = Node(s, j) /\ Node(t, k + 1) = Node(s, j + 1)
      BY <1>1, <1>6, <2>0, <2>2
    <3> HIDE DEF j
    <3>3. l.next[Node(s, j)] = Node(s, j + 1) /\ l.prev[Node(s, j + 1)] = Node(s, j)
      BY <3>1 DEF Chains
    <3>4. i \in 0..(n + 1) /\ i - 1 \in 0..(n + 1) /\ i + 1 \in 0..(n + 1) /\ Node(s, i) = b
      BY <1>1, NodeFacts DEF b
    <3>5. /\ Node(s, j) \in Nodes /\ Node(s, j + 1) \in Nodes
          /\ Node(s, j) # b /\ Node(s, j) # p /\ Node(s, j + 1) # b /\ Node(s, j + 1) # x
      BY <3>1, <3>4, NodeFacts
    <3> HIDE DEF p, x
    <3> QED  BY <1>4, <3>2, <3>3, <3>5
  <2> QED  BY <2>1, <2>2
<1>8. ASSUME NEW c \in Blocks \ ToSet(t)  PROVE m.next[c] = None /\ m.prev[c] = None
  <2>1. CASE c = b  BY <1>1, <1>4, <2>1
  <2>2. CASE c # b
    <3>1. c \in Blocks \ ToSet(s) /\ c \in Nodes  BY <1>2, <2>2 DEF Nodes
    <3>2. \A j \in 0..(n + 1) : Node(s, j) # c
      <4>1. \A j \in 1..n : s[j] # c  BY <3>1, SeqFacts
      <4> QED  BY <1>1, <3>1, <4>1, SentinelAssumption DEF Node
    <3>3. c # p /\ c # x  BY <1>1, <3>2
    <3>4. l.next[c] = None /\ l.prev[c] = None  BY <3>1 DEF Chains
    <3> HIDE DEF p, x
    <3> QED  BY <1>4, <2>2, <3>1, <3>3, <3>4
  <2> QED  BY <2>1, <2>2
<1>9. m.next[FakeTail] = None /\ m.prev[FakeHead] = None
  <2>1. FakeTail # p /\ FakeHead # x
    <3>1. /\ i - 1 \in 0..(n + 1) /\ i + 1 \in 0..(n + 1) /\ 0 \in 0..(n + 1)
          /\ n + 1 \in 0..(n + 1) /\ i - 1 # n + 1 /\ i + 1 # 0
      BY <1>1
    <3> QED  BY <3>1, NodeFacts
  <2>2. FakeTail # b /\ FakeHead # b /\ FakeTail \in Nodes /\ FakeHead \in Nodes
    BY <1>1, SentinelAssumption DEF Nodes
  <2>3. l.next[FakeTail] = None /\ l.prev[FakeHead] = None  BY DEF Chains
  <2> HIDE DEF p, x
  <2> QED  BY <1>4, <2>1, <2>2, <2>3
<1>10. Chains(m, t)  BY <1>1, <1>2, <1>5, <1>7, <1>8, <1>9 DEF Chains
<1> QED  BY <1>10 DEF m, t, b

(* Linking other blocks in behind a chain makes it longer at that end.     *)
LEMMA LinkAllChains ==
  ASSUME NEW s \in Seq(Blocks), Once(s), NEW l, Chains(l, s),
         NEW t \in Seq(Blocks), Once(t), t # << >>, ToSet(s) \cap ToSet(t) = {}
  PROVE  Chains(LinkAll(l, t), s \o t) /\ Once(s \o t) /\ s \o t \in Seq(Blocks)
<1> DEFINE n == Len(s)
           m == Len(t)
           u == s \o t
           last == l.prev[FakeTail]
           pred(i) == IF i = 1 THEN last ELSE t[i - 1]
           succ(i) == IF i = m THEN FakeTail ELSE t[i + 1]
           at(x) == CHOOSE i \in 1..m : t[i] = x
           r == LinkAll(l, t)
<1>1. /\ n \in Nat /\ m \in Nat /\ m # 0
      /\ \A i \in 1..n : s[i] \in ToSet(s) /\ s[i] \in Blocks
      /\ \A i \in 1..m : t[i] \in ToSet(t) /\ t[i] \in Blocks
      /\ ToSet(s) \subseteq Blocks /\ ToSet(t) \subseteq Blocks
  <2>1. m # 0  BY EmptySeq
  <2> QED  BY <2>1, SeqFacts
<1>2. /\ u \in Seq(Blocks) /\ Len(u) = n + m
      /\ \A k \in 1..n : u[k] = s[k]
      /\ \A k \in 1..m : u[n + k] = t[k]
  <2>1. /\ u \in Seq(Blocks) /\ Len(u) = n + m
        /\ \A k \in 1..(n + m) : u[k] = IF k <= n THEN s[k] ELSE t[k - n]
    BY ConcatProperties
  <2> HIDE DEF u, n, m
  <2>2. \A k \in 1..n : k \in 1..(n + m) /\ k <= n  BY <1>1
  <2>3. \A k \in 1..m : n + k \in 1..(n + m) /\ ~(n + k <= n) /\ n + k - n = k
    BY <1>1
  <2>4. \A k \in 1..n : u[k] = s[k]  BY <2>1, <2>2
  <2>5. ASSUME NEW k \in 1..m  PROVE u[n + k] = t[k]
    <3>1. u[n + k] = IF n + k <= n THEN s[n + k] ELSE t[n + k - n]
      BY <1>1, <2>1, <2>3
    <3> QED  BY <2>3, <3>1
  <2> QED  BY <2>1, <2>4, <2>5
<1>3. Once(u)
  <2>1. \A k \in 1..(n + m) : k \in 1..n \/ (k - n \in 1..m /\ k = n + (k - n))
    BY <1>1
  <2>2. ASSUME NEW j \in 1..(n + m), NEW k \in 1..(n + m), u[j] = u[k]  PROVE j = k
    <3>1. CASE j \in 1..n /\ k \in 1..n  BY <1>2, <2>2, <3>1 DEF Once
    <3>2. CASE j \in 1..n /\ k \notin 1..n
      <4>1. k - n \in 1..m /\ u[k] = t[k - n]  BY <1>2, <2>1, <3>2
      <4> QED  BY <1>1, <1>2, <2>2, <3>2, <4>1
    <3>3. CASE j \notin 1..n /\ k \in 1..n
      <4>1. j - n \in 1..m /\ u[j] = t[j - n]  BY <1>2, <2>1, <3>3
      <4> QED  BY <1>1, <1>2, <2>2, <3>3, <4>1
    <3>4. CASE j \notin 1..n /\ k \notin 1..n
      <4>1. /\ j - n \in 1..m /\ u[j] = t[j - n]
            /\ k - n \in 1..m /\ u[k] = t[k - n]
        BY <1>2, <2>1, <3>4
      <4>2. j - n = k - n  BY <2>2, <4>1 DEF Once
      <4> QED  BY <1>1, <4>2
    <3> QED  BY <3>1, <3>2, <3>3, <3>4
  <2> QED  BY <1>2, <2>2 DEF Once
<1>4. last = Node(s, n) /\ last \in Nodes /\ last \notin ToSet(t) /\ last # FakeTail
  <2>1. n \in 0..n /\ n \in 0..(n + 1) /\ n + 1 \in 0..(n + 1) /\ n # n + 1  BY <1>1
  <2>2. l.prev[Node(s, n + 1)] = Node(s, n)  BY <2>1 DEF Chains
  <2>3. last = Node(s, n)  BY <2>2, NodeFacts
  <2>4. Node(s, n) \in Nodes /\ Node(s, n) # FakeTail  BY <2>1, NodeFacts
  <2>5. Node(s, n) = FakeHead \/ (n \in 1..n /\ Node(s, n) = s[n])  BY <1>1 DEF Node
  <2>6. FakeHead \notin Blocks  BY SentinelAssumption
  <2> HIDE DEF n
  <2>7. Node(s, n) \notin ToSet(t)  BY <1>1, <2>5, <2>6
  <2> QED  BY <2>3, <2>4, <2>7
<1>5. \A i \in 1..m : at(t[i]) = i  BY DEF Once
<1>6. /\ r.next = [x \in Nodes |-> IF x \in ToSet(t) THEN succ(at(x))
                                   ELSE IF x = last THEN t[1] ELSE l.next[x]]
      /\ r.prev = [x \in Nodes |-> IF x \in ToSet(t) THEN pred(at(x))
                                   ELSE IF x = FakeTail THEN t[m] ELSE l.prev[x]]
      /\ r = [next |-> r.next, prev |-> r.prev]
  BY DEF LinkAll
<1>7. \A i \in 1..m : /\ r.next[t[i]] = succ(i) /\ r.prev[t[i]] = pred(i)
  <2> TAKE i \in 1..m
  <2>1. t[i] \in ToSet(t) /\ t[i] \in Nodes /\ at(t[i]) = i  BY <1>1, <1>5 DEF Nodes
  <2> HIDE DEF r, at, succ, pred, last
  <2> QED  BY <1>6, <2>1
<1>8. /\ \A x \in Nodes \ ToSet(t) :
           /\ r.next[x] = IF x = last THEN t[1] ELSE l.next[x]
           /\ r.prev[x] = IF x = FakeTail THEN t[m] ELSE l.prev[x]
  <2> HIDE DEF r, at, succ, pred, last
  <2> QED  BY <1>6
<1> HIDE DEF r, at
<1>9. r \in Links
  <2>1. \A y \in Nodes : l.next[y] \in Nodes \cup {None} /\ l.prev[y] \in Nodes \cup {None}
    BY DEF Links, Chains
  <2>2. \A i \in 1..m : t[i] \in Nodes  BY <1>1 DEF Nodes
  <2>3. \A i \in 1..m : succ(i) \in Nodes /\ pred(i) \in Nodes
    <3> TAKE i \in 1..m
    <3>1. i = m \/ i + 1 \in 1..m  BY <1>1
    <3>2. i = 1 \/ i - 1 \in 1..m  BY <1>1
    <3>3. FakeTail \in Nodes  BY DEF Nodes
    <3> QED  BY <1>4, <2>2, <3>1, <3>2, <3>3
  <2>4. 1 \in 1..m /\ m \in 1..m  BY <1>1
  <2> HIDE DEF succ, pred, last, m
  <2>5. ASSUME NEW x \in Nodes
        PROVE  r.next[x] \in Nodes \cup {None} /\ r.prev[x] \in Nodes \cup {None}
    <3>1. CASE x \in ToSet(t)
      <4>1. PICK i \in 1..m : x = t[i]  BY <3>1, SeqFacts DEF m
      <4> QED  BY <1>7, <2>3, <4>1
    <3>2. CASE x \notin ToSet(t)  BY <1>8, <2>1, <2>2, <2>4, <3>2
    <3> QED  BY <3>1, <3>2
  <2>6. r.next = [x \in Nodes |-> r.next[x]] /\ r.prev = [x \in Nodes |-> r.prev[x]]
    <3>1. /\ r.next = [x \in Nodes |-> IF x \in ToSet(t) THEN succ(at(x))
                                   ELSE IF x = last THEN t[1] ELSE l.next[x]]
          /\ r.prev = [x \in Nodes |-> IF x \in ToSet(t) THEN pred(at(x))
                                   ELSE IF x = FakeTail THEN t[m] ELSE l.prev[x]]
      BY <1>6 DEF m
    <3>2. DOMAIN r.next = Nodes /\ DOMAIN r.prev = Nodes  BY <3>1
    <3> QED  BY <3>1, <3>2
  <2>7. r.next \in [Nodes -> Nodes \cup {None}] /\ r.prev \in [Nodes -> Nodes \cup {None}]
    BY <2>5, <2>6
  <2> QED  BY <1>6, <2>7 DEF Links
<1>10. /\ \A k \in 0..n : Node(u, k) = Node(s, k)
       /\ \A i \in 1..m : Node(u, n + i) = t[i]
       /\ Node(u, n + m + 1) = FakeTail
  <2>1. \A k \in 0..n : Node(u, k) = Node(s, k)
    <3> TAKE k \in 0..n
    <3>1. k = 0 \/ k \in 1..n  BY <1>1
    <3>2. k # n + m + 1 /\ k # n + 1  BY <1>1
    <3> QED  BY <1>2, <3>1, <3>2 DEF Node
  <2>2. \A i \in 1..m : Node(u, n + i) = t[i]
    <3> TAKE i \in 1..m
    <3>1. n + i # 0 /\ n + i # n + m + 1  BY <1>1
    <3> QED  BY <1>2, <3>1 DEF Node
  <2>3. Node(u, n + m + 1) = FakeTail
    <3>1. n + m + 1 # 0  BY <1>1
    <3> QED  BY <1>2, <3>1 DEF Node
  <2> QED  BY <2>1, <2>2, <2>3
<1>11. ASSUME NEW k \in 0..(n + m)
       PROVE  /\ r.next[Node(u, k)] = Node(u, k + 1)
              /\ r.prev[Node(u, k + 1)] = Node(u, k)
  <2> HIDE DEF u
  <2>0. k = n \/ k < n \/ k - n \in 1..m  BY <1>1
  <2>1. CASE k = n
    <3>1. n \in 0..n /\ 1 \in 1..m  BY <1>1
    <3>2. Node(u, k) = last /\ Node(u, k + 1) = t[1]  BY <1>4, <1>10, <2>1, <3>1
    <3>3. r.next[last] = t[1] /\ r.prev[t[1]] = pred(1)  BY <1>4, <1>7, <1>8, <3>1
    <3> QED  BY <3>2, <3>3
  <2>2. CASE k < n
    <3>1. /\ k \in 0..n /\ k + 1 \in 0..n /\ k \in 0..(n + 1) /\ k + 1 \in 0..(n + 1)
          /\ k + 1 \in 1..n /\ n \in 0..(n + 1) /\ n + 1 \in 0..(n + 1)
          /\ k # n /\ k + 1 # n + 1
      BY <1>1, <2>2
    <3>2. Node(u, k) = Node(s, k) /\ Node(u, k + 1) = Node(s, k + 1)  BY <1>10, <3>1
    <3>3. l.next[Node(s, k)] = Node(s, k + 1) /\ l.prev[Node(s, k + 1)] = Node(s, k)
      BY <3>1 DEF Chains
    <3>4. /\ Node(s, k) \in Nodes /\ Node(s, k + 1) \in Nodes
          /\ Node(s, k) # last /\ Node(s, k + 1) # FakeTail
      BY <1>4, <3>1, NodeFacts
    <3>5. \A j \in 0..n : Node(s, j) \notin ToSet(t)
      <4> TAKE j \in 0..n
      <4>1. j = 0 \/ j \in 1..n  BY <1>1
      <4>2. FakeHead \notin Blocks  BY SentinelAssumption
      <4> QED  BY <1>1, <4>1, <4>2, NodeFacts
    <3> HIDE DEF last
    <3> QED  BY <1>8, <3>1, <3>2, <3>3, <3>4, <3>5
  <2>3. CASE k - n \in 1..m
    <3>0. PICK i \in 1..m : i = k - n  BY <2>3
    <3>1. i \in 1..m /\ k = n + i /\ k + 1 = n + (i + 1)  BY <1>1, <3>0
    <3>2. Node(u, k) = t[i] /\ r.next[t[i]] = succ(i)  BY <1>7, <1>10, <3>1
    <3>3. CASE i = m
      <4>1. Node(u, k + 1) = FakeTail
        <5>1. k + 1 = n + m + 1  BY <1>1, <3>1, <3>3
        <5> QED  BY <1>10, <5>1
      <4>2. FakeTail \in Nodes \ ToSet(t)  BY <1>1, SentinelAssumption DEF Nodes
      <4>3. r.prev[FakeTail] = t[m]  BY <1>8, <4>2
      <4> QED  BY <3>2, <3>3, <4>1, <4>3
    <3>4. CASE i # m
      <4>1. i + 1 \in 1..m /\ i + 1 # 1 /\ i + 1 - 1 = i  BY <1>1, <3>1, <3>4
      <4>2. Node(u, k + 1) = t[i + 1]  BY <1>10, <3>1, <4>1
      <4>3. r.prev[t[i + 1]] = pred(i + 1)  BY <1>7, <4>1
      <4>4. pred(i + 1) = t[i + 1 - 1]
        <5> HIDE DEF last
        <5> QED  BY <4>1
      <4> HIDE DEF pred, succ, last
      <4>5. r.prev[t[i + 1]] = t[i]  BY <4>1, <4>3, <4>4
      <4>6. succ(i) = t[i + 1]  BY <3>4 DEF succ
      <4> QED  BY <3>2, <4>2, <4>5, <4>6
    <3> QED  BY <3>3, <3>4
  <2> QED  BY <2>0, <2>1, <2>2, <2>3
<1>12. ToSet(u) = ToSet(s) \cup ToSet(t)
  <2>1. ToSet(u) = {u[k] : k \in 1..(n + m)}  BY <1>2, SeqFacts
  <2>2. \A k \in 1..(n + m) : k \in 1..n \/ (k - n \in 1..m /\ k = n + (k - n))
    BY <1>1
  <2>3. \A k \in 1..(n + m) : u[k] \in ToSet(s) \cup ToSet(t)
    <3> TAKE k \in 1..(n + m)
    <3>1. CASE k \in 1..n  BY <1>1, <1>2, <3>1
    <3>2. CASE k \notin 1..n
      <4>1. k - n \in 1..m /\ u[n + (k - n)] = t[k - n] /\ k = n + (k - n)
        BY <1>2, <2>2, <3>2
      <4> QED  BY <1>1, <4>1
    <3> QED  BY <3>1, <3>2
  <2>4. ASSUME NEW b \in ToSet(s)  PROVE b \in ToSet(u)
    <3>1. PICK k \in 1..n : b = s[k]  BY SeqFacts
    <3>2. k \in 1..(n + m)  BY <1>1
    <3> QED  BY <1>2, <2>1, <3>1, <3>2
  <2>5. ASSUME NEW b \in ToSet(t)  PROVE b \in ToSet(u)
    <3>1. PICK k \in 1..m : b = t[k]  BY SeqFacts
    <3>2. n + k \in 1..(n + m)  BY <1>1
    <3> QED  BY <1>2, <2>1, <3>1, <3>2
  <2> QED  BY <2>1, <2>3, <2>4, <2>5
<1>13. ASSUME NEW b \in Blocks \ ToSet(u)  PROVE r.next[b] = None /\ r.prev[b] = None
  <2>1. b \in Blocks \ ToSet(s) /\ b \in Nodes \ ToSet(t)  BY <1>12 DEF Nodes
  <2>2. b # last /\ b # FakeTail
    <3>1. last = FakeHead \/ last \in ToSet(s)
      <4>1. n = 0 \/ n \in 1..n  BY <1>1
      <4> QED  BY <1>1, <1>4, <4>1, NodeFacts
    <3> QED  BY <2>1, <3>1, SentinelAssumption
  <2>3. l.next[b] = None /\ l.prev[b] = None  BY <2>1 DEF Chains
  <2> HIDE DEF last
  <2> QED  BY <1>8, <2>1, <2>2, <2>3
<1>14. r.next[FakeTail] = None /\ r.prev[FakeHead] = None
  <2>1. FakeTail \in Nodes \ ToSet(t) /\ FakeHead \in Nodes \ ToSet(t) /\ FakeHead # FakeTail
    BY <1>1, SentinelAssumption DEF Nodes
  <2>2. l.next[FakeTail] = None /\ l.prev[FakeHead] = None  BY DEF Chains
  <2> HIDE DEF last
  <2> QED  BY <1>4, <1>8, <2>1, <2>2
<1>15. Chains(r, u)  BY <1>2, <1>9, <1>11, <1>13, <1>14 DEF Chains
<1> QED  BY <1>2, <1>3, <1>15 DEF r

(* and it has one.                                                         *)
LEMMA SomeChain ==
  ASSUME NEW s \in Seq(Blocks), Once(s)
  PROVE  \E l : Chains(l, s)
<1>1. CASE s = << >>  BY <1>1, EmptyChains
<1>2. CASE s # << >>
  <2>1. << >> \in Seq(Blocks) /\ Once(<< >>) /\ ToSet(<< >>) \cap ToSet(s) = {}
    BY DEF Once, ToSet
  <2>2. Chains(LinkAll(Empty, s), << >> \o s)
    BY <1>2, <2>1, EmptyChains, LinkAllChains
  <2>3. << >> \o s = s  BY ConcatEmptySeq
  <2> QED  BY <2>2, <2>3
<1> QED  BY <1>1, <1>2

(* Unlinking some blocks one after the other leaves the chain of the rest. *)
LEMMA UnlinkAllChains ==
  ASSUME NEW s \in Seq(Blocks), Once(s), NEW l, Chains(l, s),
         NEW q \in Seq(Blocks), Once(q), ToSet(q) \subseteq ToSet(s)
  PROVE  Chains(UnlinkAll(l, q), Keep(s, Blocks \ ToSet(q)))
<1> DEFINE D == DOMAIN q
           At(T) == {q[i] : i \in T}
           Rest(T) == Keep(s, Blocks \ At(T))
           Some(T) == CHOOSE x : Chains(x, Rest(T))
           G == [T \in SUBSET D |-> Some(T)]
           It == CHOOSE H : H = [T \in SUBSET D |->
                   IF T = {} THEN l ELSE Unlink(H[T \ {Max(T)}], q[Max(T)])]
<1>1. Len(q) \in Nat /\ D = 1..Len(q) /\ IsFiniteSet(D) /\ At(D) = ToSet(q)
  <2>1. Len(q) \in Nat /\ D = 1..Len(q)  BY LenProperties
  <2>2. \A n \in Nat : IsFiniteSet(1..n)  BY FS_Interval
  <2>3. At(D) = ToSet(q)  BY DEF ToSet
  <2> QED  BY <2>1, <2>2, <2>3
<1>2. ASSUME NEW T \in SUBSET D
      PROVE  /\ Rest(T) \in Seq(Blocks) /\ Once(Rest(T))
             /\ ToSet(Rest(T)) = ToSet(s) \cap (Blocks \ At(T))
             /\ Chains(G[T], Rest(T))
  <2> HIDE DEF At
  <2>1. /\ Rest(T) \in Seq(Blocks) /\ Once(Rest(T))
        /\ ToSet(Rest(T)) = ToSet(s) \cap (Blocks \ At(T))
    BY KeepRange
  <2> HIDE DEF Rest
  <2>2. \E x : Chains(x, Rest(T))  BY <2>1, SomeChain
  <2>3. G[T] = CHOOSE x : Chains(x, Rest(T))  OBVIOUS
  <2> HIDE DEF G
  <2> QED  BY <2>1, <2>2, <2>3
<1>3. G[{}] = l
  <2>1. At({}) = {} /\ {} \in SUBSET D /\ Blocks \ {} = Blocks  OBVIOUS
  <2>2. Keep(s, Blocks) = s  BY KeepAll
  <2>3. Rest({}) = s  BY <2>1, <2>2
  <2>4. Chains(G[{}], s)
    <3> HIDE DEF G, Rest
    <3> QED  BY <1>2, <2>1, <2>3
  <2> HIDE DEF G
  <2> QED  BY <2>4, OneChain
<1>4. ASSUME NEW T \in SUBSET D, T # {}
      PROVE  Max(T) \in T /\ G[T] = Unlink(G[T \ {Max(T)}], q[Max(T)])
  <2> DEFINE m == Max(T)
             U == T \ {m}
             b == q[m]
             v == Rest(U)
  <2>1. m \in T  BY <1>1, <1>4, MaxOf
  <2> HIDE DEF m
  <2>2. U \in SUBSET D /\ m \in 1..Len(q) /\ \A i \in U : i \in 1..Len(q) /\ i # m
    BY <1>1, <2>1
  <2>3. b \in ToSet(s) /\ b \in Blocks /\ b \notin At(U)
    <3>1. b \in ToSet(q) /\ b \in Blocks  BY <2>2, SeqFacts
    <3>2. \A i \in U : q[i] # b  BY <2>2 DEF Once
    <3> QED  BY <3>1, <3>2
  <2>4. At(T) = At(U) \cup {b}  BY <2>1
  <2>5. /\ v \in Seq(Blocks) /\ Once(v) /\ Chains(G[U], v)
        /\ ToSet(v) = ToSet(s) \cap (Blocks \ At(U))
    <3> HIDE DEF G, Rest, At, U
    <3> QED  BY <1>2, <2>2
  <2>6. (Blocks \ At(U)) \cap (Blocks \ {b}) = Blocks \ At(T)  BY <2>4
  <2>7. Keep(v, Blocks \ {b}) = Rest(T)
    <3> HIDE DEF G, At, U, b
    <3>1. Keep(v, Blocks \ {b}) = Keep(s, (Blocks \ At(U)) \cap (Blocks \ {b}))
      BY KeepKeep
    <3> QED  BY <2>6, <3>1
  <2> HIDE DEF G, At, Rest, U, b, v
  <2>8. PICK i \in 1..Len(v) : v[i] = b
    <3>1. b \in ToSet(v)  BY <2>3, <2>5
    <3> QED  BY <2>5, <3>1, SeqFacts
  <2>9. Chains(Unlink(G[U], b), Keep(v, Blocks \ {b}))
    <3>1. Chains(Unlink(G[U], v[i]), Keep(v, Blocks \ {v[i]}))
      BY <2>5, <2>8, UnlinkChains
    <3> QED  BY <2>8, <3>1
  <2>10. Rest(T) \in Seq(Blocks) /\ Once(Rest(T)) /\ Chains(G[T], Rest(T))  BY <1>2
  <2>11. G[T] = Unlink(G[U], b)  BY <2>7, <2>9, <2>10, OneChain
  <2> QED  BY <2>1, <2>11 DEF U, b, m
<1>5. G = [T \in SUBSET D |->
             IF T = {} THEN l ELSE Unlink(G[T \ {Max(T)}], q[Max(T)])]
  <2> HIDE DEF Some
  <2>1. G = [T \in SUBSET D |-> G[T]]  OBVIOUS
  <2> HIDE DEF G
  <2> QED  BY <1>3, <1>4, <2>1
<1> HIDE DEF G
<1>6. It = [T \in SUBSET D |->
              IF T = {} THEN l ELSE Unlink(It[T \ {Max(T)}], q[Max(T)])]
  BY <1>5
<1>7. UnlinkAll(l, q) = It[D]
  BY DEF UnlinkAll, FoldLeft, MapThenFoldSet
<1> HIDE DEF It
<1>8. It[D] = G[D]
  <2>1. It[{}] = G[{}]  BY <1>3, <1>6
  <2>2. \A T \in SUBSET D : T # {} =>
          \E x \in T : It[T \ {x}] = G[T \ {x}] => It[T] = G[T]
    BY <1>4, <1>6
  <2> QED  BY <1>1, <2>1, <2>2, SameFold
<1>9. Chains(G[D], Rest(D))
  <2> HIDE DEF Rest
  <2> QED  BY <1>2
<1>10. Rest(D) = Keep(s, Blocks \ ToSet(q))  BY <1>1
<1> QED  BY <1>7, <1>8, <1>9, <1>10

-----------------------------------------------------------------------------
(* The invariant.                                                          *)

(* The pointers chain the blocks a walk from the head finds, each once.    *)
Well(l) == /\ Listed(l) \in Seq(Blocks) /\ Once(Listed(l))
           /\ Chains(l, Listed(l))

QueueInv == /\ Well(links)
            /\ num = Len(Listed(links)) + Cardinality(lost)
            /\ pinned \subseteq Blocks /\ lost \subseteq Blocks /\ given \subseteq Blocks
            /\ Free \cap lost = {}

(* Well is established by naming the sequence.                             *)
LEMMA ChainIsWell ==
  ASSUME NEW s \in Seq(Blocks), Once(s), NEW l, Chains(l, s)
  PROVE  Well(l) /\ Listed(l) = s
BY ListedChain DEF Well

(* What is left of a walk without some of its blocks.                      *)
LEMMA RestCounts ==
  ASSUME NEW s \in Seq(Blocks), Once(s), NEW T \in SUBSET ToSet(s)
  PROVE  LET r == Keep(s, Blocks \ T)
         IN  /\ r \in Seq(Blocks) /\ Once(r) /\ ToSet(r) = ToSet(s) \ T
             /\ Len(r) = Len(s) - Cardinality(T)
             /\ Len(r) \in Nat /\ Len(s) \in Nat /\ Cardinality(T) \in Nat
<1> DEFINE r == Keep(s, Blocks \ T)
<1>1. r \in Seq(Blocks) /\ Once(r) /\ ToSet(r) = ToSet(s) \ T
  <2>1. ToSet(s) \subseteq Blocks  BY SeqFacts
  <2> QED  BY <2>1, KeepRange
<1> HIDE DEF r
<1>2. /\ IsFiniteSet(ToSet(s)) /\ Cardinality(ToSet(s)) = Len(s)
      /\ Cardinality(ToSet(r)) = Len(r) /\ Len(r) \in Nat /\ Len(s) \in Nat
  BY <1>1, OnceCounts, SeqFacts
<1>3. IsFiniteSet(T) /\ Cardinality(T) \in Nat
  BY <1>2, FS_Subset, FS_CardinalityType
<1>4. Cardinality(ToSet(s) \ T) = Cardinality(ToSet(s)) - Cardinality(ToSet(s) \cap T)
  BY <1>2, FS_Difference
<1>5. ToSet(s) \cap T = T  OBVIOUS
<1> QED  BY <1>1, <1>2, <1>3, <1>4, <1>5 DEF r

(* The three operations on pointers, seen from a walk.                     *)
LEMMA UnlinkWell ==
  ASSUME NEW l, Well(l), NEW b \in ToSet(Listed(l))
  PROVE  /\ Well(Unlink(l, b))
         /\ Listed(Unlink(l, b)) = Keep(Listed(l), Blocks \ {b})
<1> DEFINE s == Listed(l)
<1>1. s \in Seq(Blocks) /\ Once(s) /\ Chains(l, s)  BY DEF Well
<1>2. PICK i \in 1..Len(s) : s[i] = b  BY <1>1, SeqFacts
<1> HIDE DEF s
<1>3. Chains(Unlink(l, s[i]), Keep(s, Blocks \ {s[i]}))  BY <1>1, UnlinkChains
<1>4. Chains(Unlink(l, b), Keep(s, Blocks \ {b}))  BY <1>2, <1>3
<1>5. Keep(s, Blocks \ {b}) \in Seq(Blocks) /\ Once(Keep(s, Blocks \ {b}))
  BY <1>1, KeepRange
<1>6. /\ Well(Unlink(l, b))
      /\ Listed(Unlink(l, b)) = Keep(s, Blocks \ {b})
  BY <1>4, <1>5, ChainIsWell
<1> QED  BY <1>6 DEF s

(* All of q leave at once.                                                 *)
LEMMA UnlinkAllWell ==
  ASSUME NEW l, Well(l), NEW q \in Seq(Blocks), Once(q),
         ToSet(q) \subseteq ToSet(Listed(l))
  PROVE  /\ Well(UnlinkAll(l, q))
         /\ Listed(UnlinkAll(l, q)) = Keep(Listed(l), Blocks \ ToSet(q))
<1> DEFINE s == Listed(l)
<1>1. s \in Seq(Blocks) /\ Once(s) /\ Chains(l, s)  BY DEF Well
<1>2. Chains(UnlinkAll(l, q), Keep(s, Blocks \ ToSet(q)))
  <2> HIDE DEF s
  <2> QED  BY <1>1, UnlinkAllChains DEF s
<1>3. Keep(s, Blocks \ ToSet(q)) \in Seq(Blocks) /\ Once(Keep(s, Blocks \ ToSet(q)))
  BY <1>1, KeepRange
<1> QED  BY <1>2, <1>3, ChainIsWell

(* All of t arrive at the far end.                                         *)
LEMMA LinkAllWell ==
  ASSUME NEW l, Well(l), NEW t \in Seq(Blocks), Once(t), t # << >>,
         ToSet(Listed(l)) \cap ToSet(t) = {}
  PROVE  /\ Well(LinkAll(l, t))
         /\ Listed(LinkAll(l, t)) = Listed(l) \o t
<1> DEFINE s == Listed(l)
<1>1. s \in Seq(Blocks) /\ Once(s) /\ Chains(l, s)  BY DEF Well
<1> HIDE DEF s
<1>2. Chains(LinkAll(l, t), s \o t) /\ Once(s \o t) /\ s \o t \in Seq(Blocks)
  BY <1>1, LinkAllChains DEF s
<1>3. Well(LinkAll(l, t)) /\ Listed(LinkAll(l, t)) = s \o t
  BY <1>2, ChainIsWell
<1> QED  BY <1>3 DEF s

(* A block is in the walk exactly when it has pointers.                    *)
LEMMA LinkedIsListed ==
  ASSUME NEW l, Well(l), NEW b \in Blocks
  PROVE  /\ b \in ToSet(Listed(l)) <=> l.next[b] # None
         /\ b \in ToSet(Listed(l)) <=> l.prev[b] # None
         /\ b \in ToSet(Listed(l)) => /\ l.next[l.prev[b]] = b
                                      /\ l.prev[l.next[b]] = b
<1> DEFINE s == Listed(l)
<1>1. s \in Seq(Blocks) /\ Once(s) /\ Chains(l, s)  BY DEF Well
<1> HIDE DEF s
<1>2. CASE b \notin ToSet(s)  BY <1>1, <1>2 DEF Chains, s
<1>3. CASE b \in ToSet(s)
  <2>1. PICK i \in 1..Len(s) : s[i] = b  BY <1>1, <1>3, SeqFacts
  <2>2. /\ i \in 0..Len(s) /\ i - 1 \in 0..Len(s) /\ i - 1 + 1 = i
        /\ i - 1 \in 0..(Len(s) + 1) /\ i + 1 \in 0..(Len(s) + 1)
    BY <1>1, SeqFacts
  <2>3. Node(s, i) = b  BY <1>1, <2>1, NodeFacts
  <2>4. /\ l.next[b] = Node(s, i + 1) /\ l.prev[b] = Node(s, i - 1)
        /\ l.prev[Node(s, i + 1)] = b /\ l.next[Node(s, i - 1)] = b
    BY <1>1, <2>2, <2>3 DEF Chains
  <2>5. Node(s, i + 1) \in Nodes /\ Node(s, i - 1) \in Nodes  BY <1>1, <2>2, NodeFacts
  <2>6. None \notin Nodes  BY SentinelAssumption DEF Nodes
  <2> QED  BY <1>3, <2>4, <2>5, <2>6 DEF s
<1> QED  BY <1>2, <1>3

(* The sequences without repetition are the permutations of the subsets.   *)
LEMMA OnceIsPermutation ==
  ASSUME NEW s
  PROVE  (s \in SetToAllKPermutations(Blocks)) <=> (s \in Seq(Blocks) /\ Once(s))
<1>1. ASSUME s \in SetToAllKPermutations(Blocks)
      PROVE  s \in Seq(Blocks) /\ Once(s)
  <2>1. PICK S \in SUBSET Blocks : s \in SetToSeqs(S)
    BY <1>1 DEF SetToAllKPermutations
  <2>2. IsFiniteSet(S) /\ Cardinality(S) \in Nat
    BY BlocksAssumption, FS_Subset, FS_CardinalityType
  <2>3. /\ s \in [1..Cardinality(S) -> S]
        /\ \A i, j \in 1..Cardinality(S) : i # j => s[i] # s[j]
    BY <2>1 DEF SetToSeqs
  <2>4. s \in [1..Cardinality(S) -> Blocks]  BY <2>3
  <2>5. s \in Seq(Blocks) /\ Len(s) = Cardinality(S)  BY <2>2, <2>4, SeqDef
  <2> QED  BY <2>3, <2>5 DEF Once
<1>2. ASSUME s \in Seq(Blocks), Once(s)
      PROVE  s \in SetToAllKPermutations(Blocks)
  <2>1. Cardinality(ToSet(s)) = Len(s)  BY <1>2, OnceCounts
  <2>2. \A i \in 1..Len(s) : s[i] \in ToSet(s)  BY <1>2, SeqFacts
  <2>3. s \in [1..Len(s) -> ToSet(s)]  BY <1>2, <2>2, SeqFacts
  <2>4. \A i, j \in 1..Len(s) : i # j => s[i] # s[j]  BY <1>2 DEF Once
  <2>5. s \in SetToSeqs(ToSet(s))  BY <2>1, <2>3, <2>4 DEF SetToSeqs
  <2>6. ToSet(s) \in SUBSET Blocks  BY <1>2, SeqFacts
  <2> QED  BY <2>5, <2>6 DEF SetToAllKPermutations
<1> QED  BY <1>1, <1>2

(* The candidates of a pop are free blocks, each once.                     *)
LEMMA UnpinnedFacts ==
  ASSUME QueueInv
  PROVE  /\ Unpinned \in Seq(Blocks) /\ Once(Unpinned)
         /\ ToSet(Unpinned) \subseteq Free /\ ToSet(Unpinned) \subseteq Blocks
         /\ Len(Unpinned) \in Nat /\ Len(Unpinned) <= Len(Listed(links))
         /\ Len(Listed(links)) \in Nat
         /\ \A i \in 1..Len(Unpinned) : Unpinned[i] \in ToSet(Unpinned)
<1> DEFINE s == Listed(links)
<1>1. s \in Seq(Blocks) /\ Once(s)  BY DEF QueueInv, Well
<1> HIDE DEF s
<1>2. Unpinned = Keep(s, Blocks \ pinned)  BY DEF Unpinned, s
<1>3. /\ Unpinned \in Seq(Blocks) /\ Once(Unpinned)
      /\ ToSet(Unpinned) = ToSet(s) \cap (Blocks \ pinned)
  BY <1>1, <1>2, KeepRange
<1>4. /\ IsFiniteSet(ToSet(s)) /\ Cardinality(ToSet(s)) = Len(s)
      /\ Cardinality(ToSet(Unpinned)) = Len(Unpinned)
  BY <1>1, <1>3, OnceCounts
<1>5. ToSet(Unpinned) \in SUBSET ToSet(s)  BY <1>3
<1>6. Cardinality(ToSet(Unpinned)) <= Cardinality(ToSet(s))
  BY <1>4, <1>5, FS_Subset
<1>7. /\ Len(Unpinned) \in Nat /\ Len(s) \in Nat /\ ToSet(Unpinned) \subseteq Blocks
      /\ \A i \in 1..Len(Unpinned) : Unpinned[i] \in ToSet(Unpinned)
  BY <1>1, <1>3, SeqFacts
<1> QED  BY <1>3, <1>4, <1>5, <1>6, <1>7 DEF Free, s

(* One block leaves and is counted out.                                    *)
LEMMA OneLeaves ==
  ASSUME QueueInv, NEW b \in Free, links' = Unlink(links, b), num' = num - 1,
         UNCHANGED <<pinned, lost>>, given' \subseteq Blocks
  PROVE  QueueInv' /\ Listed(links') = Keep(Listed(links), Blocks \ {b})
<1> DEFINE s == Listed(links)
           r == Keep(s, Blocks \ {b})
<1>1. s \in Seq(Blocks) /\ Once(s) /\ {b} \in SUBSET ToSet(s)
  BY DEF QueueInv, Well, Free
<1>2. Well(links') /\ Listed(links') = r
  BY UnlinkWell DEF QueueInv, Free
<1>3. /\ ToSet(r) = ToSet(s) \ {b} /\ Len(r) = Len(s) - Cardinality({b})
      /\ Len(r) \in Nat /\ Len(s) \in Nat
  <2> HIDE DEF s
  <2> QED  BY <1>1, RestCounts
<1>4. Cardinality({b}) = 1  BY FS_Singleton
<1>5. lost \in SUBSET Blocks  BY DEF QueueInv
<1>6. Cardinality(lost) \in Nat  BY <1>5, BlocksAssumption, FS_Subset, FS_CardinalityType
<1> HIDE DEF r
<1>7. num' = Len(Listed(links')) + Cardinality(lost')
  BY <1>2, <1>3, <1>4, <1>6 DEF QueueInv
<1>8. Free' \cap lost' = {}  BY <1>2, <1>3 DEF QueueInv, Free
<1> QED  BY <1>2, <1>7, <1>8 DEF QueueInv, r

(* popleft_n: the blocks leave together, and are counted out or lost.      *)
LEMMA ManyLeave ==
  ASSUME QueueInv, NEW q \in Seq(Blocks), Once(q), ToSet(q) \subseteq Free,
         links' = UnlinkAll(links, q), pinned' = pinned, given' \subseteq Blocks,
         \/ num' = num - Len(q) /\ lost' = lost
         \/ num' = num /\ lost' = lost \cup ToSet(q)
  PROVE  QueueInv' /\ Listed(links') = Keep(Listed(links), Blocks \ ToSet(q))
<1> DEFINE s == Listed(links)
           T == ToSet(q)
           r == Keep(s, Blocks \ T)
<1>1. s \in Seq(Blocks) /\ Once(s) /\ T \in SUBSET ToSet(s)
  BY DEF QueueInv, Well, Free
<1>2. Well(links') /\ Listed(links') = r
  BY UnlinkAllWell DEF QueueInv, Free
<1>3. IsFiniteSet(T) /\ Cardinality(T) = Len(q)  BY OnceCounts
<1>4. /\ ToSet(r) = ToSet(s) \ T /\ Len(r) = Len(s) - Cardinality(T)
      /\ Len(r) \in Nat /\ Len(s) \in Nat /\ Cardinality(T) \in Nat
  <2> HIDE DEF s, T
  <2> QED  BY <1>1, RestCounts
<1>5. lost \in SUBSET Blocks /\ T \in SUBSET Blocks /\ lost \cap T = {}
  BY <1>1, SeqFacts DEF QueueInv, Free
<1>6. IsFiniteSet(lost) /\ Cardinality(lost) \in Nat
  BY <1>5, BlocksAssumption, FS_Subset, FS_CardinalityType
<1>7. Cardinality(lost \cup T) = Cardinality(lost) + Cardinality(T)
  <2>1. Cardinality(lost \cup T) =
          Cardinality(lost) + Cardinality(T) - Cardinality(lost \cap T)
    BY <1>3, <1>6, FS_Union
  <2>2. Cardinality(lost \cap T) = 0  BY <1>5, FS_EmptySet
  <2> QED  BY <1>4, <1>6, <2>1, <2>2
<1> HIDE DEF r
<1>8. num' = Len(Listed(links')) + Cardinality(lost')
  <2>1. num = Len(s) + Cardinality(lost)  BY DEF QueueInv
  <2> HIDE DEF s, T
  <2>2. CASE num' = num - Len(q) /\ lost' = lost
    BY <1>2, <1>3, <1>4, <1>6, <2>1, <2>2
  <2>3. CASE num' = num /\ lost' = lost \cup T
    BY <1>2, <1>4, <1>6, <1>7, <2>1, <2>3
  <2> QED  BY <2>2, <2>3 DEF T
<1>9. Free' \cap lost' = {} /\ lost' \subseteq Blocks
  BY <1>2, <1>4, <1>5 DEF QueueInv, Free
<1> QED  BY <1>2, <1>8, <1>9 DEF QueueInv, r

(* append_n: the blocks arrive together and are counted in.                *)
LEMMA BlocksReturn ==
  ASSUME QueueInv, NEW s \in SetToAllKPermutations(Blocks), Append_n(s)
  PROVE  QueueInv' /\ Listed(links') = Listed(links) \o s
<1> DEFINE q == Listed(links)
<1>1. s \in Seq(Blocks) /\ Once(s) /\ s # << >>
  BY OnceIsPermutation DEF Append_n
<1>2. q \in Seq(Blocks) /\ Once(q) /\ Well(links)  BY DEF QueueInv, Well
<1>3. ToSet(q) \cap ToSet(s) = {} /\ ToSet(s) \cap lost = {}
  BY DEF Append_n, Free
<1>4. Well(links') /\ Listed(links') = q \o s
  BY <1>1, <1>2, <1>3, LinkAllWell DEF Append_n
<1> HIDE DEF q
<1>5. Len(q \o s) = Len(q) + Len(s) /\ Len(q) \in Nat /\ Len(s) \in Nat
  BY <1>1, <1>2, ConcatProperties, SeqFacts
<1>6. ToSet(q \o s) = ToSet(q) \cup ToSet(s)
  <2>1. Range(q \o s) = Range(q) \cup Range(s)  BY <1>1, <1>2, RangeConcatenation
  <2> QED  BY <2>1 DEF Range, ToSet
<1>7. lost \in SUBSET Blocks  BY DEF QueueInv
<1>8. Cardinality(lost) \in Nat  BY <1>7, BlocksAssumption, FS_Subset, FS_CardinalityType
<1>9. num' = Len(Listed(links')) + Cardinality(lost')
  BY <1>4, <1>5, <1>8 DEF QueueInv, Append_n, q
<1>10. Free' \cap lost' = {}
  BY <1>3, <1>4, <1>6 DEF QueueInv, Append_n, Free, q
<1>11. given' = {} /\ UNCHANGED <<pinned, lost>>  BY DEF Append_n
<1> QED  BY <1>4, <1>9, <1>10, <1>11 DEF QueueInv, q

-----------------------------------------------------------------------------
(* Every operation, in the list and in the queue it stands for.            *)

(* The abstract queue selects, collects and permutes as the list does.     *)
LEMMA SameOperators ==
  /\ \A q, S : Abstract!Keep(q, S) = Keep(q, S)
  /\ \A q : Abstract!ToSet(q) = ToSet(q)
  /\ \A S : Abstract!SetToAllKPermutations(S) = SetToAllKPermutations(S)
<1>1. ASSUME NEW q, NEW S  PROVE Abstract!Keep(q, S) = Keep(q, S)
  BY DEF Abstract!Keep, Keep, Abstract!FoldLeft, FoldLeft, Abstract!MapThenFoldSet,
         MapThenFoldSet, Abstract!Max, Max
<1>2. ASSUME NEW q  PROVE Abstract!ToSet(q) = ToSet(q)
  BY DEF Abstract!ToSet, ToSet
<1>3. ASSUME NEW S
      PROVE  Abstract!SetToAllKPermutations(S) = SetToAllKPermutations(S)
  BY DEF Abstract!SetToAllKPermutations, SetToAllKPermutations,
         Abstract!SetToSeqs, SetToSeqs, Abstract!Cardinality, Cardinality
<1> QED  BY <1>1, <1>2, <1>3

(* What a step of the list may be for the queue.                           *)
Queue == Abstract!SpecNext \/ UNCHANGED Abstract!specVars

(* popleft takes the first candidate.                                      *)
LEMMA PopLeftStep ==
  ASSUME QueueInv, PopLeft
  PROVE  QueueInv' /\ Queue
<1> DEFINE b == Unpinned[1]
<1>1. Unpinned \in Seq(Blocks) /\ Unpinned # << >>  BY UnpinnedFacts DEF PopLeft
<1>2. Len(Unpinned) \in Nat /\ Len(Unpinned) # 0 /\ 1 \in 1..Len(Unpinned)
  BY <1>1, EmptySeq
<1>3. b \in Free /\ b \in Blocks  BY <1>2, UnpinnedFacts
<1>4. /\ links' = Unlink(links, b) /\ given' = {b} /\ num' = num - 1
      /\ UNCHANGED <<pinned, lost>>
  BY DEF PopLeft
<1>5. QueueInv' /\ Listed(links') = Keep(Listed(links), Blocks \ {b})
  <2> HIDE DEF b
  <2> QED  BY <1>3, <1>4, OneLeaves
<1>6. b \in Abstract!First(Unpinned, 1)
  <2>1. 1 \in 1..(IF 1 < Len(Unpinned) THEN 1 ELSE Len(Unpinned))  BY <1>2
  <2> QED  BY <2>1 DEF Abstract!First
<1>7. Abstract!TakeOne(1)
  BY <1>4, <1>5, <1>6, SameOperators
     DEF Abstract!TakeOne, Abstract!Unpinned, Abstract!Without, Unpinned
<1> QED  BY <1>5, <1>7 DEF Queue, Abstract!SpecNext

(* popleft_lfu takes one of the window.                                    *)
LEMMA PopLeftLfuStep ==
  ASSUME QueueInv, PopLeftLfu
  PROVE  QueueInv' /\ Queue
<1>1. PICK i \in 1..Len(Unpinned) :
         i <= Window /\ links' = Unlink(links, Unpinned[i]) /\ given' = {Unpinned[i]}
  BY DEF PopLeftLfu
<1> DEFINE b == Unpinned[i]
<1>2. b \in Free /\ b \in Blocks  BY UnpinnedFacts
<1>3. /\ links' = Unlink(links, b) /\ given' = {b} /\ num' = num - 1
      /\ UNCHANGED <<pinned, lost>>
  BY <1>1 DEF PopLeftLfu
<1>4. QueueInv' /\ Listed(links') = Keep(Listed(links), Blocks \ {b})
  <2> HIDE DEF b
  <2> QED  BY <1>2, <1>3, OneLeaves
<1>5. b \in Abstract!First(Unpinned, Window)
  <2>1. i \in 1..(IF Window < Len(Unpinned) THEN Window ELSE Len(Unpinned))
    BY <1>1, UnpinnedFacts, WindowAssumption
  <2> QED  BY <2>1 DEF Abstract!First
<1>6. Abstract!TakeOne(Window)
  BY <1>3, <1>4, <1>5, SameOperators
     DEF Abstract!TakeOne, Abstract!Unpinned, Abstract!Without, Unpinned
<1> QED  BY <1>4, <1>6 DEF Queue, Abstract!SpecNext

(* popleft_n takes n candidates, or drops them all and fails.              *)
LEMMA PopLeftNStep ==
  ASSUME QueueInv, NEW n \in 1..Cardinality(Blocks), PopLeftN(n)
  PROVE  QueueInv' /\ Queue
<1> DEFINE u == Unpinned
           m == IF n < Len(u) THEN n ELSE Len(u)
           taken == SubSeq(u, 1, m)
           s == Listed(links)
<1>1. /\ u \in Seq(Blocks) /\ Once(u) /\ Len(u) \in Nat /\ n \in Nat /\ n >= 1
      /\ ToSet(u) \subseteq Free /\ \A i \in 1..Len(u) : u[i] \in Blocks
      /\ Len(u) <= Len(s) /\ Len(s) \in Nat
  <2>1. Cardinality(Blocks) \in Nat  BY BlocksAssumption, FS_CardinalityType
  <2> QED  BY <2>1, UnpinnedFacts
<1>2. /\ links' = UnlinkAll(links, taken) /\ pinned' = pinned
      /\ IF Len(taken) = n
         THEN num' = num - n /\ given' = ToSet(taken) /\ UNCHANGED lost
         ELSE lost' = lost \cup ToSet(taken) /\ given' = {} /\ UNCHANGED num
  BY DEF PopLeftN
<1> HIDE DEF u, s
<1>3. /\ taken \in Seq(Blocks) /\ Len(taken) = m
      /\ \A i \in 1..m : taken[i] = u[i]
  <2> DEFINE w == m
  <2>1. w \in Nat /\ w <= Len(u)  BY <1>1
  <2> HIDE DEF w
  <2>2. \A i \in 1..w : u[i] \in Blocks  BY <1>1, <2>1
  <2>3. /\ SubSeq(u, 1, w) \in Seq(Blocks)
        /\ Len(SubSeq(u, 1, w)) = IF 1 <= w THEN w - 1 + 1 ELSE 0
        /\ \A i \in 1..(w - 1 + 1) : SubSeq(u, 1, w)[i] = u[1 + i - 1]
    BY <2>1, <2>2, SubSeqProperties
  <2>4. w - 1 + 1 = w /\ \A i \in 1..w : 1 + i - 1 = i  BY <2>1
  <2>5. Len(SubSeq(u, 1, w)) = w  BY <2>1, <2>3, <2>4
  <2> QED  BY <2>3, <2>4, <2>5 DEF w
<1>4. m \in Nat /\ m <= Len(u) /\ m <= n  BY <1>1
<1> HIDE DEF taken, m
<1>5. Once(taken)  BY <1>1, <1>3, <1>4 DEF Once
<1>6. ToSet(taken) = {u[i] : i \in 1..m}
  <2>1. ToSet(taken) = {taken[i] : i \in 1..m}  BY <1>3, SeqFacts
  <2> QED  BY <1>3, <2>1
<1>7. ToSet(taken) \subseteq Free /\ ToSet(taken) \subseteq Blocks
  <2>1. ToSet(u) = {u[i] : i \in 1..Len(u)}  BY <1>1, SeqFacts
  <2>2. \A i \in 1..m : i \in 1..Len(u)  BY <1>1, <1>4
  <2> QED  BY <1>1, <1>6, <2>1, <2>2
<1>8. QueueInv' /\ Listed(links') = Keep(s, Blocks \ ToSet(taken))
  <2>1. given' \subseteq Blocks  BY <1>2, <1>7
  <2>2. \/ num' = num - Len(taken) /\ lost' = lost
        \/ num' = num /\ lost' = lost \cup ToSet(taken)
    BY <1>2
  <2> QED  BY <1>2, <1>3, <1>5, <1>7, <2>1, <2>2, ManyLeave DEF s
<1>9. Abstract!Unpinned(s) = u
  BY SameOperators DEF Abstract!Unpinned, Unpinned, u, s
<1>10. CASE m = n
  <2>1. given' = ToSet(taken)  BY <1>2, <1>3, <1>10
  <2>2. Len(u) >= n /\ n \in 1..Len(s)  BY <1>1, <1>4, <1>10
  <2>3. ToSet(taken) = Abstract!First(u, n)
    BY <1>6, <1>10 DEF Abstract!First, m
  <2>4. Abstract!TakeMany(n)
    BY <1>2, <1>8, <1>9, <2>1, <2>2, <2>3, SameOperators
       DEF Abstract!TakeMany, Abstract!Without, s
  <2> QED  BY <1>8, <2>2, <2>4 DEF Queue, Abstract!SpecNext, s
<1>11. CASE m # n
  <2>1. given' = {}  BY <1>2, <1>3, <1>11
  <2>2. m = Len(u)  BY <1>11 DEF m
  <2>3. ToSet(taken) = ToSet(u)  BY <1>1, <1>6, <2>2, SeqFacts
  <2>4. Abstract!DropAll
    BY <1>2, <1>8, <1>9, <2>1, <2>3, SameOperators
       DEF Abstract!DropAll, Abstract!Without, s
  <2> QED  BY <1>8, <2>4 DEF Queue, Abstract!SpecNext
<1> QED  BY <1>10, <1>11

(* remove takes a block that has pointers, hence one of the queue.         *)
LEMMA RemoveStep ==
  ASSUME QueueInv, NEW b \in Blocks, RemoveBlock(b)
  PROVE  QueueInv' /\ Queue
<1>1. b \in Free  BY LinkedIsListed DEF RemoveBlock, QueueInv, Free
<1>2. /\ links' = Unlink(links, b) /\ given' = {} /\ num' = num - 1
      /\ UNCHANGED <<pinned, lost>>
  BY DEF RemoveBlock
<1>3. QueueInv' /\ Listed(links') = Keep(Listed(links), Blocks \ {b})
  BY <1>1, <1>2, OneLeaves
<1>4. Abstract!TakeNamed(b)
  BY <1>1, <1>2, <1>3, SameOperators
     DEF Abstract!TakeNamed, Abstract!Without, Free
<1> QED  BY <1>3, <1>4 DEF Queue, Abstract!SpecNext

(* append and append_n put blocks back.                                    *)
LEMMA AppendStep ==
  ASSUME QueueInv, NEW s \in SetToAllKPermutations(Blocks), Append_n(s)
  PROVE  QueueInv' /\ Queue
<1>1. QueueInv' /\ Listed(links') = Listed(links) \o s  BY BlocksReturn
<1>2. Abstract!PutBack(s)
  BY <1>1, SameOperators DEF Abstract!PutBack, Append_n, Free
<1> QED  BY <1>1, <1>2, SameOperators DEF Queue, Abstract!SpecNext

(* Pins change no pointer.                                                 *)
LEMMA PinsStep ==
  ASSUME QueueInv, NEW b \in Blocks, Pin(b) \/ Unpin(b)
  PROVE  QueueInv' /\ Queue
<1>1. /\ UNCHANGED <<links, num, lost>> /\ given' = {}
      /\ pinned' \in SUBSET Blocks
  BY DEF Pin, Unpin, QueueInv
<1>2. QueueInv'  BY <1>1 DEF QueueInv, Free
<1>3. Abstract!SetPins(pinned')  BY <1>1 DEF Abstract!SetPins
<1> QED  BY <1>1, <1>2, <1>3 DEF Queue, Abstract!SpecNext

(* Every step keeps the invariant and is one of the queue, or none.        *)
LEMMA QueueStep ==
  ASSUME QueueInv, [Next]_vars
  PROVE  QueueInv' /\ Queue
<1>1. CASE UNCHANGED vars
  <2>1. QueueInv'  BY <1>1 DEF vars, QueueInv, Free
  <2>2. UNCHANGED Abstract!specVars  BY <1>1 DEF vars, Abstract!specVars
  <2> QED  BY <2>1, <2>2 DEF Queue
<1>2. CASE PopLeft  BY <1>2, PopLeftStep
<1>3. CASE PopLeftLfu  BY <1>3, PopLeftLfuStep
<1>4. CASE \E n \in 1..Cardinality(Blocks) : PopLeftN(n)  BY <1>4, PopLeftNStep
<1>5. CASE \E b \in Blocks : RemoveBlock(b)  BY <1>5, RemoveStep
<1>6. CASE \E b \in Blocks : Pin(b) \/ Unpin(b)  BY <1>6, PinsStep
<1>7. CASE \E s \in SetToAllKPermutations(Blocks) : Append_n(s)  BY <1>7, AppendStep
<1> QED  BY <1>1, <1>2, <1>3, <1>4, <1>5, <1>6, <1>7 DEF Next

(* __init__ chains all the blocks.                                         *)
LEMMA QueueStart ==
  ASSUME Init
  PROVE  QueueInv /\ Abstract!SpecInit
<1> DEFINE N == Cardinality(Blocks)
           s == SetToSeq(Blocks)
<1>1. N \in Nat /\ N # 0 /\ ExistsBijection(1..N, Blocks)
  BY BlocksAssumption, FS_CardinalityType, FS_EmptySet
<1>2. PICK f : f \in Bijection(1..N, Blocks)  BY <1>1 DEF ExistsBijection
<1>3. f \in [1..N -> Blocks] /\ IsInjective(f)
  BY <1>2 DEF Bijection, Injection, IsInjective
<1>4. s \in [1..N -> Blocks] /\ IsInjective(s)
  BY <1>3 DEF SetToSeq
<1> HIDE DEF s, N
<1>5. s \in Seq(Blocks) /\ Len(s) = N /\ DOMAIN s = 1..N  BY <1>1, <1>4, SeqDef
<1>6. Once(s) /\ s # << >>
  <2>1. \A i, j \in 1..N : s[i] = s[j] => i = j  BY <1>4 DEF IsInjective
  <2>2. Len(<< >>) = 0  OBVIOUS
  <2> QED  BY <1>1, <1>5, <2>1, <2>2 DEF Once
<1>7. Once(<< >>) /\ << >> \in Seq(Blocks) /\ ToSet(<< >>) = {}
  BY DEF Once, ToSet
<1>8. Chains(LinkAll(Empty, s), << >> \o s)
  BY <1>5, <1>6, <1>7, EmptyChains, LinkAllChains
<1>9. << >> \o s = s  BY <1>5, ConcatEmptySeq
<1>10. Well(links) /\ Listed(links) = s
  BY <1>5, <1>6, <1>8, <1>9, ChainIsWell DEF Init, s
<1>11. num = N /\ pinned = {} /\ lost = {} /\ given = {}  BY DEF Init, N
<1>12. QueueInv
  BY <1>1, <1>5, <1>10, <1>11, FS_EmptySet DEF QueueInv
<1>13. s \in SetToAllKPermutations(Blocks)  BY <1>5, <1>6, OnceIsPermutation
<1>14. Abstract!SpecInit
  BY <1>1, <1>5, <1>10, <1>11, <1>13, SameOperators DEF Abstract!SpecInit
<1> QED  BY <1>12, <1>14

(* The invariant implies what the run checks.                              *)
LEMMA InvGives ==
  ASSUME QueueInv
  PROVE  TypeOK /\ CountIsLengthPlusLost
<1> DEFINE s == Listed(links)
<1>1. s \in Seq(Blocks) /\ Once(s) /\ links \in Links  BY DEF QueueInv, Well, Chains
<1>2. /\ IsFiniteSet(ToSet(s)) /\ Cardinality(ToSet(s)) = Len(s)
      /\ ToSet(s) \subseteq Blocks
  BY <1>1, OnceCounts, SeqFacts
<1>3. lost \in SUBSET Blocks /\ ToSet(s) \cap lost = {}  BY DEF QueueInv, Free
<1>4. IsFiniteSet(lost)  BY <1>3, BlocksAssumption, FS_Subset
<1>5. Cardinality(ToSet(s) \cup lost) = Cardinality(ToSet(s)) + Cardinality(lost)
  <2>1. Cardinality(ToSet(s) \cup lost) =
          Cardinality(ToSet(s)) + Cardinality(lost) - Cardinality(ToSet(s) \cap lost)
    BY <1>2, <1>4, FS_Union
  <2>2. Cardinality(ToSet(s) \cap lost) = 0  BY <1>3, FS_EmptySet
  <2>3. Cardinality(ToSet(s)) \in Nat /\ Cardinality(lost) \in Nat
    BY <1>2, <1>4, FS_CardinalityType
  <2> QED  BY <2>1, <2>2, <2>3
<1>6. /\ Cardinality(ToSet(s) \cup lost) <= Cardinality(Blocks)
      /\ Cardinality(Blocks) \in Nat
  <2>1. ToSet(s) \cup lost \in SUBSET Blocks  BY <1>2, <1>3
  <2> QED  BY <2>1, BlocksAssumption, FS_Subset, FS_CardinalityType
<1>7. Cardinality(ToSet(s)) \in Nat /\ Cardinality(lost) \in Nat
  BY <1>2, <1>4, FS_CardinalityType
<1>8. num = Len(s) + Cardinality(lost)  BY DEF QueueInv
<1>9. num \in 0..Cardinality(Blocks)  BY <1>2, <1>5, <1>6, <1>7, <1>8
<1>10. LinksAgree
  <2>1. \A b \in Blocks :
          /\ b \in ToSet(s) <=> links.next[b] # None
          /\ b \in ToSet(s) <=> links.prev[b] # None
          /\ b \in ToSet(s) => /\ links.next[links.prev[b]] = b
                               /\ links.prev[links.next[b]] = b
    BY LinkedIsListed DEF QueueInv
  <2> HIDE DEF s
  <2> QED  BY <1>2, <2>1 DEF LinksAgree, Free, s
<1> QED  BY <1>1, <1>8, <1>9, <1>10 DEF TypeOK, CountIsLengthPlusLost, QueueInv, Links

-----------------------------------------------------------------------------
(* The pointers always chain the free blocks, and the counter counts them  *)
(* and those a failed popleft_n dropped.                                   *)
THEOREM QueueInvHolds == Spec => []QueueInv
<1>1. Init => QueueInv  BY QueueStart
<1>2. QueueInv /\ [Next]_vars => QueueInv'  BY QueueStep
<1> QED  BY <1>1, <1>2, PTL DEF Spec

(* Pointers, counter, pins and history keep their types, and the two       *)
(* directions of the list agree: remove's test of a block's own pointers   *)
(* tells whether the block is in the queue.                                *)
THEOREM TypesHold == Spec => []TypeOK
<1>1. QueueInv => TypeOK  BY InvGives
<1> QED  BY <1>1, QueueInvHolds, PTL

(* num_free_blocks is the length of the list plus the blocks that failed   *)
(* calls of popleft_n unlinked and never gave back.                        *)
THEOREM CountIsKept == Spec => []CountIsLengthPlusLost
<1>1. QueueInv => CountIsLengthPlusLost  BY InvGives
<1> QED  BY <1>1, QueueInvHolds, PTL

(* The doubly linked list implements FreeQueueSpec: every operation on the *)
(* pointers is its operation on the queue, or leaves the queue alone.      *)
THEOREM ListImplementsQueue == Spec => ImplementsQueue
<1>1. Init => Abstract!SpecInit  BY QueueStart
<1>2. QueueInv /\ [Next]_vars => [Abstract!SpecNext]_(Abstract!specVars)
  BY QueueStep DEF Queue
<1> QED  BY <1>1, <1>2, QueueInvHolds, PTL DEF Spec, ImplementsQueue, Abstract!QueueSpec
=============================================================================
