---------------------- MODULE RequestLifecycleProofs ----------------------
(***************************************************************************)
(* Theorems about RequestLifecycle, for any requests, any limits and, but  *)
(* for the hypotheses each one names, any faults: where requests are in    *)
(* the engine and the scheduler.  RequestStreamProofs goes on to what      *)
(* their clients get.                                                      *)
(*                                                                         *)
(* 1. The cancellation ledger, for any number of lifetimes of an id.  An   *)
(*    abort counts only for an id the scheduler knows, so the argument     *)
(*    has to follow requests through the queue, the batch and the hands of *)
(*    admission: whatever is there was committed once (IInv).              *)
(* 2. For ids of their own (OwnIds): the event loop and the worker take    *)
(*    turns, a request has one life and is in one place at a time          *)
(*    (Orderly).                                                           *)
(* 3. What occupies the scheduler has an owner, or its abort is queued     *)
(*    (Owning), which is why there are no zombies and no ghosts.           *)
(* 4. Blocks held for a cache hit have somebody to release them (Leased).  *)
(***************************************************************************)
EXTENDS RequestLifecycle, FiniteSetTheorems, WellFoundedInduction, TLAPS

(* The objects of ids that have been committed.                            *)
Committed(s) == {o \in Objects : s.commits[o[1]] > 0}

Leases == {"none", "held", "stored"}

SchedulerType ==
  [requests: [Ids -> ObjectOrNone], waiting: Seq(Objects), running: [Ids -> ObjectOrNone],
   status: [Objects -> Statuses], made: [Objects -> Int], row: [Objects -> Int],
   prefilling: SUBSET Objects, pending: SUBSET Ids, orphans: [Ids -> ObjectOrNone],
   lease: [Ids -> Leases], failures: Nat, counted: SUBSET Ids, attributed: SUBSET Ids,
   commits: [Ids -> Nat], cancels: [Ids -> Nat], via: [Ids -> Nat], processed: [Ids -> Nat]]

StepType == [at: {"free", "add", "drain", "reconcile", "admit", "insert", "decode"}, adding: ObjectOrNone, admitting: ObjectOrNone, attempt: Nat,
             ghosts: SUBSET Objects]

JobType == [do: {"add"}, obj: Objects] \cup [do: {"step", "fail"}, obj: {None}]

ClientRecord(c) ==
  \E at, got, fate : \E life \in Nat :
     c = [at |-> at, life |-> life, got |-> got, fate |-> fate]

ClientShape(c) == c = [r \in Ids |-> c[r]] /\ \A r \in Ids : ClientRecord(c[r])

Shape == /\ ClientShape(client) /\ jobs \in Seq(JobType) /\ step \in StepType
         /\ step.at = "add" => step.adding \in Objects
         /\ step.at = "insert" => step.admitting \in Objects

(* What the scheduler knows or holds has been committed.                   *)
Knows(s) == /\ s.waiting \in Seq(Committed(s))
            /\ \A r \in Ids : /\ AbortKnown(s, r) => s.commits[r] > 0
                              /\ s.running[r] # None => s.running[r][1] = r

(* Every lifetime has its cancellation counted or to be counted, and every *)
(* counted one its attribution.                                            *)
Ledger(s) ==
  \A r \in Ids :
    /\ s.cancels[r] <= s.commits[r]
    /\ s.commits[r] > 0 => r \in s.counted \/ s.cancels[r] < s.commits[r]
    /\ s.via[r] <= s.cancels[r]
    /\ r \in s.counted \ s.attributed => s.via[r] < s.cancels[r]

Good(s) == s \in SchedulerType /\ Knows(s) /\ Ledger(s)

IInv == Shape /\ Good(sched) /\ step.admitting \in Committed(sched) \cup {None}

LEMMA ObjectIds == \A o \in Objects : o[1] \in Ids
BY DEF Objects

LEMMA LeastIndex ==
  ASSUME NEW S \in SUBSET Nat, S # {}
  PROVE  \E i \in S : \A j \in S : i <= j
<1> DEFINE R == OpToRel(<, Nat)
<1>1. PICK i \in S : \A j \in S : <<j, i>> \notin R
  <2>1. IsWellFoundedOn(R, Nat)  BY NatLessThanWellFounded
  <2> HIDE DEF R
  <2> QED  BY <2>1, WFMin
<1>2. \A j \in S : ~(j < i)
  BY <1>1 DEF OpToRel
<1> QED  BY <1>2

LEMMA RemoveAtSeq ==
  ASSUME NEW S, NEW q \in Seq(S), NEW i \in 1..Len(q)
  PROVE  RemoveAt(q, i) \in Seq(S)
<1>1. SubSeq(q, 1, i - 1) \in Seq(S)  OBVIOUS
<1>2. SubSeq(q, i + 1, Len(q)) \in Seq(S)  OBVIOUS
<1> QED  BY <1>1, <1>2 DEF RemoveAt

LEMMA DropFirstSeq ==
  ASSUME NEW S, NEW q \in Seq(S), NEW r
  PROVE  DropFirst(q, r) \in Seq(S)
<1> DEFINE I == {i \in 1..Len(q) : q[i][1] = r}
<1>1. CASE I = {}
  BY <1>1 DEF DropFirst, RemoveFirstMatch
<1>2. CASE I # {}
  <2>1. I \in SUBSET Nat /\ I \subseteq 1..Len(q)  OBVIOUS
  <2>2. Min(I) \in I
    <3> HIDE DEF I
    <3> QED  BY <1>2, <2>1, LeastIndex DEF Min
  <2>3. RemoveAt(q, Min(I)) \in Seq(S)  BY <2>1, <2>2, RemoveAtSeq
  <2> QED  BY <1>2, <2>3 DEF DropFirst, RemoveFirstMatch, SelectInSeq
<1> QED  BY <1>1, <1>2

(* The k-th of a finite set of numbers exists.                             *)
LEMMA KthExists ==
  ASSUME NEW n \in Nat, NEW K \in SUBSET (1..n), NEW k \in 1..Cardinality(K)
  PROVE  \E i \in K : Cardinality({j \in K : j <= i}) = k
<1> DEFINE Below(i) == {j \in K : j <= i}
           S == {i \in 1..n : Cardinality(Below(i)) >= k}
<1>1. /\ IsFiniteSet(K) /\ Cardinality(K) \in Nat
      /\ \A i \in Int : IsFiniteSet(Below(i)) /\ Cardinality(Below(i)) \in Nat
  <2>1. IsFiniteSet(1..n)  BY FS_Interval
  <2>2. IsFiniteSet(K)  BY <2>1, FS_Subset
  <2>3. \A i \in Int : IsFiniteSet(Below(i))  BY <2>2, FS_Subset
  <2> QED  BY <2>2, <2>3, FS_CardinalityType
<1>2. /\ Below(n) = K /\ Below(0) = {}
      /\ \A m \in K : Below(m) = Below(m - 1) \cup {m} /\ m \notin Below(m - 1)
      /\ \A m \in (1..n) \ K : Below(m) = Below(m - 1)
  <2>0. \A j \in K : j \in Int /\ 1 <= j /\ j <= n  OBVIOUS
  <2>1. Below(n) = K /\ Below(0) = {}
    <3>1. \A x : x \in Below(n) <=> x \in K  BY <2>0
    <3>2. \A j \in K : ~(j <= 0)  BY <2>0
    <3>3. \A x : x \notin Below(0)  BY <3>2
    <3> HIDE DEF Below
    <3> QED  BY <3>1, <3>3
  <2>2. ASSUME NEW m \in K
        PROVE  Below(m) = Below(m - 1) \cup {m} /\ m \notin Below(m - 1)
    <3>1. \A j \in K : j \in Int /\ (j <= m <=> j = m \/ j <= m - 1)  BY <2>0
    <3>2. \A x : x \in Below(m) <=> x \in Below(m - 1) \/ x = m  BY <3>1
    <3>3. m \notin Below(m - 1)  BY <2>0
    <3> HIDE DEF Below
    <3> QED  BY <3>2, <3>3
  <2>3. ASSUME NEW m \in (1..n) \ K  PROVE  Below(m) = Below(m - 1)
    <3>1. \A j \in K : j \in Int /\ (j <= m <=> j <= m - 1)  OBVIOUS
    <3> QED  BY <3>1
  <2> QED  BY <2>1, <2>2, <2>3
<1>3. \A i \in Int : i \in S <=> i \in 1..n /\ Cardinality(Below(i)) >= k
  OBVIOUS
<1>4. S \in SUBSET Nat  OBVIOUS
<1> HIDE DEF S, Below
<1>5. n >= 1
  <2>1. Cardinality(K) # 0  BY <1>1
  <2>2. K # {}  BY <1>1, <2>1, FS_EmptySet
  <2>3. PICK x \in K : TRUE  BY <2>2
  <2>4. x \in 1..n  BY <2>3
  <2> QED  BY <2>4
<1>6. n \in S  BY <1>1, <1>2, <1>3, <1>5
<1>7. PICK m \in S : \A i \in S : m <= i  BY <1>4, <1>6, LeastIndex
<1>8. m \in 1..n /\ Cardinality(Below(m)) >= k  BY <1>3, <1>4, <1>7
<1>9. Cardinality(Below(m - 1)) < k
  <2>1. CASE m = 1  BY <2>1, <1>2, FS_EmptySet
  <2>2. CASE m > 1
    <3>1. m - 1 \in 1..n /\ m - 1 \notin S  BY <1>7, <1>8, <2>2
    <3> QED  BY <3>1, <1>1, <1>3
  <2> QED  BY <2>1, <2>2, <1>8
<1>10. m \in K  BY <1>2, <1>8, <1>9, <1>1
<1>11. Cardinality(Below(m)) = Cardinality(Below(m - 1)) + 1
  BY <1>1, <1>2, <1>8, <1>10, FS_AddElement
<1>12. Cardinality(Below(m)) = k  BY <1>1, <1>8, <1>9, <1>11
<1> QED  BY <1>10, <1>12 DEF Below

LEMMA DropFirstsSeq ==
  ASSUME NEW S, NEW q \in Seq(S), NEW R
  PROVE  DropFirsts(q, R) \in Seq(S)
<1> DEFINE K == {i \in DOMAIN q : q[i][1] \in R => \E j \in 1..i-1 : q[j][1] = q[i][1]}
           At(k) == CHOOSE i \in K : Cardinality({j \in K : j <= i}) = k
<1>1. K \in SUBSET (1..Len(q)) /\ Len(q) \in Nat  OBVIOUS
<1>2. DropFirsts(q, R) = [k \in 1..Cardinality(K) |-> q[At(k)]]
  BY DEF DropFirsts
<1> HIDE DEF K
<1>3. Cardinality(K) \in Nat
  <2>1. IsFiniteSet(1..Len(q))  BY <1>1, FS_Interval
  <2>2. IsFiniteSet(K)  BY <1>1, <2>1, FS_Subset
  <2> QED  BY <2>2, FS_CardinalityType
<1>4. \A k \in 1..Cardinality(K) : At(k) \in K
  BY <1>1, KthExists
<1> HIDE DEF At
<1>5. \A i \in 1..Len(q) : q[i] \in S  OBVIOUS
<1>6. \A k \in 1..Cardinality(K) : q[At(k)] \in S
  BY <1>1, <1>4, <1>5
<1> QED  BY <1>2, <1>3, <1>6

-----------------------------------------------------------------------------
(* What the scheduler's operations do to the ledger.                       *)
SameLedger(s, t) ==
  /\ t.commits = s.commits /\ t.cancels = s.cancels /\ t.via = s.via
  /\ t.counted = s.counted /\ t.attributed = s.attributed

(* An operation that counts nothing and takes in nothing uncommitted.      *)
LEMMA QuietKeeps ==
  ASSUME NEW s, Good(s), NEW t \in SchedulerType, SameLedger(s, t),
         t.waiting \in Seq(Committed(s)),
         \A r \in Ids : /\ AbortKnown(t, r) => s.commits[r] > 0
                        /\ t.running[r] # None => t.running[r][1] = r
  PROVE  Good(t) /\ Committed(t) = Committed(s)
<1>1. Committed(t) = Committed(s)  BY DEF Committed, SameLedger
<1>2. Knows(t)  BY <1>1 DEF Knows, SameLedger
<1>3. Ledger(t)  BY DEF Good, Ledger, SameLedger
<1> QED  BY <1>1, <1>2, <1>3 DEF Good

LEMMA EnqueueKeeps ==
  ASSUME NEW s, Good(s), NEW R \in SUBSET Ids
  PROVE  Good(Enqueue(s, R)) /\ Committed(Enqueue(s, R)) = Committed(s)
<1> DEFINE known == {r \in R : AbortKnown(s, r)}
           t == Enqueue(s, R)
<1>1. \A r \in known : r \in Ids /\ s.commits[r] > 0
  BY DEF Good, Knows
<1>2. /\ t.commits = s.commits /\ t.via = s.via /\ t.attributed = s.attributed
      /\ t.waiting = s.waiting /\ t.requests = s.requests /\ t.running = s.running
      /\ t.pending = s.pending \cup known /\ t.counted = s.counted \cup known
      /\ t.cancels = [r \in Ids |-> s.cancels[r] + IF r \in known \ s.counted THEN 1 ELSE 0]
  BY DEF Enqueue, Good, SchedulerType
<1>3. t \in SchedulerType
  <2>1. known \in SUBSET Ids  OBVIOUS
  <2>2. [r \in Ids |-> s.cancels[r] + IF r \in known \ s.counted THEN 1 ELSE 0] \in [Ids -> Nat]
    BY DEF Good, SchedulerType
  <2> HIDE DEF known
  <2> QED  BY <2>1, <2>2 DEF Enqueue, Good, SchedulerType, known
<1> HIDE DEF known, t
<1>4. Committed(t) = Committed(s)  BY <1>2 DEF Committed
<1>5. Knows(t)
  BY <1>1, <1>2, <1>4 DEF Good, Knows, AbortKnown
<1>6. Ledger(t)
  BY <1>1, <1>2 DEF Good, Ledger, SchedulerType
<1> QED  BY <1>3, <1>4, <1>5, <1>6 DEF Good, t

LEMMA AttributeKeeps ==
  ASSUME NEW s, Good(s), NEW r \in Ids
  PROVE  Good(Attribute(s, r)) /\ Committed(Attribute(s, r)) = Committed(s)
<1> DEFINE t == Attribute(s, r)
<1>1. CASE r \in s.counted \ s.attributed
  <2>1. t = [s EXCEPT !.attributed = @ \cup {r}, !.via[r] = @ + 1]
    BY <1>1 DEF Attribute
  <2>2. t \in SchedulerType
    <3>1. [s.via EXCEPT ![r] = @ + 1] \in [Ids -> Nat]  BY DEF Good, SchedulerType
    <3>2. s.attributed \cup {r} \in SUBSET Ids  BY DEF Good, SchedulerType
    <3>3. t = [s EXCEPT !.attributed = s.attributed \cup {r}, !.via = [s.via EXCEPT ![r] = @ + 1]]
      BY <2>1 DEF Good, SchedulerType
    <3> HIDE DEF t
    <3> QED  BY <3>1, <3>2, <3>3 DEF Good, SchedulerType
  <2>3. /\ t.commits = s.commits /\ t.cancels = s.cancels /\ t.counted = s.counted
        /\ t.waiting = s.waiting /\ t.requests = s.requests /\ t.running = s.running
        /\ t.pending = s.pending /\ t.attributed = s.attributed \cup {r}
        /\ t.via = [s.via EXCEPT ![r] = @ + 1]
    BY <2>1 DEF Good, SchedulerType
  <2> HIDE DEF t
  <2>4. Committed(t) = Committed(s)  BY <2>3 DEF Committed
  <2>5. Knows(t)  BY <2>3, <2>4 DEF Good, Knows, AbortKnown
  <2>6. Ledger(t)  BY <1>1, <2>3 DEF Good, Ledger, SchedulerType
  <2> QED  BY <2>2, <2>4, <2>5, <2>6 DEF Good, t
<1>2. CASE r \notin s.counted \ s.attributed
  BY <1>2 DEF Attribute
<1> QED  BY <1>1, <1>2

LEMMA CommitKeeps ==
  ASSUME NEW s, Good(s), NEW o \in Objects
  PROVE  Good(Commit(s, o)) /\ Committed(s) \subseteq Committed(Commit(s, o))
<1> DEFINE t == Commit(s, o)
           r == o[1]
<1>1. r \in Ids  BY ObjectIds
<1>2. t \in SchedulerType
  <2>1. /\ s.counted \ {r} \in SUBSET Ids /\ s.attributed \ {r} \in SUBSET Ids
        /\ [s.orphans EXCEPT ![r] = None] \in [Ids -> ObjectOrNone]
        /\ [s.requests EXCEPT ![r] = o] \in [Ids -> ObjectOrNone]
    BY DEF Good, SchedulerType, ObjectOrNone
  <2>2. /\ [s.commits EXCEPT ![r] = @ + 1] \in [Ids -> Nat]
        /\ Append(s.waiting, o) \in Seq(Objects)
    <3>1. s.waiting \in Seq(Objects) /\ s.commits \in [Ids -> Nat]  BY DEF Good, SchedulerType
    <3>2. Append(s.waiting, o) \in Seq(Objects)  BY <3>1
    <3>3. \A x \in Ids : s.commits[x] \in Nat  BY <3>1
    <3>4. [s.commits EXCEPT ![r] = @ + 1] \in [Ids -> Nat]  BY <1>1, <3>1, <3>3
    <3> QED  BY <3>2, <3>4
  <2>3. t = [s EXCEPT !.counted = s.counted \ {r}, !.attributed = s.attributed \ {r},
                      !.orphans = [s.orphans EXCEPT ![r] = None],
                      !.commits = [s.commits EXCEPT ![r] = @ + 1],
                      !.requests = [s.requests EXCEPT ![r] = o],
                      !.waiting = Append(s.waiting, o)]
    BY DEF Commit, Good, SchedulerType
  <2> HIDE DEF t
  <2> QED  BY <2>1, <2>2, <2>3 DEF Good, SchedulerType
<1>3. /\ t.cancels = s.cancels /\ t.via = s.via /\ t.running = s.running /\ t.pending = s.pending
      /\ t.counted = s.counted \ {r} /\ t.attributed = s.attributed \ {r}
      /\ t.commits = [s.commits EXCEPT ![r] = @ + 1]
      /\ t.requests = [s.requests EXCEPT ![r] = o] /\ t.waiting = Append(s.waiting, o)
  BY DEF Commit, Good, SchedulerType
<1> HIDE DEF t
<1>4. Committed(s) \subseteq Committed(t) /\ o \in Committed(t)
  BY <1>1, <1>3, ObjectIds DEF Committed, Good, SchedulerType
<1>5. Knows(t)
  <2>1. t.waiting \in Seq(Committed(t))
    BY <1>3, <1>4 DEF Good, Knows
  <2>2. \A x \in Ids : AbortKnown(t, x) => t.commits[x] > 0
    BY <1>1, <1>3 DEF Good, Knows, AbortKnown, SchedulerType
  <2> QED  BY <1>3, <2>1, <2>2 DEF Good, Knows
<1>6. Ledger(t)
  BY <1>1, <1>3 DEF Good, Ledger, SchedulerType
<1> QED  BY <1>2, <1>4, <1>5, <1>6 DEF Good, t

(* A shrunk queue and batch, anything done to the rest.                    *)
LEMMA ShrinkKeeps ==
  ASSUME NEW s, Good(s), NEW t \in SchedulerType, SameLedger(s, t),
         t.waiting \in Seq(Committed(s)),
         t.requests = s.requests \/ \A r \in Ids : t.requests[r] \in {s.requests[r], None},
         t.pending \subseteq s.pending,
         \A r \in Ids : t.running[r] \in {s.running[r], None}
  PROVE  Good(t) /\ Committed(t) = Committed(s)
<1>1. \A r \in Ids : AbortKnown(t, r) => AbortKnown(s, r)
  BY DEF AbortKnown
<1>2. \A r \in Ids : /\ AbortKnown(t, r) => s.commits[r] > 0
                     /\ t.running[r] # None => t.running[r][1] = r
  BY <1>1 DEF Good, Knows
<1> QED  BY <1>2, QuietKeeps

LEMMA RemoveKeeps ==
  ASSUME NEW s, Good(s), NEW r \in Ids
  PROVE  Good(RemoveRequest(s, r)) /\ Committed(RemoveRequest(s, r)) = Committed(s)
<1> DEFINE t == RemoveRequest(s, r)
           orphan == IF s.requests[r] # None /\ s.running[r] = s.requests[r]
                     THEN s.requests[r] ELSE s.orphans[r]
<1>1. t = [s EXCEPT !.orphans = [s.orphans EXCEPT ![r] = orphan],
                    !.requests = [s.requests EXCEPT ![r] = None]]
  BY DEF RemoveRequest, Good, SchedulerType
<1>2. /\ [s.orphans EXCEPT ![r] = orphan] \in [Ids -> ObjectOrNone]
      /\ [s.requests EXCEPT ![r] = None] \in [Ids -> ObjectOrNone]
  BY DEF Good, SchedulerType, ObjectOrNone
<1> HIDE DEF t, orphan
<1>3. t \in SchedulerType  BY <1>1, <1>2 DEF Good, SchedulerType
<1>4. /\ SameLedger(s, t) /\ t.waiting = s.waiting /\ t.running = s.running
      /\ t.pending = s.pending /\ t.requests = [s.requests EXCEPT ![r] = None]
  BY <1>1 DEF Good, SchedulerType, SameLedger
<1>5. t.waiting \in Seq(Committed(s))  BY <1>4 DEF Good, Knows
<1>6. \A x \in Ids : t.requests[x] \in {s.requests[x], None}  BY <1>4 DEF Good, SchedulerType
<1> QED  BY <1>3, <1>4, <1>5, <1>6, ShrinkKeeps DEF t

LEMMA AbortObjectKeeps ==
  ASSUME NEW s, Good(s), NEW r \in Ids
  PROVE  LET t == AbortObject([s EXCEPT !.pending = @ \ {r}], r, s.requests[r])
         IN  Good(t) /\ Committed(t) = Committed(s)
<1> DEFINE o == s.requests[r]
           t == AbortObject([s EXCEPT !.pending = @ \ {r}], r, o)
           queue == IF o = None \/ s.status[o] = "waiting" THEN DropFirst(s.waiting, r) ELSE s.waiting
           statuses == IF o = None THEN s.status ELSE [s.status EXCEPT ![o] = "cancelled"]
<1>1. t = [s EXCEPT !.pending = s.pending \ {r}, !.waiting = queue,
                    !.prefilling = s.prefilling \ {s.running[r]},
                    !.running = [s.running EXCEPT ![r] = None],
                    !.status = statuses, !.lease = [s.lease EXCEPT ![r] = "none"]]
  BY DEF AbortObject, Good, SchedulerType
<1>2. queue \in Seq(Objects) /\ queue \in Seq(Committed(s))
  <2>1. s.waiting \in Seq(Objects) /\ s.waiting \in Seq(Committed(s))
    BY DEF Good, SchedulerType, Knows
  <2>2. /\ DropFirst(s.waiting, r) \in Seq(Objects)
        /\ DropFirst(s.waiting, r) \in Seq(Committed(s))
    BY <2>1, DropFirstSeq
  <2> QED  BY <2>1, <2>2
<1>3. /\ s.pending \ {r} \in SUBSET Ids /\ s.prefilling \ {s.running[r]} \in SUBSET Objects
      /\ [s.running EXCEPT ![r] = None] \in [Ids -> ObjectOrNone]
      /\ statuses \in [Objects -> Statuses] /\ [s.lease EXCEPT ![r] = "none"] \in [Ids -> Leases]
  <2>1. o = None \/ o \in Objects  BY DEF Good, SchedulerType, ObjectOrNone
  <2>2. statuses \in [Objects -> Statuses]  BY <2>1 DEF Good, SchedulerType, Statuses
  <2> QED  BY <2>2 DEF Good, SchedulerType, ObjectOrNone, Leases
<1> HIDE DEF t, queue, statuses
<1>4. t \in SchedulerType  BY <1>1, <1>2, <1>3 DEF Good, SchedulerType
<1>5. /\ SameLedger(s, t) /\ t.waiting = queue /\ t.pending = s.pending \ {r}
      /\ t.requests = s.requests /\ t.running = [s.running EXCEPT ![r] = None]
  BY <1>1 DEF Good, SchedulerType, SameLedger
<1>6. \A x \in Ids : t.running[x] \in {s.running[x], None}  BY <1>5 DEF Good, SchedulerType
<1> QED  BY <1>2, <1>4, <1>5, <1>6, ShrinkKeeps DEF t

LEMMA CloseBatchKeeps ==
  ASSUME NEW s, Good(s)
  PROVE  Good(CloseBatch(s)) /\ Committed(CloseBatch(s)) = Committed(s)
<1> DEFINE t == CloseBatch(s)
           statuses == [o \in Objects |-> IF s.running[o[1]] = o THEN "aborted" ELSE s.status[o]]
           leases == [r \in Ids |-> IF s.running[r] # None THEN "none" ELSE s.lease[r]]
<1>1. t = [s EXCEPT !.status = statuses, !.lease = leases, !.running = Nothing, !.prefilling = {}]
  BY DEF CloseBatch
<1>2. /\ statuses \in [Objects -> Statuses] /\ leases \in [Ids -> Leases]
      /\ Nothing \in [Ids -> ObjectOrNone]
  <2>1. statuses \in [Objects -> Statuses]  BY DEF Good, SchedulerType, Statuses
  <2>2. leases \in [Ids -> Leases]  BY DEF Good, SchedulerType, Leases
  <2> QED  BY <2>1, <2>2 DEF ObjectOrNone, Nothing
<1> HIDE DEF t, statuses, leases
<1>3. t \in SchedulerType  BY <1>1, <1>2 DEF Good, SchedulerType
<1>4. /\ SameLedger(s, t) /\ t.waiting = s.waiting /\ t.pending = s.pending
      /\ t.requests = s.requests /\ t.running = Nothing
  BY <1>1 DEF Good, SchedulerType, SameLedger
<1>5. t.waiting \in Seq(Committed(s))  BY <1>4 DEF Good, Knows
<1>6. \A x \in Ids : t.running[x] \in {s.running[x], None}  BY <1>4 DEF Nothing
<1> QED  BY <1>3, <1>4, <1>5, <1>6, ShrinkKeeps DEF t

LEMMA AbortAllKeeps ==
  ASSUME NEW s, Good(s), NEW R
  PROVE  Good(AbortAll(s, R)) /\ Committed(AbortAll(s, R)) = Committed(s)
<1> DEFINE ids == R \cap UnfinishedIds(s)
           failed == {s.requests[r] : r \in ids}
           queued == {r \in ids : s.status[s.requests[r]] = "waiting"}
           t == AbortAll(s, R)
           queue == DropFirsts(s.waiting, queued)
           batch == [r \in Ids |-> IF r \in ids THEN None ELSE s.running[r]]
           statuses == [o \in Objects |-> IF o \in failed THEN "aborted" ELSE s.status[o]]
           leases == [r \in Ids |-> IF r \in ids THEN "none" ELSE s.lease[r]]
           rows == s.prefilling \ {s.running[r] : r \in ids}
<1>1. t = [s EXCEPT !.waiting = queue, !.prefilling = rows, !.running = batch,
                    !.status = statuses, !.lease = leases]
  BY DEF AbortAll
<1>2. queue \in Seq(Objects) /\ queue \in Seq(Committed(s))
  <2>1. s.waiting \in Seq(Objects) /\ s.waiting \in Seq(Committed(s))
    BY DEF Good, SchedulerType, Knows
  <2> QED  BY <2>1, DropFirstsSeq
<1> HIDE DEF ids, failed, queued, t, queue
<1>3. /\ rows \in SUBSET Objects /\ batch \in [Ids -> ObjectOrNone]
      /\ statuses \in [Objects -> Statuses] /\ leases \in [Ids -> Leases]
  <2>1. statuses \in [Objects -> Statuses]  BY DEF Good, SchedulerType, Statuses
  <2>2. leases \in [Ids -> Leases]  BY DEF Good, SchedulerType, Leases
  <2> QED  BY <2>1, <2>2 DEF Good, SchedulerType, ObjectOrNone
<1>4. \A x \in Ids : batch[x] \in {s.running[x], None}  OBVIOUS
<1> HIDE DEF batch, statuses, leases, rows
<1>5. t \in SchedulerType  BY <1>1, <1>2, <1>3 DEF Good, SchedulerType
<1>6. /\ SameLedger(s, t) /\ t.waiting = queue /\ t.pending = s.pending
      /\ t.requests = s.requests /\ t.running = batch
  BY <1>1 DEF Good, SchedulerType, SameLedger
<1> QED  BY <1>2, <1>4, <1>5, <1>6, ShrinkKeeps DEF t

LEMMA FailSharedKeeps ==
  ASSUME NEW s, Good(s), NEW admitting
  PROVE  Good(FailShared(s, admitting)) /\ Committed(FailShared(s, admitting)) = Committed(s)
<1> DEFINE u == AbortAll(CloseBatch(s), Failing(s, admitting))
           t == [u EXCEPT !.failures = Counted(s)]
<1>1. Good(u) /\ Committed(u) = Committed(s)
  BY CloseBatchKeeps, AbortAllKeeps
<1>2. t = FailShared(s, admitting)  BY DEF FailShared
<1>3. Counted(s) \in Nat  BY BoundsAssumption DEF Counted, Good, SchedulerType
<1> HIDE DEF u
<1>4. t \in SchedulerType  BY <1>1, <1>3 DEF Good, SchedulerType
<1>5. /\ SameLedger(u, t) /\ t.waiting = u.waiting /\ t.pending = u.pending
      /\ t.requests = u.requests /\ t.running = u.running
  BY <1>1 DEF Good, SchedulerType, SameLedger
<1> HIDE DEF t
<1>6. t.waiting \in Seq(Committed(u))  BY <1>1, <1>5 DEF Good, Knows
<1> QED  BY <1>1, <1>2, <1>4, <1>5, <1>6, ShrinkKeeps

LEMMA BatchInQueueOrder ==
  ASSUME NEW s, Good(s), NEW back \in SetToSeqs({s.running[r] : r \in Running(s)})
  PROVE  back \in Seq(Committed(s))
<1> DEFINE T == {s.running[r] : r \in Running(s)}
           f == [r \in Running(s) |-> s.running[r]]
<1>1. IsFiniteSet(T)
  <2>1. IsFiniteSet(Running(s))  BY BoundsAssumption, FS_Subset DEF Running
  <2>2. f \in Surjection(Running(s), T)  BY DEF Surjection
  <2> HIDE DEF f, T
  <2> QED  BY <2>1, <2>2, FS_Surjection
<1>2. T \subseteq Committed(s)
  <2> SUFFICES ASSUME NEW r \in Ids, s.running[r] # None  PROVE s.running[r] \in Committed(s)
    BY DEF Running
  <2>1. s.running[r] \in Objects /\ s.running[r][1] = r
    BY DEF Good, SchedulerType, Knows, ObjectOrNone
  <2>2. s.commits[r] > 0  BY DEF Good, Knows, AbortKnown
  <2> QED  BY <2>1, <2>2 DEF Committed
<1> HIDE DEF T
<1>3. Cardinality(T) \in Nat  BY <1>1, FS_CardinalityType
<1>4. back \in [1..Cardinality(T) -> T]  BY DEF SetToSeqs, T
<1> QED  BY <1>2, <1>3, <1>4

LEMMA RescheduleKeeps ==
  ASSUME NEW s, Good(s), NEW t \in Rescheduled(s)
  PROVE  Good(t) /\ Committed(t) = Committed(s)
<1>1. PICK back \in SetToSeqs({s.running[r] : r \in Running(s)}) : t = Reschedule(s, back)
  BY DEF Rescheduled
<1> DEFINE statuses == [o \in Objects |-> IF s.running[o[1]] = o THEN "waiting" ELSE s.status[o]]
           leases == [r \in Ids |-> "none"]
           queue == back \o s.waiting
<1>2. t = [s EXCEPT !.lease = leases, !.status = statuses, !.waiting = queue,
                    !.running = Nothing, !.prefilling = {}]
  BY <1>1 DEF Reschedule
<1>3. queue \in Seq(Objects) /\ queue \in Seq(Committed(s))
  <2>1. back \in Seq(Committed(s)) /\ s.waiting \in Seq(Committed(s))
    BY BatchInQueueOrder DEF Good, Knows
  <2>2. queue \in Seq(Committed(s))  BY <2>1
  <2>3. Committed(s) \subseteq Objects  BY DEF Committed
  <2> HIDE DEF queue
  <2> QED  BY <2>2, <2>3
<1>4. statuses \in [Objects -> Statuses]
  BY DEF Good, SchedulerType, Statuses, Unfinished
<1>5. leases \in [Ids -> Leases] /\ Nothing \in [Ids -> ObjectOrNone]
  BY DEF Leases, Nothing, ObjectOrNone
<1> HIDE DEF statuses, leases, queue
<1>6. t \in SchedulerType  BY <1>2, <1>3, <1>4, <1>5 DEF Good, SchedulerType
<1>7. /\ SameLedger(s, t) /\ t.waiting = queue /\ t.pending = s.pending
      /\ t.requests = s.requests /\ t.running = Nothing
  BY <1>2 DEF Good, SchedulerType, SameLedger
<1>8. \A x \in Ids : t.running[x] \in {s.running[x], None}  BY <1>7 DEF Nothing
<1> QED  BY <1>3, <1>6, <1>7, <1>8, ShrinkKeeps

-----------------------------------------------------------------------------
(* What the other parts of the state must keep.                            *)
LEMMA ClientStep ==
  ASSUME ClientShape(client), NEW r \in Ids, NEW c, ClientRecord(c),
         client' = [client EXCEPT ![r] = c]
  PROVE  ClientShape(client)'
<1>1. \A x \in Ids : client'[x] = IF x = r THEN c ELSE client[x]
  BY DEF ClientShape
<1>2. client' = [x \in Ids |-> client'[x]]
  BY DEF ClientShape
<1> QED  BY <1>1, <1>2 DEF ClientShape

LEMMA ClientField ==
  ASSUME NEW c, ClientRecord(c), NEW x
  PROVE  /\ ClientRecord([c EXCEPT !.at = x]) /\ ClientRecord([c EXCEPT !.got = x])
         /\ ClientRecord([c EXCEPT !.fate = x]) /\ c.life \in Nat
<1>1. PICK at, got, fate : \E life \in Nat :
              c = [at |-> at, life |-> life, got |-> got, fate |-> fate]
  BY DEF ClientRecord
<1>2. PICK life \in Nat : c = [at |-> at, life |-> life, got |-> got, fate |-> fate]
  BY <1>1
<1>3. [c EXCEPT !.at = x] = [at |-> x, life |-> life, got |-> got, fate |-> fate]
  BY <1>2
<1>4. [c EXCEPT !.got = x] = [at |-> at, life |-> life, got |-> x, fate |-> fate]
  BY <1>2
<1>5. [c EXCEPT !.fate = x] = [at |-> at, life |-> life, got |-> got, fate |-> x]
  BY <1>2
<1>6. ClientRecord([c EXCEPT !.at = x])  BY <1>3, Zenon DEF ClientRecord
<1>7. ClientRecord([c EXCEPT !.got = x])  BY <1>4, Zenon DEF ClientRecord
<1>8. ClientRecord([c EXCEPT !.fate = x])  BY <1>5, Zenon DEF ClientRecord
<1> QED  BY <1>2, <1>6, <1>7, <1>8

LEMMA ClientFields ==
  ASSUME NEW c, ClientRecord(c), NEW x, NEW y, NEW z
  PROVE  /\ ClientRecord([c EXCEPT !.at = x, !.got = y, !.fate = z])
         /\ ClientRecord([c EXCEPT !.at = x, !.fate = z])
<1> DEFINE d == [c EXCEPT !.at = x]
           e == [d EXCEPT !.got = y]
<1>1. ClientRecord(d)  BY ClientField
<1>2. ClientRecord(e)  BY <1>1, ClientField
<1>3. ClientRecord([d EXCEPT !.fate = z])  BY <1>1, ClientField
<1>4. ClientRecord([e EXCEPT !.fate = z])  BY <1>2, ClientField
<1>5. [c EXCEPT !.at = x, !.fate = z] = [d EXCEPT !.fate = z]  OBVIOUS
<1>6. [c EXCEPT !.at = x, !.got = y, !.fate = z] = [e EXCEPT !.fate = z]  OBVIOUS
<1> QED  BY <1>3, <1>4, <1>5, <1>6

LEMMA JobsStep ==
  ASSUME jobs \in Seq(JobType)
  PROVE  /\ \A o \in Objects : Append(jobs, [do |-> "add", obj |-> o]) \in Seq(JobType)
         /\ \A d \in {"step", "fail"} : Append(jobs, [do |-> d, obj |-> None]) \in Seq(JobType)
         /\ \A i \in DOMAIN jobs : RemoveAt(jobs, i) \in Seq(JobType)
         /\ jobs # <<>> => Tail(jobs) \in Seq(JobType)
<1>1. /\ \A o \in Objects : [do |-> "add", obj |-> o] \in JobType
      /\ \A d \in {"step", "fail"} : [do |-> d, obj |-> None] \in JobType
  BY DEF JobType
<1>2. \A i \in DOMAIN jobs : RemoveAt(jobs, i) \in Seq(JobType)
  BY RemoveAtSeq
<1> QED  BY <1>1, <1>2

LEMMA FirstJob ==
  ASSUME jobs \in Seq(JobType), jobs # <<>>, jobs[1].do = "add"
  PROVE  jobs[1].obj \in Objects /\ jobs[1].obj[1] \in Ids
<1>1. jobs[1] \in JobType  OBVIOUS
<1> QED  BY <1>1, ObjectIds DEF JobType

(* A step that leaves the scheduler and the worker alone.                  *)
LEMMA OutsideKeeps ==
  ASSUME IInv, UNCHANGED <<sched, step>>, ClientShape(client)', jobs' \in Seq(JobType)
  PROVE  IInv'
BY DEF IInv, Shape, Good, Knows, Ledger, Committed, SchedulerType, StepType, AbortKnown

(* A step of the worker.                                                   *)
LEMMA WorkerKeeps ==
  ASSUME IInv, Good(sched'), ClientShape(client)', jobs' \in Seq(JobType),
         step' \in StepType, step'.at = "add" => step'.adding \in Objects,
         step'.at = "insert" => step'.admitting \in Objects,
         step'.admitting \in Committed(sched') \cup {None}
  PROVE  IInv'
BY DEF IInv, Shape

LEMMA InitHolds == Init => IInv
<1> SUFFICES ASSUME Init  PROVE IInv
  OBVIOUS
<1>1. Shape
  <2>1. ClientShape(client)  BY DEF Init, ClientShape, ClientRecord
  <2>2. jobs \in Seq(JobType)  BY DEF Init
  <2>3. step \in StepType /\ step.at = "free"  BY DEF Init, StepType, Free, ObjectOrNone
  <2> QED  BY <2>1, <2>2, <2>3 DEF Shape
<1>2. sched \in SchedulerType
  BY DEF Init, SchedulerType, Nothing, Zeros, ObjectOrNone, Statuses, Unfinished, Leases
<1>3. Knows(sched) /\ Ledger(sched)
  BY DEF Init, Knows, Ledger, AbortKnown, Nothing, Zeros
<1>4. step.admitting = None
  BY DEF Init, Free
<1> QED  BY <1>1, <1>2, <1>3, <1>4 DEF IInv, Good

(* A step of the event loop that changes the scheduler.                    *)
LEMMA LoopKeeps ==
  ASSUME IInv, Good(sched'), Committed(sched) \subseteq Committed(sched'),
         UNCHANGED <<step, jobs>>, ClientShape(client)'
  PROVE  IInv'
BY DEF IInv, Shape, StepType, JobType

LEMMA SubmitKeeps ==
  ASSUME IInv, NEW r \in Ids, Submit(r)
  PROVE  IInv'
<1> DEFINE o == <<r, client[r].life + 1>>
           c == [at |-> "adding", life |-> o[2], got |-> 0, fate |-> "none"]
<1>1. ClientShape(client) /\ jobs \in Seq(JobType)  BY DEF IInv, Shape
<1>2. client[r].life \in Nat  BY <1>1, ClientField DEF ClientShape
<1>3. o \in Objects  BY <1>2, BoundsAssumption DEF Submit, Objects
<1>4. ClientRecord(c)
  <2>1. o[2] \in Nat  BY <1>2
  <2> HIDE DEF o
  <2> QED  BY <2>1, Zenon DEF ClientRecord
<1>5. client' = [client EXCEPT ![r] = c]  BY DEF Submit
<1>6. ClientShape(client)'  BY <1>1, <1>4, <1>5, ClientStep
<1>7. jobs' \in Seq(JobType)  BY <1>1, <1>3, JobsStep DEF Submit
<1> QED  BY <1>6, <1>7, OutsideKeeps DEF Submit

LEMMA WithdrawKeeps ==
  ASSUME IInv, NEW r \in Ids, Withdraw(r)
  PROVE  IInv'
<1>1. ClientShape(client) /\ jobs \in Seq(JobType)  BY DEF IInv, Shape
<1>2. ClientRecord(client[r])  BY <1>1 DEF ClientShape
<1>3. jobs' \in Seq(JobType)  BY <1>1, JobsStep DEF Withdraw
<1>4. ClientShape(client)'
  <2>1. PICK x \in {"leaving", "cancelled"} :
               client' = [client EXCEPT ![r] = [client[r] EXCEPT !.at = x, !.fate = "cancelled"]]
    BY <1>1 DEF Withdraw, ClientShape
  <2> QED  BY <1>1, <1>2, <2>1, ClientFields, ClientStep
<1> QED  BY <1>3, <1>4, OutsideKeeps DEF Withdraw

LEMMA ReadKeeps ==
  ASSUME IInv, NEW r \in Ids, Read(r)
  PROVE  IInv'
<1> DEFINE o == stream[r].out
           c == IF Raises(o) THEN [client[r] EXCEPT !.at = "closing", !.fate = "failed"]
                ELSE IF Finished(o)
                THEN [client[r] EXCEPT !.at = "leaving", !.got = client[r].got + o.n, !.fate = EndOf(o)]
                ELSE [client[r] EXCEPT !.got = client[r].got + o.n]
<1>1. ClientShape(client) /\ jobs \in Seq(JobType)  BY DEF IInv, Shape
<1>2. ClientRecord(client[r])  BY <1>1 DEF ClientShape
<1>3. ClientRecord(c)
  <2>1. ClientRecord([client[r] EXCEPT !.at = "closing", !.fate = "failed"])
    BY <1>2, ClientFields
  <2>2. ClientRecord([client[r] EXCEPT !.at = "leaving", !.got = client[r].got + o.n, !.fate = EndOf(o)])
    BY <1>2, ClientFields
  <2>3. ClientRecord([client[r] EXCEPT !.got = client[r].got + o.n])
    BY <1>2, ClientField
  <2>4. CASE Raises(o)  BY <2>1, <2>4
  <2>5. CASE ~Raises(o) /\ Finished(o)  BY <2>2, <2>5
  <2>6. CASE ~Raises(o) /\ ~Finished(o)  BY <2>3, <2>6
  <2> QED  BY <2>4, <2>5, <2>6
<1>4. client' = [client EXCEPT ![r] = c]  BY DEF Read
<1> HIDE DEF c
<1>5. ClientShape(client)'  BY <1>1, <1>3, <1>4, ClientStep
<1> QED  BY <1>1, <1>5, OutsideKeeps DEF Read

LEMMA ReturnKeeps ==
  ASSUME IInv, NEW r \in Ids, Return(r)
  PROVE  IInv'
<1> DEFINE o == stream[r].out
           c == IF o = None \/ Raises(o) THEN [client[r] EXCEPT !.at = "leaving", !.fate = "failed"]
                ELSE [client[r] EXCEPT !.at = "leaving", !.got = o.total, !.fate = EndOf(o)]
<1>1. ClientShape(client) /\ jobs \in Seq(JobType)  BY DEF IInv, Shape
<1>2. ClientRecord(client[r])  BY <1>1 DEF ClientShape
<1>3. ClientRecord(c)  BY <1>2, ClientFields
<1>4. client' = [client EXCEPT ![r] = c]  BY DEF Return
<1> HIDE DEF c
<1>5. ClientShape(client)'  BY <1>1, <1>3, <1>4, ClientStep
<1> QED  BY <1>1, <1>5, OutsideKeeps DEF Return

LEMMA DisconnectKeeps ==
  ASSUME IInv, NEW r \in Ids, Disconnect(r)
  PROVE  IInv'
<1>1. ClientShape(client) /\ jobs \in Seq(JobType)  BY DEF IInv, Shape
<1>2. ClientRecord(client[r])  BY <1>1 DEF ClientShape
<1>3. client' = [client EXCEPT ![r] = [client[r] EXCEPT !.at = "closing", !.fate = "left"]]
  BY <1>1 DEF Disconnect, ClientShape
<1>4. ClientShape(client)'  BY <1>1, <1>2, <1>3, ClientFields, ClientStep
<1> QED  BY <1>1, <1>4, OutsideKeeps DEF Disconnect

LEMMA AbortsKeep ==
  ASSUME IInv, NEW r \in Ids,
         ForceAbort(r) \/ RecordDisconnect(r) \/ Finally(r) \/ CancelRequest(r)
  PROVE  IInv'
<1>1. ClientShape(client) /\ Good(sched)  BY DEF IInv, Shape
<1>2. ClientRecord(client[r])  BY <1>1 DEF ClientShape
<1>3. {r} \in SUBSET Ids  OBVIOUS
<1>4. CASE ForceAbort(r)
  BY <1>1, <1>3, <1>4, EnqueueKeeps, LoopKeeps DEF ForceAbort, ClientShape
<1>5. CASE RecordDisconnect(r)
  BY <1>1, <1>5, AttributeKeeps, LoopKeeps DEF RecordDisconnect, ClientShape
<1>6. CASE Finally(r)
  <2>1. client' = [client EXCEPT ![r] = [client[r] EXCEPT !.at = "leaving"]]
    BY <1>6 DEF Finally
  <2>2. ClientShape(client)'  BY <1>1, <1>2, <2>1, ClientField, ClientStep
  <2> QED  BY <1>1, <1>3, <1>6, <2>2, EnqueueKeeps, LoopKeeps DEF Finally
<1>7. CASE CancelRequest(r)
  BY <1>1, <1>3, <1>7, EnqueueKeeps, LoopKeeps DEF CancelRequest, ClientShape
<1> QED  BY <1>4, <1>5, <1>6, <1>7

LEMMA CleanupKeeps ==
  ASSUME IInv, NEW r \in Ids, Cleanup(r)
  PROVE  IInv'
<1>1. ClientShape(client) /\ Good(sched)  BY DEF IInv, Shape
<1>2. ClientRecord(client[r])  BY <1>1 DEF ClientShape
<1>3. client' = [client EXCEPT ![r] = [client[r] EXCEPT !.at = "gone"]]
  BY DEF Cleanup
<1>4. ClientShape(client)'  BY <1>1, <1>2, <1>3, ClientField, ClientStep
<1> QED  BY <1>1, <1>4, RemoveKeeps, LoopKeeps DEF Cleanup

LEMMA EngineLoopKeeps ==
  ASSUME IInv, Pause \/ Loop
  PROVE  IInv'
<1>1. ClientShape(client) /\ Good(sched) /\ jobs \in Seq(JobType)  BY DEF IInv, Shape
<1>2. CASE Pause \/ Deliver \/ DeliverFailures
  BY <1>1, <1>2, OutsideKeeps DEF Pause, Deliver, DeliverFailures, ClientShape
<1>3. CASE Dispatch \/ Recover
  <2>1. jobs' \in Seq(JobType)  BY <1>1, <1>3, JobsStep DEF Dispatch, Recover
  <2> QED  BY <1>1, <1>3, <2>1, OutsideKeeps DEF Dispatch, Recover, ClientShape
<1>4. CASE Synthesise
  BY <1>1, <1>4, EnqueueKeeps, LoopKeeps DEF Synthesise, ClientShape
<1> QED  BY <1>2, <1>3, <1>4 DEF Loop

-----------------------------------------------------------------------------
(* The worker's actions.                                                   *)
LEMMA Facts ==
  ASSUME IInv
  PROVE  /\ ClientShape(client) /\ jobs \in Seq(JobType) /\ step \in StepType
         /\ Good(sched) /\ step.admitting \in Committed(sched) \cup {None}
         /\ Committed(sched) \subseteq Objects
BY DEF IInv, Shape, Committed

LEMMA TurnedShape ==
  ASSUME ClientShape(client), NEW r \in Ids, Turned(r)
  PROVE  ClientShape(client)'
<1>1. ClientRecord(client[r])  BY DEF ClientShape
<1>2. PICK x : client' = [client EXCEPT ![r] = [client[r] EXCEPT !.at = "closing", !.fate = x]]
  BY DEF Turned, ClientShape
<1> QED  BY <1>1, <1>2, ClientFields, ClientStep

LEMMA AddRefusedKeeps ==
  ASSUME IInv, AddRefused
  PROVE  IInv'
<1>1. jobs[1].obj[1] \in Ids  BY Facts, FirstJob DEF AddRefused, Taking
<1>2. ClientShape(client)'  BY <1>1, Facts, TurnedShape DEF AddRefused
<1>3. jobs' \in Seq(JobType)  BY Facts, JobsStep DEF AddRefused, Taking
<1> QED  BY <1>2, <1>3, OutsideKeeps DEF AddRefused

LEMMA LeaseKeeps ==
  ASSUME NEW s, Good(s), NEW r \in Ids, NEW x \in Leases, NEW q \in Seq(Committed(s))
  PROVE  /\ Good([s EXCEPT !.waiting = q, !.lease[r] = x])
         /\ Committed([s EXCEPT !.waiting = q, !.lease[r] = x]) = Committed(s)
<1> DEFINE t == [s EXCEPT !.waiting = q, !.lease[r] = x]
           leases == [s.lease EXCEPT ![r] = x]
<1>1. t = [s EXCEPT !.waiting = q, !.lease = leases]  BY DEF Good, SchedulerType
<1>2. leases \in [Ids -> Leases]  BY DEF Good, SchedulerType
<1>3. q \in Seq(Objects)
  <2>1. Committed(s) \subseteq Objects  BY DEF Committed
  <2> QED  BY <2>1
<1> HIDE DEF leases, t
<1>4. t \in SchedulerType  BY <1>1, <1>2, <1>3 DEF Good, SchedulerType
<1>5. /\ SameLedger(s, t) /\ t.waiting = q /\ t.pending = s.pending
      /\ t.requests = s.requests /\ t.running = s.running
  BY <1>1 DEF Good, SchedulerType, SameLedger
<1>6. Good(t) /\ Committed(t) = Committed(s)  BY <1>4, <1>5, ShrinkKeeps
<1> QED  BY <1>6 DEF t

LEMMA AddStartKeeps ==
  ASSUME IInv, AddStart
  PROVE  IInv'
<1> DEFINE r == jobs[1].obj[1]
<1>1. r \in Ids /\ jobs[1].obj \in Objects  BY Facts, FirstJob DEF AddStart, Taking
<1>2. PICK hit \in {"none", "held"} : sched' = [sched EXCEPT !.lease[r] = hit]
  BY DEF AddStart
<1>3. sched' = [sched EXCEPT !.waiting = sched.waiting, !.lease[r] = hit]
  BY <1>2, Facts DEF Good, SchedulerType
<1>4. sched.waiting \in Seq(Committed(sched)) /\ hit \in Leases
  BY Facts DEF Good, Knows, Leases
<1>5. Good(sched') /\ Committed(sched') = Committed(sched)
  <2>1. Good(sched)  BY Facts
  <2>2. /\ Good([sched EXCEPT !.waiting = sched.waiting, !.lease[r] = hit])
        /\ Committed([sched EXCEPT !.waiting = sched.waiting, !.lease[r] = hit]) = Committed(sched)
    BY <1>1, <1>4, <2>1, LeaseKeeps
  <2> QED  BY <2>2, <1>3
<1>6. /\ step' \in StepType /\ step'.at = "add" /\ step'.adding \in Objects
      /\ step'.admitting = step.admitting
  BY <1>1, Facts DEF AddStart, StepType, ObjectOrNone
<1>7. jobs' \in Seq(JobType)  BY Facts, JobsStep DEF AddStart, Taking
<1>8. ClientShape(client)'  BY Facts DEF AddStart, ClientShape
<1> QED  BY <1>5, <1>6, <1>7, <1>8, Facts, WorkerKeeps

LEMMA AddCommitKeeps ==
  ASSUME IInv, AddCommit
  PROVE  IInv'
<1> DEFINE o == step.adding
           r == o[1]
           added == Commit(sched, o)
<1>1. o \in Objects /\ r \in Ids /\ {r} \in SUBSET Ids
  BY ObjectIds DEF AddCommit, IInv, Shape
<1>2. Good(added) /\ Committed(sched) \subseteq Committed(added)
  BY <1>1, Facts, CommitKeeps
<1> HIDE DEF added
<1>3. Good(sched') /\ Committed(sched) \subseteq Committed(sched')
  <2>1. sched' = added \/ sched' = Enqueue(added, {r})  BY DEF AddCommit, added
  <2> QED  BY <1>1, <1>2, <2>1, EnqueueKeeps
<1>4. ClientShape(client)'
  <2>1. ClientRecord(client[r])  BY <1>1, Facts DEF ClientShape
  <2>2. PICK x : client' = [client EXCEPT ![r] = [client[r] EXCEPT !.at = x]]
    BY DEF AddCommit
  <2> QED  BY <1>1, <2>1, <2>2, Facts, ClientField, ClientStep
<1>5. step' \in StepType /\ step'.at = "free" /\ step'.admitting = step.admitting
  BY Facts DEF AddCommit, StepType, ObjectOrNone
<1>6. jobs' \in Seq(JobType)  BY Facts DEF AddCommit
<1> QED  BY <1>3, <1>4, <1>5, <1>6, Facts, WorkerKeeps

LEMMA AddRaisesKeeps ==
  ASSUME IInv, AddRaises
  PROVE  IInv'
<1>1. step.adding[1] \in Ids  BY ObjectIds DEF AddRaises, IInv, Shape
<1>2. ClientShape(client)'  BY <1>1, Facts, TurnedShape DEF AddRaises
<1>3. step' \in StepType /\ step'.at = "free" /\ step'.admitting = step.admitting
  BY Facts DEF AddRaises, StepType, ObjectOrNone
<1> QED  BY <1>2, <1>3, Facts, WorkerKeeps DEF AddRaises

LEMMA StepStartKeeps ==
  ASSUME IInv, StepStart
  PROVE  IInv'
<1>1. Untracked \in SUBSET Objects
  <2>1. sched.waiting \in Seq(Objects)  BY Facts DEF Good, SchedulerType
  <2>2. ToSet(sched.waiting) \subseteq Objects  BY <2>1 DEF ToSet
  <2>3. InBatch \subseteq Objects  BY Facts DEF InBatch, Running, Good, SchedulerType, ObjectOrNone
  <2> QED  BY <2>2, <2>3 DEF Untracked
<1>2. step' \in StepType /\ step'.at = "drain" /\ step'.admitting = None
  BY <1>1 DEF StepStart, Free, StepType, ObjectOrNone
<1>3. jobs' \in Seq(JobType)  BY Facts, JobsStep DEF StepStart, Taking
<1>4. ClientShape(client)'  BY Facts DEF StepStart, ClientShape
<1> QED  BY <1>2, <1>3, <1>4, Facts, WorkerKeeps DEF StepStart

LEMMA DrainKeeps ==
  ASSUME IInv, NEW r \in Ids, Drain(r)
  PROVE  IInv'
<1>1. Good(sched') /\ Committed(sched') = Committed(sched)
  BY Facts, AbortObjectKeeps DEF Drain
<1>2. ClientShape(client)'  BY Facts DEF Drain, ClientShape
<1> QED  BY <1>1, <1>2, LoopKeeps DEF Drain

LEMMA ReconcileKeeps ==
  ASSUME IInv, Reconcile
  PROVE  IInv'
<1> DEFINE reaped == Reaped(sched)
           objects == {sched.orphans[r] : r \in reaped}
           batch == [r \in Ids |-> IF r \in reaped THEN None ELSE sched.running[r]]
           statuses == [o \in Objects |-> IF o \in objects THEN "cancelled" ELSE sched.status[o]]
           leases == [r \in Ids |-> IF r \in reaped THEN "none" ELSE sched.lease[r]]
           rows == sched.prefilling \ objects
<1>1. sched' = [sched EXCEPT !.orphans = Nothing, !.prefilling = rows, !.running = batch,
                             !.status = statuses, !.lease = leases]
  BY DEF Reconcile
<1> HIDE DEF reaped, objects
<1>2. statuses \in [Objects -> Statuses]  BY Facts DEF Good, SchedulerType, Statuses
<1>3. leases \in [Ids -> Leases]  BY Facts DEF Good, SchedulerType, Leases
<1>4. /\ rows \in SUBSET Objects /\ batch \in [Ids -> ObjectOrNone]
      /\ Nothing \in [Ids -> ObjectOrNone]
      /\ \A r \in Ids : batch[r] \in {sched.running[r], None}
  BY Facts DEF Good, SchedulerType, ObjectOrNone, Nothing
<1> HIDE DEF batch, statuses, leases, rows
<1>5. sched' \in SchedulerType  BY <1>1, <1>2, <1>3, <1>4, Facts DEF Good, SchedulerType
<1>6. /\ SameLedger(sched, sched') /\ sched'.waiting = sched.waiting
      /\ sched'.pending = sched.pending /\ sched'.requests = sched.requests
      /\ sched'.running = batch
  BY <1>1, Facts DEF Good, SchedulerType, SameLedger
<1>7. sched'.waiting \in Seq(Committed(sched))  BY <1>6, Facts DEF Good, Knows
<1>8. Good(sched') /\ Committed(sched') = Committed(sched)
  BY <1>4, <1>5, <1>6, <1>7, Facts, ShrinkKeeps
<1>9. ClientShape(client)'  BY Facts DEF Reconcile, ClientShape
<1>10. step' \in StepType /\ step'.at = "admit" /\ step'.admitting = step.admitting
  BY Facts DEF Reconcile, StepType
<1> QED  BY <1>8, <1>9, <1>10, Facts, WorkerKeeps DEF Reconcile

LEMMA AdmitKeeps ==
  ASSUME IInv, NEW i \in DOMAIN sched.waiting, Admit(i)
  PROVE  IInv'
<1> DEFINE o == sched.waiting[i]
           q == DropFirst(sched.waiting, o[1])
<1>1. sched.waiting \in Seq(Committed(sched))  BY Facts DEF Good, Knows
<1>2. o \in Committed(sched) /\ o \in Objects  BY <1>1, Facts
<1>3. q \in Seq(Committed(sched)) /\ q \in Seq(Objects)
  BY <1>1, DropFirstSeq, Facts DEF Good, SchedulerType
<1>4. sched' = [sched EXCEPT !.waiting = q]  BY DEF Admit
<1> HIDE DEF q
<1>5. /\ sched' \in SchedulerType /\ SameLedger(sched, sched') /\ sched'.waiting = q
      /\ sched'.pending = sched.pending /\ sched'.requests = sched.requests
      /\ sched'.running = sched.running
  BY <1>3, <1>4, Facts DEF Good, SchedulerType, SameLedger
<1>6. Good(sched') /\ Committed(sched') = Committed(sched)
  BY <1>3, <1>5, Facts, ShrinkKeeps
<1>7. ClientShape(client)'  BY Facts DEF Admit, ClientShape
<1>8. step' \in StepType /\ step'.at = "insert" /\ step'.admitting = o
  BY <1>2, Facts DEF Admit, StepType, ObjectOrNone
<1> QED  BY <1>2, <1>6, <1>7, <1>8, Facts, WorkerKeeps DEF Admit

LEMMA DeferKeeps ==
  ASSUME IInv, NEW i \in DOMAIN sched.waiting, Defer(i)
  PROVE  IInv'
<1> DEFINE r == sched.waiting[i][1]
<1>1. sched.waiting \in Seq(Committed(sched))  BY Facts DEF Good, Knows
<1>2. sched.waiting[i] \in Committed(sched) /\ r \in Ids  BY <1>1, Facts, ObjectIds
<1>3. PICK q \in {sched.waiting, <<sched.waiting[i]>> \o RemoveAt(sched.waiting, i)}, keep \in BOOLEAN :
         sched' = [sched EXCEPT !.waiting = q, !.lease[r] = IF keep THEN @ ELSE "none"]
  BY DEF Defer
<1>4. q \in Seq(Committed(sched))
  <2>1. RemoveAt(sched.waiting, i) \in Seq(Committed(sched))  BY <1>1, RemoveAtSeq
  <2>2. <<sched.waiting[i]>> \in Seq(Committed(sched))  BY <1>2
  <2>3. <<sched.waiting[i]>> \o RemoveAt(sched.waiting, i) \in Seq(Committed(sched))  BY <2>1, <2>2
  <2> QED  BY <1>1, <1>3, <2>3
<1>5. Good(sched') /\ Committed(sched') = Committed(sched)
  <2> DEFINE leases == [sched.lease EXCEPT ![r] = IF keep THEN sched.lease[r] ELSE "none"]
  <2>1. sched' = [sched EXCEPT !.waiting = q, !.lease = leases]
    BY <1>3, Facts DEF Good, SchedulerType
  <2>2. leases \in [Ids -> Leases]  BY <1>2, Facts DEF Good, SchedulerType, Leases
  <2>3. q \in Seq(Objects)
    <3>1. Committed(sched) \subseteq Objects  BY Facts
    <3> QED  BY <1>4, <3>1
  <2> HIDE DEF leases
  <2>4. /\ sched' \in SchedulerType /\ SameLedger(sched, sched') /\ sched'.waiting = q
        /\ sched'.pending = sched.pending /\ sched'.requests = sched.requests
        /\ sched'.running = sched.running
    BY <2>1, <2>2, <2>3, Facts DEF Good, SchedulerType, SameLedger
  <2> QED  BY <1>4, <2>4, Facts, ShrinkKeeps
<1>6. ClientShape(client)'  BY Facts DEF Defer, ClientShape
<1>7. step' \in StepType /\ step'.at = "decode" /\ step'.admitting = None
  BY Facts DEF Defer, StepType, ObjectOrNone
<1> QED  BY <1>5, <1>6, <1>7, Facts, WorkerKeeps DEF Defer

LEMMA InsertKeeps ==
  ASSUME IInv, Insert
  PROVE  IInv'
<1> DEFINE o == step.admitting
           r == o[1]
<1>1. o \in Objects /\ o \in Committed(sched) /\ r \in Ids
  BY Facts, ObjectIds, NoneAssumption DEF Insert, IInv, Shape
<1>2. PICK long, keep \in BOOLEAN :
         sched' = [sched EXCEPT !.running[r] = o, !.status[o] = "running", !.row[o] = 0,
                     !.lease[r] = IF keep THEN @ ELSE "none",
                     !.prefilling = IF long THEN @ \cup {o} ELSE @]
  BY DEF Insert
<1> DEFINE batch == [sched.running EXCEPT ![r] = o]
           statuses == [sched.status EXCEPT ![o] = "running"]
           progress == [sched.row EXCEPT ![o] = 0]
           leases == [sched.lease EXCEPT ![r] = IF keep THEN sched.lease[r] ELSE "none"]
           rows == IF long THEN sched.prefilling \cup {o} ELSE sched.prefilling
<1>3. sched' = [sched EXCEPT !.running = batch, !.status = statuses, !.row = progress,
                             !.lease = leases, !.prefilling = rows]
  BY <1>2, Facts DEF Good, SchedulerType
<1>4. statuses \in [Objects -> Statuses]  BY Facts DEF Good, SchedulerType, Statuses, Unfinished
<1>5. leases \in [Ids -> Leases]  BY <1>1, Facts DEF Good, SchedulerType, Leases
<1>6. /\ batch \in [Ids -> ObjectOrNone] /\ rows \in SUBSET Objects
      /\ progress \in [Objects -> Int]
      /\ \A x \in Ids : batch[x] = IF x = r THEN o ELSE sched.running[x]
  BY <1>1, Facts DEF Good, SchedulerType, ObjectOrNone
<1> HIDE DEF batch, statuses, progress, leases, rows
<1>7. sched' \in SchedulerType
  BY <1>3, <1>4, <1>5, <1>6, Facts DEF Good, SchedulerType
<1>8. /\ SameLedger(sched, sched') /\ sched'.waiting = sched.waiting
      /\ sched'.pending = sched.pending /\ sched'.requests = sched.requests
      /\ sched'.running = batch
  BY <1>3, Facts DEF Good, SchedulerType, SameLedger
<1>9. \A x \in Ids : /\ AbortKnown(sched', x) => sched.commits[x] > 0
                     /\ sched'.running[x] # None => sched'.running[x][1] = x
  BY <1>1, <1>6, <1>8, Facts DEF Good, Knows, AbortKnown, Committed
<1>10. sched'.waiting \in Seq(Committed(sched))  BY <1>8, Facts DEF Good, Knows
<1>11. Good(sched') /\ Committed(sched') = Committed(sched)
  BY <1>7, <1>8, <1>9, <1>10, Facts, QuietKeeps
<1>12. ClientShape(client)'  BY Facts DEF Insert, ClientShape
<1>13. step' \in StepType /\ step'.at = "admit" /\ step'.admitting = None
  BY Facts DEF Insert, StepType, ObjectOrNone
<1> QED  BY <1>11, <1>12, <1>13, Facts, WorkerKeeps DEF Insert

(* The ends of a step.                                                     *)
LEMMA EndStepKeeps ==
  ASSUME IInv, NEW s, NEW outs, EndStep(s, outs), Good(s)
  PROVE  IInv'
<1>1. ClientShape(client)'  BY Facts DEF EndStep, ClientShape
<1>2. step' \in StepType /\ step'.at = "free" /\ step'.admitting = None
  BY DEF EndStep, Free, StepType, ObjectOrNone
<1> QED  BY <1>1, <1>2, Facts, WorkerKeeps DEF EndStep

LEMMA ResetFailures ==
  ASSUME NEW s, Good(s), NEW n \in Nat
  PROVE  Good([s EXCEPT !.failures = n])
<1> DEFINE t == [s EXCEPT !.failures = n]
<1>1. /\ t \in SchedulerType /\ SameLedger(s, t) /\ t.waiting = s.waiting
      /\ t.pending = s.pending /\ t.requests = s.requests /\ t.running = s.running
  BY DEF Good, SchedulerType, SameLedger
<1> HIDE DEF t
<1>2. t.waiting \in Seq(Committed(s))  BY <1>1 DEF Good, Knows
<1>3. Good(t)  BY <1>1, <1>2, ShrinkKeeps
<1> QED  BY <1>3 DEF t

LEMMA FailuresKeep ==
  ASSUME IInv, FailOwn \/ FailStep \/ DecodeNothing
  PROVE  IInv'
<1>1. CASE FailOwn  BY <1>1, Facts, AbortAllKeeps, EndStepKeeps DEF FailOwn
<1>2. CASE FailStep  BY <1>2, Facts, FailSharedKeeps, EndStepKeeps DEF FailStep
<1>3. CASE DecodeNothing  BY <1>3, Facts, ResetFailures, EndStepKeeps DEF DecodeNothing
<1> QED  BY <1>1, <1>2, <1>3

LEMMA FailJobKeeps ==
  ASSUME IInv, FailJob
  PROVE  IInv'
<1>1. jobs' \in Seq(JobType)  BY Facts, JobsStep DEF FailJob, Taking
<1>2. ClientShape(client)'  BY Facts DEF FailJob, ClientShape
<1>3. Good(sched') /\ Committed(sched') = Committed(sched)
  <2>1. Counted(sched) \in Nat  BY BoundsAssumption, Facts DEF Counted, Good, SchedulerType
  <2>2. Committed([sched EXCEPT !.failures = Counted(sched)]) = Committed(sched)
    BY Facts DEF Committed, Good, SchedulerType
  <2> QED  BY <2>1, <2>2, Facts, FailSharedKeeps, ResetFailures DEF FailJob
<1>4. step' \in StepType /\ step'.at = "free" /\ step'.admitting \in {None, step.admitting}
  BY Facts DEF FailJob, Taking, StepType, ObjectOrNone
<1> QED  BY <1>1, <1>2, <1>3, <1>4, Facts, WorkerKeeps

LEMMA LeavingKeeps ==
  ASSUME IInv, DrainEnd \/ AdmitEnd \/ StepRaises
  PROVE  IInv'
<1>1. ClientShape(client)'  BY Facts DEF DrainEnd, AdmitEnd, StepRaises, ClientShape
<1>2. /\ step' \in StepType /\ step'.at \in {"reconcile", "decode", "free"}
      /\ step'.admitting \in {None, step.admitting}
  <2>1. CASE DrainEnd  BY <2>1, Facts DEF DrainEnd, StepType
  <2>2. CASE AdmitEnd  BY <2>2, Facts DEF AdmitEnd, StepType, ObjectOrNone
  <2>3. CASE StepRaises  BY <2>3, Facts DEF StepRaises, StepType
  <2> QED  BY <2>1, <2>2, <2>3
<1>3. UNCHANGED <<sched, jobs>>  BY DEF DrainEnd, AdmitEnd, StepRaises
<1> QED  BY <1>1, <1>2, <1>3, Facts, WorkerKeeps

LEMMA CorruptKeeps ==
  ASSUME IInv, Corrupt
  PROVE  IInv'
<1>1. Good(sched') /\ Committed(sched') = Committed(sched)
  BY Facts, RescheduleKeeps DEF Corrupt
<1>2. ClientShape(client)'  BY Facts DEF Corrupt, ClientShape
<1>3. step' \in StepType /\ step'.at = "admit" /\ step'.admitting = step.admitting
  BY Facts DEF Corrupt, StepType
<1> QED  BY <1>1, <1>2, <1>3, Facts, WorkerKeeps DEF Corrupt

LEMMA DecodeKeeps ==
  ASSUME IInv, Decode
  PROVE  IInv'
<1> DEFINE Done(ends) == {o \in Rows : ends[o] # "no"}
           After(ends, stored) ==
             [CleanedUp(Processed(sched, ends, Done(ends)), Done(ends), stored) EXCEPT !.failures = 0]
<1>0. PICK ends \in [Rows -> {"no", "stop", "length", "repetition"}] :
         \E stored \in SUBSET Done(ends) : \E outs : EndStep(After(ends, stored), outs)
  BY DEF Decode
<1>1. PICK stored \in SUBSET Done(ends) : \E outs : EndStep(After(ends, stored), outs)
  BY <1>0
<1> DEFINE done == Done(ends)
           made == [o \in Objects |-> sched.made[o] + IF o \in Rows THEN 1 ELSE 0]
           progress == [o \in Objects |-> IF o \in Rows \ done THEN sched.row[o] + 1 ELSE
                                           IF o \in done THEN 0 ELSE sched.row[o]]
           statuses == [o \in Objects |-> IF o \in done THEN EndStatus[ends[o]] ELSE sched.status[o]]
           processed == [r \in Ids |-> sched.processed[r] + IF sched.running[r] \in done THEN 1 ELSE 0]
           leases == [r \in Ids |-> IF sched.running[r] \in stored THEN "stored"
                                     ELSE IF sched.running[r] \in done THEN "none" ELSE sched.lease[r]]
           batch == [r \in Ids |-> IF sched.running[r] \in done THEN None ELSE sched.running[r]]
           p == Processed(sched, ends, done)
           t == CleanedUp(p, done, stored)
<1>2. made \in [Objects -> Int] /\ progress \in [Objects -> Int]
  BY Facts DEF Good, SchedulerType
<1>3. processed \in [Ids -> Nat]  BY Facts DEF Good, SchedulerType
<1>4. statuses \in [Objects -> Statuses]
  <2>1. \A o \in done : EndStatus[ends[o]] \in Statuses
    BY DEF EndStatus, Statuses
  <2> QED  BY <2>1, Facts DEF Good, SchedulerType
<1>5. leases \in [Ids -> Leases]  BY Facts DEF Good, SchedulerType, Leases
<1>6. /\ batch \in [Ids -> ObjectOrNone]
      /\ \A r \in Ids : batch[r] \in {sched.running[r], None}
  BY Facts DEF Good, SchedulerType, ObjectOrNone
<1>7. p = [sched EXCEPT !.made = made, !.row = progress, !.prefilling = {},
                        !.status = statuses, !.processed = processed]
  BY DEF Processed
<1>8. t = [p EXCEPT !.lease = leases, !.running = batch]
  <2>1. p.running = sched.running /\ p.lease = sched.lease
    BY <1>7, Facts DEF Good, SchedulerType
  <2> HIDE DEF p
  <2> QED  BY <2>1 DEF CleanedUp
<1> HIDE DEF p, t, made, progress, statuses, processed, leases, batch
<1>9. t \in SchedulerType
  <2>1. p \in SchedulerType
    BY <1>2, <1>3, <1>4, <1>7, Facts DEF Good, SchedulerType
  <2> QED  BY <1>5, <1>6, <1>8, <2>1 DEF SchedulerType
<1>10. /\ SameLedger(sched, t) /\ t.waiting = sched.waiting
       /\ t.pending = sched.pending /\ t.requests = sched.requests /\ t.running = batch
  BY <1>7, <1>8, Facts DEF Good, SchedulerType, SameLedger
<1>11. t.waiting \in Seq(Committed(sched))  BY <1>10, Facts DEF Good, Knows
<1>12. Good(t)  BY <1>6, <1>9, <1>10, <1>11, Facts, ShrinkKeeps
<1>13. Good([t EXCEPT !.failures = 0])  BY <1>12, ResetFailures
<1>14. \E outs : EndStep([t EXCEPT !.failures = 0], outs)  BY <1>1 DEF t, p
<1> QED  BY <1>13, <1>14, EndStepKeeps

-----------------------------------------------------------------------------
LEMMA NextPreserves ==
  ASSUME IInv, [Next]_vars
  PROVE  IInv'
<1>1. CASE UNCHANGED vars
  <2>1. ClientShape(client)'  BY <1>1, Facts DEF vars, ClientShape
  <2> QED  BY <1>1, <2>1, Facts, OutsideKeeps DEF vars
<1>2. CASE Pause \/ Loop  BY <1>2, EngineLoopKeeps
<1>3. ASSUME NEW r \in Ids, Client(r)  PROVE IInv'
  BY <1>3, ReadKeeps, ReturnKeeps, AbortsKeep, CleanupKeeps DEF Client
<1>4. ASSUME NEW r \in Ids, Outside(r)  PROVE IInv'
  BY <1>4, SubmitKeeps, WithdrawKeeps, DisconnectKeeps, AbortsKeep DEF Outside
<1>5. CASE Worker
  <2>1. CASE AddRefused \/ AddStart \/ AddCommit \/ AddRaises
    BY <2>1, AddRefusedKeeps, AddStartKeeps, AddCommitKeeps, AddRaisesKeeps
  <2>2. CASE StepStart \/ Reconcile \/ Insert \/ Decode
    BY <2>2, StepStartKeeps, ReconcileKeeps, InsertKeeps, DecodeKeeps
  <2>3. CASE DrainEnd \/ AdmitEnd \/ StepRaises \/ DecodeNothing \/ FailOwn \/ FailStep
    BY <2>3, LeavingKeeps, FailuresKeep
  <2>4. CASE Corrupt \/ FailJob
    BY <2>4, CorruptKeeps, FailJobKeeps
  <2>5. ASSUME NEW r \in Ids, Drain(r)  PROVE IInv'
    BY <2>5, DrainKeeps
  <2>6. ASSUME NEW i \in DOMAIN sched.waiting, Admit(i) \/ Defer(i)  PROVE IInv'
    BY <2>6, AdmitKeeps, DeferKeeps
  <2> QED  BY <1>5, <2>1, <2>2, <2>3, <2>4, <2>5, <2>6 DEF Worker
<1> QED  BY <1>1, <1>2, <1>3, <1>4, <1>5 DEF Next

(* A cancellation is counted at most once for each lifetime of an id that  *)
(* was admitted, and attributed to a disconnect only where it was counted: *)
(* Scheduler.abort_request and record_disconnect_abort, whatever order     *)
(* their callers, the admission and the steps come in.                     *)
THEOREM CancellationsCountedOnce == Spec => []CountedOnce
<1>1. Init => IInv  BY InitHolds
<1>2. IInv /\ [Next]_vars => IInv'  BY NextPreserves
<1>3. IInv => CountedOnce  BY DEF IInv, Good, Ledger, CountedOnce
<1> QED  BY <1>1, <1>2, <1>3, PTL DEF Spec

-----------------------------------------------------------------------------
(* Requests with an id of their own: the object of an id.                  *)
OwnIds == MaxLife = 1

Obj(r) == <<r, 1>>

Queued(s, r) == Obj(r) \in ToSet(s.waiting)

InHand(r) == step.admitting = Obj(r)

Occupies(r) == Queued(sched, r) \/ sched.running[r] # None \/ InHand(r)

NoDup(q) == \A i, j \in DOMAIN q : q[i] = q[j] => i = j

Adds == \A i \in DOMAIN jobs : jobs[i].do = "add"

Lone == \A i, j \in DOMAIN jobs : jobs[i].do # "add" /\ jobs[j].do # "add" => i = j

Between == step.at \in {"free", "add"}

Submitted(r) == \E i \in DOMAIN jobs : jobs[i].do = "add" /\ jobs[i].obj = Obj(r)

Adding(r) == step.adding = Obj(r)

(* The engine loop and the worker take turns.                              *)
Turns ==
  /\ loop # "awaiting" => Adds /\ Between
  /\ ~Between => Adds
  /\ Lone
  /\ step.at # "add" <=> step.adding = None
  /\ step.at \in {"drain", "reconcile", "decode"} => step.admitting = None
  /\ loop \notin {"delivering", "failed"} => produced = Nothing
  /\ loop \in {"idle", "awaiting", "delivering", "raised", "failed", "unrecovered"}
  /\ produced = [r \in Ids |-> produced[r]]

(* A request has one life, from its client's submission to its removal.    *)
Life(r) ==
  LET c == client[r] IN
  /\ c.at \in {"idle", "adding", "cancelled", "reading", "closing", "leaving", "gone"}
  /\ c.life = IF c.at = "idle" THEN 0 ELSE 1
  /\ Submitted(r) => c.at = "adding" /\ ~Adding(r)
  /\ Adding(r) => c.at \in {"adding", "cancelled"}
  /\ c.at \in {"idle", "adding", "cancelled"} => sched.commits[r] = 0
  /\ sched.commits[r] <= 1
  /\ c.at = "cancelled" => Adding(r)
  /\ c.at = "reading" => sched.commits[r] = 1
  /\ c.at \in {"adding", "reading"} => c.fate = "none"
  /\ sched.commits[r] = 0 => sched.status[Obj(r)] = "waiting"
  /\ sched.requests[r] \in {None, Obj(r)}
  /\ sched.commits[r] = 1 /\ c.at # "gone" => sched.requests[r] = Obj(r)
  /\ c.at = "gone" => sched.requests[r] = None

SubmittedOnce ==
  \A i, j \in DOMAIN jobs : jobs[i].do = "add" /\ jobs[i] = jobs[j] => i = j

(* It is in one place at a time, and its status says in which.             *)
Place(r) ==
  /\ sched.running[r] \in {None, Obj(r)}
  /\ Queued(sched, r) => sched.running[r] = None /\ ~InHand(r)
  /\ InHand(r) => sched.running[r] = None
  /\ Queued(sched, r) \/ InHand(r) => sched.status[Obj(r)] = "waiting"
  /\ sched.running[r] # None => sched.status[Obj(r)] = "running"
  /\ sched.running[r] # None => sched.requests[r] = Obj(r) \/ client[r].at = "gone"
  /\ Occupies(r) => sched.commits[r] = 1

Orderly == /\ Turns /\ SubmittedOnce /\ NoDup(sched.waiting)
           /\ \A r \in Ids : Life(r) /\ Place(r)

Recovers == ~({"raise", "recovery"} \subseteq Faults)

(* Nothing of a request that ended, or whose client left, is in the        *)
(* scheduler unless its abort is queued.                                   *)
Settled(r) == \/ produced[r] # None /\ Finished(produced[r])
              \/ stream[r].event \/ client[r].at = "leaving"

Owned(r) ==
  /\ stream[r].out # None /\ Finished(stream[r].out) => stream[r].event
  /\ sched.commits[r] = 0 => ~stream[r].event /\ produced[r] = None
  /\ Occupies(r) => sched.requests[r] = Obj(r) \/ r \in sched.pending
  /\ Occupies(r) /\ Settled(r) => r \in sched.pending

FailuresFinish == loop = "failed" => \A r \in Ids : produced[r] # None => Finished(produced[r])

NoGhosts ==
  /\ Between => step.ghosts = {}
  /\ \A r \in Ids : Obj(r) \in step.ghosts /\ Occupies(r) =>
        step.at = "drain" /\ r \in sched.pending

FailQueued == \E i \in DOMAIN jobs : jobs[i].do = "fail"

NoLost == /\ loop # "unrecovered"
          /\ loop = "raised" \/ FailQueued => "raise" \in Faults

StreamRecord(s) ==
  \E out, buf, sent : \E event \in BOOLEAN :
     s = [out |-> out, buf |-> buf, sent |-> sent, event |-> event]

StreamShape(s) == s = [r \in Ids |-> s[r]] /\ \A r \in Ids : StreamRecord(s[r])

Owning == /\ StreamShape(stream) /\ NoLost /\ FailuresFinish /\ NoGhosts
          /\ \A r \in Ids : Owned(r)

(* A step was left with an exception and fail_step has not run.            *)
RaisedNow == loop = "raised" \/ FailQueued

Carried(r) ==
  \/ Adding(r) \/ Queued(sched, r) \/ sched.running[r] # None \/ r \in sched.pending
  \/ InHand(r) /\ (step.at = "insert" \/ RaisedNow)

NeverPaused == "pause" \notin Faults

Leased == ~paused /\ \A r \in Ids : sched.lease[r] = "held" => Carried(r)

-----------------------------------------------------------------------------
(* Sequences without duplicates.                                           *)
LEMMA ObjFacts ==
  ASSUME OwnIds
  PROVE  /\ \A r \in Ids : Obj(r) \in Objects /\ Obj(r)[1] = r /\ Obj(r) # None
         /\ \A o \in Objects : o[1] \in Ids /\ o = Obj(o[1])
         /\ None \notin Objects
         /\ \A r, x \in Ids : Obj(r) = Obj(x) => r = x
<1>1. Objects = Ids \X {1}  BY DEF OwnIds, Objects
<1>2. \A r \in Ids : Obj(r) \in Objects /\ Obj(r)[1] = r  BY <1>1 DEF Obj
<1>3. \A o \in Objects : o[1] \in Ids /\ o = Obj(o[1])  BY <1>1 DEF Obj
<1>4. None \notin Objects  BY NoneAssumption
<1>5. \A r, x \in Ids : Obj(r) = Obj(x) => r = x  BY <1>2
<1> QED  BY <1>2, <1>3, <1>4, <1>5

LEMMA InToSet == \A q, x : x \in ToSet(q) <=> \E i \in DOMAIN q : q[i] = x
BY DEF ToSet

LEMMA RemoveAtElements ==
  ASSUME NEW S, NEW q \in Seq(S), NEW i \in 1..Len(q)
  PROVE  /\ RemoveAt(q, i) \in Seq(S) /\ Len(RemoveAt(q, i)) = Len(q) - 1
         /\ DOMAIN RemoveAt(q, i) = 1..(Len(q) - 1)
         /\ \A k \in 1..(Len(q) - 1) : RemoveAt(q, i)[k] = IF k < i THEN q[k] ELSE q[k + 1]
<1> DEFINE u == SubSeq(q, 1, i - 1)
           v == SubSeq(q, i + 1, Len(q))
<1>1. u \in Seq(S) /\ v \in Seq(S) /\ Len(u) = i - 1 /\ Len(v) = Len(q) - i
  OBVIOUS
<1>2. \A k \in 1..(i - 1) : u[k] = q[k]  OBVIOUS
<1>3. \A k \in 1..(Len(q) - i) : v[k] = q[i + k]
  OBVIOUS
<1>4. RemoveAt(q, i) = u \o v  BY DEF RemoveAt
<1> HIDE DEF u, v
<1>5. /\ u \o v \in Seq(S) /\ Len(u \o v) = Len(u) + Len(v)
      /\ \A k \in 1..(Len(u) + Len(v)) : (u \o v)[k] = IF k <= Len(u) THEN u[k] ELSE v[k - Len(u)]
  BY <1>1
<1>6. \A k \in 1..(Len(q) - 1) : (u \o v)[k] = IF k < i THEN q[k] ELSE q[k + 1]
  <2> SUFFICES ASSUME NEW k \in 1..(Len(q) - 1)
               PROVE  (u \o v)[k] = IF k < i THEN q[k] ELSE q[k + 1]
    OBVIOUS
  <2>1. (u \o v)[k] = IF k <= Len(u) THEN u[k] ELSE v[k - Len(u)]  BY <1>1, <1>5
  <2>2. CASE k < i  BY <1>1, <1>2, <2>1, <2>2
  <2>3. CASE k >= i
    <3>1. k - (i - 1) \in 1..(Len(q) - i) /\ i + (k - (i - 1)) = k + 1  BY <2>3
    <3>2. v[k - (i - 1)] = q[k + 1]  BY <1>3, <3>1
    <3> QED  BY <1>1, <2>1, <2>3, <3>2
  <2>4. k \in Int /\ i \in Int  OBVIOUS
  <2>5. k < i \/ k >= i  BY <2>4
  <2> QED  BY <2>2, <2>3, <2>5, Zenon
<1>7. Len(u \o v) = Len(q) - 1  BY <1>1, <1>5
<1>8. DOMAIN (u \o v) = 1..(Len(q) - 1)  BY <1>5, <1>7
<1> QED  BY <1>4, <1>5, <1>6, <1>7, <1>8

LEMMA RemoveAtNoDup ==
  ASSUME NEW S, NEW q \in Seq(S), NEW i \in 1..Len(q), NoDup(q)
  PROVE  NoDup(RemoveAt(q, i)) /\ ToSet(RemoveAt(q, i)) = ToSet(q) \ {q[i]}
<1> DEFINE t == RemoveAt(q, i)
<1>0. /\ DOMAIN t = 1..(Len(q) - 1)
      /\ \A k \in 1..(Len(q) - 1) : t[k] = IF k < i THEN q[k] ELSE q[k + 1]
  BY RemoveAtElements, Zenon
<1>1. /\ DOMAIN t = 1..(Len(q) - 1)
      /\ \A k \in 1..(Len(q) - 1) : t[k] = IF k < i THEN q[k] ELSE q[k + 1]
      /\ DOMAIN q = 1..Len(q) /\ Len(q) \in Nat
  BY <1>0
<1> HIDE DEF t
<1>2. NoDup(t)
  <2> SUFFICES ASSUME NEW j \in 1..(Len(q) - 1), NEW k \in 1..(Len(q) - 1), t[j] = t[k]
               PROVE  j = k
    BY <1>1 DEF NoDup
  <2> DEFINE at(m) == IF m < i THEN m ELSE m + 1
  <2>1. at(j) \in 1..Len(q) /\ at(k) \in 1..Len(q)  BY <1>1
  <2>2. q[at(j)] = q[at(k)]  BY <1>1
  <2>3. at(j) = at(k)  BY <1>1, <2>1, <2>2 DEF NoDup
  <2> QED  BY <2>3
<1>3. ASSUME NEW x \in ToSet(t)  PROVE x \in ToSet(q) /\ x # q[i]
  <2>1. PICK k \in 1..(Len(q) - 1) : t[k] = x  BY <1>1, <1>3, InToSet
  <2> DEFINE m == IF k < i THEN k ELSE k + 1
  <2>2. m \in 1..Len(q) /\ m # i /\ q[m] = x  BY <1>1, <2>1
  <2> QED  BY <1>1, <2>2, InToSet DEF NoDup
<1>4. ASSUME NEW x \in ToSet(q), x # q[i]  PROVE x \in ToSet(t)
  <2>1. PICK m \in 1..Len(q) : q[m] = x  BY <1>1, <1>4, InToSet
  <2> DEFINE k == IF m < i THEN m ELSE m - 1
  <2>2. m # i  BY <1>4, <2>1
  <2>3. k \in 1..(Len(q) - 1) /\ t[k] = x  BY <1>1, <2>1, <2>2
  <2> QED  BY <1>1, <2>3, InToSet
<1> QED  BY <1>2, <1>3, <1>4 DEF t

LEMMA DropFirstNoDup ==
  ASSUME OwnIds, NEW q \in Seq(Objects), NoDup(q), NEW r \in Ids
  PROVE  NoDup(DropFirst(q, r)) /\ ToSet(DropFirst(q, r)) = ToSet(q) \ {Obj(r)}
<1> DEFINE I == {i \in 1..Len(q) : q[i][1] = r}
<1>1. \A i \in 1..Len(q) : q[i] \in Objects /\ (i \in I <=> q[i] = Obj(r))
  BY ObjFacts
<1>2. CASE I = {}
  <2>1. DropFirst(q, r) = q  BY <1>2 DEF DropFirst, RemoveFirstMatch
  <2>2. Obj(r) \notin ToSet(q)  BY <1>1, <1>2, InToSet
  <2> QED  BY <2>1, <2>2
<1>3. CASE I # {}
  <2>1. I \in SUBSET Nat /\ I \subseteq 1..Len(q)  OBVIOUS
  <2>2. Min(I) \in I
    <3> HIDE DEF I
    <3> QED  BY <1>3, <2>1, LeastIndex DEF Min
  <2>3. DropFirst(q, r) = RemoveAt(q, Min(I))
    BY <1>3 DEF DropFirst, RemoveFirstMatch, SelectInSeq
  <2> HIDE DEF I
  <2>4. q[Min(I)] = Obj(r) /\ Min(I) \in 1..Len(q)  BY <1>1, <2>1, <2>2
  <2> QED  BY <2>3, <2>4, RemoveAtNoDup
<1> QED  BY <1>2, <1>3

LEMMA DropFirstsNoDup ==
  ASSUME OwnIds, NEW q \in Seq(Objects), NoDup(q), NEW R
  PROVE  /\ NoDup(DropFirsts(q, R))
         /\ \A o : o \in ToSet(DropFirsts(q, R)) <=> o \in ToSet(q) /\ o[1] \notin R
<1> DEFINE K == {i \in DOMAIN q : q[i][1] \in R => \E j \in 1..i-1 : q[j][1] = q[i][1]}
           Below(i) == {j \in K : j <= i}
           At(k) == CHOOSE i \in K : Cardinality(Below(i)) = k
           t == DropFirsts(q, R)
<1>1. K \in SUBSET (1..Len(q)) /\ Len(q) \in Nat /\ DOMAIN q = 1..Len(q)  OBVIOUS
<1>2. t = [k \in 1..Cardinality(K) |-> q[At(k)]]
  BY DEF DropFirsts
<1>3. \A i \in 1..Len(q) : i \in K <=> q[i][1] \notin R
  <2> SUFFICES ASSUME NEW i \in 1..Len(q), NEW j \in 1..i-1  PROVE q[j][1] # q[i][1]
    BY <1>1
  <2>1. q[j] \in Objects /\ q[i] \in Objects /\ j \in 1..Len(q)  OBVIOUS
  <2>2. q[j] # q[i]  BY <1>1, <2>1 DEF NoDup
  <2> QED  BY <2>1, <2>2, ObjFacts
<1> HIDE DEF K
<1>4. /\ IsFiniteSet(K) /\ Cardinality(K) \in Nat
      /\ \A i \in Int : IsFiniteSet(Below(i)) /\ Cardinality(Below(i)) \in Nat
  <2>1. IsFiniteSet(1..Len(q))  BY <1>1, FS_Interval
  <2>2. IsFiniteSet(K)  BY <1>1, <2>1, FS_Subset
  <2>3. \A i \in Int : IsFiniteSet(Below(i))  BY <2>2, FS_Subset
  <2> QED  BY <2>2, <2>3, FS_CardinalityType
<1>5. \A k \in 1..Cardinality(K) : At(k) \in K /\ Cardinality(Below(At(k))) = k
  <2> SUFFICES ASSUME NEW k \in 1..Cardinality(K)
               PROVE  At(k) \in K /\ Cardinality(Below(At(k))) = k
    OBVIOUS
  <2>1. \E i \in K : Cardinality(Below(i)) = k  BY <1>1, KthExists
  <2> HIDE DEF Below
  <2> QED  BY <2>1
<1>6. \A i \in K : Cardinality(Below(i)) \in 1..Cardinality(K)
  <2> SUFFICES ASSUME NEW i \in K  PROVE Cardinality(Below(i)) \in 1..Cardinality(K)
    OBVIOUS
  <2>0. i \in Int  BY <1>1
  <2>1. Below(i) \subseteq K /\ i \in Below(i)  BY <2>0
  <2>2. Cardinality(Below(i)) <= Cardinality(K)  BY <1>4, <2>1, FS_Subset
  <2>3. Cardinality(Below(i)) # 0  BY <1>4, <2>0, <2>1, FS_EmptySet
  <2> HIDE DEF Below
  <2> QED  BY <1>4, <2>0, <2>2, <2>3
<1>7. \A i, j \in K : Cardinality(Below(i)) = Cardinality(Below(j)) => i = j
  <2>1. ASSUME NEW i \in K, NEW j \in K, i < j
        PROVE  Cardinality(Below(i)) # Cardinality(Below(j))
    <3>0. i \in Int /\ j \in Int  BY <1>1
    <3>4. \A x \in K : x \in Int  BY <1>1
    <3>5. \A x \in Below(i) : x \in Below(j)  BY <2>1, <3>0, <3>4
    <3>6. j \in Below(j) /\ j \notin Below(i)  BY <2>1, <3>0
    <3>1. Below(i) \subseteq Below(j) /\ j \in Below(j) /\ j \notin Below(i)
      BY <3>5, <3>6
    <3> HIDE DEF Below
    <3>2. Below(i) # Below(j)  BY <3>1
    <3> QED  BY <1>4, <3>0, <3>1, <3>2, FS_Subset
  <2>2. \A i, j \in K : i \in Int /\ j \in Int  BY <1>1
  <2> HIDE DEF Below
  <2> QED  BY <2>1, <2>2
<1>8. DOMAIN t = 1..Cardinality(K) /\ \A k \in 1..Cardinality(K) : t[k] = q[At(k)]
  BY <1>2
<1> HIDE DEF At, t
<1>9. NoDup(t)
  <2> SUFFICES ASSUME NEW j \in 1..Cardinality(K), NEW k \in 1..Cardinality(K), t[j] = t[k]
               PROVE  j = k
    BY <1>8 DEF NoDup
  <2>1. At(j) \in 1..Len(q) /\ At(k) \in 1..Len(q)  BY <1>1, <1>5
  <2>2. At(j) = At(k)  BY <1>1, <1>8, <2>1 DEF NoDup
  <2> HIDE DEF Below
  <2> QED  BY <1>5, <2>2
<1>10. ASSUME NEW o, o \in ToSet(t)  PROVE o \in ToSet(q) /\ o[1] \notin R
  <2>1. PICK k \in 1..Cardinality(K) : t[k] = o  BY <1>8, <1>10, InToSet
  <2>2. At(k) \in K /\ q[At(k)] = o  BY <1>5, <1>8, <2>1
  <2> QED  BY <1>1, <1>3, <2>2, InToSet
<1>11. ASSUME NEW o, o \in ToSet(q), o[1] \notin R  PROVE o \in ToSet(t)
  <2>1. PICK i \in 1..Len(q) : q[i] = o  BY <1>1, <1>11, InToSet
  <2>2. i \in K  BY <1>3, <1>11, <2>1
  <2> DEFINE k == Cardinality(Below(i))
  <2>3. k \in 1..Cardinality(K)  BY <1>6, <2>2
  <2>4. At(k) = i  BY <1>5, <1>7, <2>2, <2>3
  <2>5. t[k] = o  BY <1>8, <2>1, <2>3, <2>4
  <2> HIDE DEF k
  <2> QED  BY <1>8, <2>3, <2>5, InToSet
<1> QED  BY <1>9, <1>10, <1>11 DEF t

LEMMA AppendNoDup ==
  ASSUME NEW S, NEW q \in Seq(S), NoDup(q), NEW o \in S, o \notin ToSet(q)
  PROVE  NoDup(Append(q, o)) /\ ToSet(Append(q, o)) = ToSet(q) \cup {o}
<1> DEFINE t == Append(q, o)
<1>1. /\ DOMAIN t = 1..(Len(q) + 1) /\ t[Len(q) + 1] = o /\ DOMAIN q = 1..Len(q)
      /\ \A k \in 1..Len(q) : t[k] = q[k] /\ q[k] # o
  BY InToSet
<1>2. Len(q) \in Nat  OBVIOUS
<1> HIDE DEF t
<1>3. NoDup(t)  BY <1>1, <1>2 DEF NoDup
<1>4. \A x : x \in ToSet(t) <=> x \in ToSet(q) \cup {o}
  BY <1>1, <1>2, InToSet
<1> QED  BY <1>3, <1>4 DEF t

LEMMA ConcatNoDup ==
  ASSUME NEW S, NEW p \in Seq(S), NEW q \in Seq(S), NoDup(p), NoDup(q),
         ToSet(p) \cap ToSet(q) = {}
  PROVE  NoDup(p \o q) /\ ToSet(p \o q) = ToSet(p) \cup ToSet(q)
<1> DEFINE t == p \o q
<1>1. /\ Len(p) \in Nat /\ Len(q) \in Nat /\ DOMAIN t = 1..(Len(p) + Len(q))
      /\ DOMAIN p = 1..Len(p) /\ DOMAIN q = 1..Len(q)
      /\ \A k \in 1..(Len(p) + Len(q)) : t[k] = IF k <= Len(p) THEN p[k] ELSE q[k - Len(p)]
  OBVIOUS
<1> HIDE DEF t
<1>2. \A i \in 1..Len(p), j \in 1..Len(q) : p[i] # q[j]
  BY <1>1, InToSet
<1>3. NoDup(t)
  <2> SUFFICES ASSUME NEW j \in 1..(Len(p) + Len(q)), NEW k \in 1..(Len(p) + Len(q)), t[j] = t[k]
               PROVE  j = k
    BY <1>1 DEF NoDup
  <2>1. CASE j <= Len(p) /\ k <= Len(p)  BY <1>1, <2>1 DEF NoDup
  <2>2. CASE j > Len(p) /\ k > Len(p)
    <3>1. j - Len(p) \in 1..Len(q) /\ k - Len(p) \in 1..Len(q)  BY <1>1, <2>2
    <3>2. j - Len(p) = k - Len(p)  BY <1>1, <2>2, <3>1 DEF NoDup
    <3> QED  BY <1>1, <3>2
  <2>3. CASE j <= Len(p) /\ k > Len(p)
    <3>1. k - Len(p) \in 1..Len(q) /\ j \in 1..Len(p)  BY <1>1, <2>3
    <3> QED  BY <1>1, <1>2, <2>3, <3>1
  <2>4. CASE j > Len(p) /\ k <= Len(p)
    <3>1. j - Len(p) \in 1..Len(q) /\ k \in 1..Len(p)  BY <1>1, <2>4
    <3> QED  BY <1>1, <1>2, <2>4, <3>1
  <2> QED  BY <1>1, <2>1, <2>2, <2>3, <2>4
<1>4. ASSUME NEW x \in ToSet(t)  PROVE x \in ToSet(p) \cup ToSet(q)
  <2>1. PICK k \in 1..(Len(p) + Len(q)) : t[k] = x  BY <1>1, <1>4, InToSet
  <2>2. CASE k <= Len(p)  BY <1>1, <2>1, <2>2, InToSet
  <2>3. CASE k > Len(p)
    <3>1. k - Len(p) \in 1..Len(q) /\ q[k - Len(p)] = x  BY <1>1, <2>1, <2>3
    <3> QED  BY <1>1, <3>1, InToSet
  <2> QED  BY <1>1, <2>2, <2>3
<1>5. ASSUME NEW x \in ToSet(p) \cup ToSet(q)  PROVE x \in ToSet(t)
  <2>1. CASE x \in ToSet(p)
    <3>1. PICK k \in 1..Len(p) : p[k] = x  BY <1>1, <2>1, InToSet
    <3>2. k \in 1..(Len(p) + Len(q)) /\ t[k] = x  BY <1>1, <3>1
    <3> QED  BY <1>1, <3>2, InToSet
  <2>2. CASE x \in ToSet(q)
    <3>1. PICK k \in 1..Len(q) : q[k] = x  BY <1>1, <2>2, InToSet
    <3>2. Len(p) + k \in 1..(Len(p) + Len(q)) /\ (Len(p) + k) - Len(p) = k /\ ~(Len(p) + k <= Len(p))
      BY <1>1, <3>1
    <3>3. t[Len(p) + k] = x  BY <1>1, <3>1, <3>2
    <3> QED  BY <1>1, <3>2, <3>3, InToSet
  <2> QED  BY <1>5, <2>1, <2>2
<1> QED  BY <1>3, <1>4, <1>5 DEF t

-----------------------------------------------------------------------------
(* What the scheduler's operations do, request by request.                 *)
OwnObjects(s) ==
  \A r \in Ids : s.running[r] \in {None, Obj(r)} /\ s.requests[r] \in {None, Obj(r)}

Tidy(s) == s \in SchedulerType /\ OwnObjects(s) /\ NoDup(s.waiting)

(* What only commits, cleanup and decoding change.                         *)
Kept(s, t) ==
  /\ t.requests = s.requests /\ t.commits = s.commits /\ t.made = s.made
  /\ t.row = s.row /\ t.processed = s.processed

SamePlaces(s, t) ==
  /\ t.waiting = s.waiting /\ t.running = s.running /\ t.status = s.status
  /\ t.lease = s.lease /\ t.prefilling = s.prefilling /\ t.orphans = s.orphans

LEMMA EnqueueEffect ==
  ASSUME NEW s \in SchedulerType, NEW R \in SUBSET Ids
  PROVE  LET t == Enqueue(s, R)
         IN  /\ Kept(s, t) /\ SamePlaces(s, t) /\ t.failures = s.failures
             /\ t.pending = s.pending \cup {r \in R : AbortKnown(s, r)}
BY DEF Enqueue, SchedulerType, Kept, SamePlaces

LEMMA AttributeEffect ==
  ASSUME NEW s \in SchedulerType, NEW r \in Ids
  PROVE  LET t == Attribute(s, r)
         IN  /\ Kept(s, t) /\ SamePlaces(s, t) /\ t.failures = s.failures
             /\ t.pending = s.pending
BY DEF Attribute, SchedulerType, Kept, SamePlaces

LEMMA RemoveEffect ==
  ASSUME NEW s \in SchedulerType, NEW r \in Ids
  PROVE  LET t == RemoveRequest(s, r)
         IN  /\ t.requests = [s.requests EXCEPT ![r] = None] /\ t.commits = s.commits
             /\ t.made = s.made /\ t.row = s.row /\ t.processed = s.processed
             /\ t.waiting = s.waiting /\ t.running = s.running /\ t.status = s.status
             /\ t.lease = s.lease /\ t.prefilling = s.prefilling /\ t.pending = s.pending
             /\ t.failures = s.failures
             /\ t.orphans \in {s.orphans, [s.orphans EXCEPT ![r] = s.requests[r]]}
BY DEF RemoveRequest, SchedulerType

LEMMA CommitEffect ==
  ASSUME OwnIds, NEW s, Tidy(s), NEW r \in Ids, ~Queued(s, r)
  PROVE  LET t == Commit(s, Obj(r))
         IN  /\ t.requests = [s.requests EXCEPT ![r] = Obj(r)]
             /\ t.commits = [s.commits EXCEPT ![r] = @ + 1]
             /\ t.made = s.made /\ t.row = s.row /\ t.processed = s.processed
             /\ t.running = s.running /\ t.status = s.status /\ t.lease = s.lease
             /\ t.prefilling = s.prefilling /\ t.pending = s.pending /\ t.failures = s.failures
             /\ t.orphans = [s.orphans EXCEPT ![r] = None]
             /\ NoDup(t.waiting) /\ \A x \in Ids : Queued(t, x) <=> Queued(s, x) \/ x = r
<1> DEFINE t == Commit(s, Obj(r))
<1>1. Obj(r) \in Objects /\ Obj(r)[1] = r  BY ObjFacts
<1>2. t.waiting = Append(s.waiting, Obj(r))  BY <1>1 DEF Commit, SchedulerType, Tidy
<1>3. NoDup(t.waiting) /\ ToSet(t.waiting) = ToSet(s.waiting) \cup {Obj(r)}
  <2>1. s.waiting \in Seq(Objects)  BY DEF Tidy, SchedulerType
  <2> QED  BY <1>1, <1>2, <2>1, AppendNoDup DEF Tidy, Queued
<1>4. \A x \in Ids : Queued(t, x) <=> Queued(s, x) \/ x = r
  BY <1>3, ObjFacts DEF Queued
<1> QED  BY <1>1, <1>3, <1>4 DEF Commit, Tidy, SchedulerType

LEMMA AbortObjectEffect ==
  ASSUME OwnIds, NEW s, Tidy(s), NEW r \in Ids, Queued(s, r) => s.status[Obj(r)] = "waiting"
  PROVE  LET t == AbortObject([s EXCEPT !.pending = @ \ {r}], r, s.requests[r])
         IN  /\ Kept(s, t) /\ t.pending = s.pending \ {r} /\ t.failures = s.failures
             /\ t.running = [s.running EXCEPT ![r] = None]
             /\ t.lease = [s.lease EXCEPT ![r] = "none"] /\ t.prefilling \subseteq s.prefilling
             /\ t.orphans = s.orphans
             /\ NoDup(t.waiting) /\ \A x \in Ids : Queued(t, x) <=> Queued(s, x) /\ x # r
             /\ \A x \in Ids \ {r} : t.status[Obj(x)] = s.status[Obj(x)]
<1> DEFINE o == s.requests[r]
           t == AbortObject([s EXCEPT !.pending = @ \ {r}], r, o)
           queue == IF o = None \/ s.status[o] = "waiting" THEN DropFirst(s.waiting, r) ELSE s.waiting
           statuses == IF o = None THEN s.status ELSE [s.status EXCEPT ![o] = "cancelled"]
<1>0. s \in SchedulerType /\ o \in {None, Obj(r)}  BY DEF Tidy, OwnObjects
<1>1. t = [s EXCEPT !.pending = s.pending \ {r}, !.waiting = queue,
                    !.prefilling = s.prefilling \ {s.running[r]},
                    !.running = [s.running EXCEPT ![r] = None],
                    !.status = statuses, !.lease = [s.lease EXCEPT ![r] = "none"]]
  BY <1>0 DEF AbortObject, SchedulerType
<1>2. NoDup(queue) /\ \A x \in Ids : Obj(x) \in ToSet(queue) <=> Queued(s, x) /\ x # r
  <2>1. s.waiting \in Seq(Objects) /\ NoDup(s.waiting)  BY DEF Tidy, SchedulerType
  <2>2. /\ NoDup(DropFirst(s.waiting, r))
        /\ ToSet(DropFirst(s.waiting, r)) = ToSet(s.waiting) \ {Obj(r)}
    BY <2>1, DropFirstNoDup
  <2> QED  BY <1>0, <2>1, <2>2, ObjFacts DEF Queued
<1>3. \A x \in Ids \ {r} : statuses[Obj(x)] = s.status[Obj(x)]
  BY <1>0, ObjFacts DEF SchedulerType
<1> HIDE DEF t, queue, statuses
<1>4. /\ t.waiting = queue /\ t.status = statuses /\ Kept(s, t)
      /\ t.pending = s.pending \ {r} /\ t.failures = s.failures
      /\ t.running = [s.running EXCEPT ![r] = None]
      /\ t.lease = [s.lease EXCEPT ![r] = "none"] /\ t.prefilling \subseteq s.prefilling
      /\ t.orphans = s.orphans
  BY <1>0, <1>1 DEF SchedulerType, Kept
<1>5. \A x \in Ids : Queued(t, x) <=> Queued(s, x) /\ x # r
  BY <1>2, <1>4 DEF Queued
<1> QED  BY <1>2, <1>3, <1>4, <1>5 DEF t

(* The ids AbortAll takes.                                                 *)
Taken(s, R) == {r \in Ids \cap R : s.requests[r] = Obj(r) /\ s.status[Obj(r)] \in Unfinished}

LEMMA AbortAllEffect ==
  ASSUME OwnIds, NEW s, Tidy(s), NEW R,
         \A r \in Ids : Queued(s, r) => s.status[Obj(r)] = "waiting"
  PROVE  LET t == AbortAll(s, R)
         IN  /\ Tidy(t) /\ Kept(s, t) /\ t.pending = s.pending /\ t.failures = s.failures
             /\ t.prefilling \subseteq s.prefilling /\ t.orphans = s.orphans
             /\ t.waiting \in Seq(Objects) /\ t.status \in [Objects -> Statuses]
             /\ \A x \in Ids :
                  /\ t.running[x] = IF x \in Taken(s, R) THEN None ELSE s.running[x]
                  /\ t.lease[x] = IF x \in Taken(s, R) THEN "none" ELSE s.lease[x]
                  /\ t.status[Obj(x)] = IF x \in Taken(s, R) THEN "aborted" ELSE s.status[Obj(x)]
                  /\ Queued(t, x) <=> Queued(s, x) /\ x \notin Taken(s, R)
<1> DEFINE ids == R \cap UnfinishedIds(s)
           failed == {s.requests[r] : r \in ids}
           queued == {r \in ids : s.status[s.requests[r]] = "waiting"}
           t == AbortAll(s, R)
           queue == DropFirsts(s.waiting, queued)
           batch == [r \in Ids |-> IF r \in ids THEN None ELSE s.running[r]]
           statuses == [o \in Objects |-> IF o \in failed THEN "aborted" ELSE s.status[o]]
           leases == [r \in Ids |-> IF r \in ids THEN "none" ELSE s.lease[r]]
           rows == s.prefilling \ {s.running[r] : r \in ids}
<1>0. /\ s \in SchedulerType /\ OwnObjects(s) /\ NoDup(s.waiting)
      /\ s.waiting \in Seq(Objects) /\ s.status \in [Objects -> Statuses]
  BY DEF Tidy, SchedulerType
<1>1. t = [s EXCEPT !.waiting = queue, !.prefilling = rows, !.running = batch,
                    !.status = statuses, !.lease = leases]
  BY DEF AbortAll
<1>2. ids = Taken(s, R)
  BY <1>0, ObjFacts DEF UnfinishedIds, Taken, OwnObjects
<1>3. \A x \in Ids : x \in queued <=> x \in ids /\ s.status[Obj(x)] = "waiting"
  BY <1>2 DEF Taken
<1>4. \A x \in Ids : Obj(x) \in failed <=> x \in ids
  <2>1. \A r \in ids : r \in Ids /\ s.requests[r] = Obj(r)  BY <1>2 DEF Taken
  <2> HIDE DEF ids
  <2> QED  BY <2>1, ObjFacts
<1>5. queue \in Seq(Objects)  BY <1>0, DropFirstsSeq
<1>6. /\ NoDup(queue)
      /\ \A x \in Ids : Obj(x) \in ToSet(queue) <=> Queued(s, x) /\ x \notin ids
  <2>1. /\ NoDup(queue)
        /\ \A o : o \in ToSet(queue) <=> o \in ToSet(s.waiting) /\ o[1] \notin queued
    BY <1>0, DropFirstsNoDup
  <2> HIDE DEF queue, queued, ids
  <2>2. \A x \in Ids : Obj(x) \in ToSet(queue) <=> Queued(s, x) /\ x \notin queued
    BY <2>1, ObjFacts DEF Queued
  <2> QED  BY <1>3, <2>1, <2>2
<1>7. statuses \in [Objects -> Statuses] /\ leases \in [Ids -> Leases]
  BY <1>0 DEF Statuses, SchedulerType, Leases
<1>8. batch \in [Ids -> ObjectOrNone] /\ rows \in SUBSET Objects /\ rows \subseteq s.prefilling
  BY <1>0 DEF SchedulerType, ObjectOrNone
<1>9. \A x \in Ids : /\ batch[x] = IF x \in ids THEN None ELSE s.running[x]
                     /\ leases[x] = IF x \in ids THEN "none" ELSE s.lease[x]
                     /\ statuses[Obj(x)] = IF x \in ids THEN "aborted" ELSE s.status[Obj(x)]
  BY <1>4, ObjFacts
<1> HIDE DEF ids, failed, queued, t, queue, batch, statuses, leases, rows
<1>10. t \in SchedulerType
  BY <1>0, <1>1, <1>5, <1>7, <1>8 DEF SchedulerType
<1>11. /\ t.waiting = queue /\ t.prefilling = rows /\ t.running = batch
       /\ t.status = statuses /\ t.lease = leases /\ t.requests = s.requests
       /\ Kept(s, t) /\ t.pending = s.pending /\ t.failures = s.failures /\ t.orphans = s.orphans
  BY <1>0, <1>1 DEF SchedulerType, Kept
<1>12. OwnObjects(t)  BY <1>0, <1>9, <1>11 DEF OwnObjects
<1>13. Tidy(t)  BY <1>6, <1>10, <1>11, <1>12 DEF Tidy
<1>14. \A x \in Ids : Queued(t, x) <=> Queued(s, x) /\ x \notin ids
  BY <1>6, <1>11 DEF Queued
<1> QED  BY <1>2, <1>5, <1>7, <1>8, <1>9, <1>11, <1>13, <1>14 DEF t

(* Where the parts of an orderly scheduler are.                            *)
Settled1(s, x) ==
  /\ Queued(s, x) => s.running[x] = None /\ s.status[Obj(x)] = "waiting"
  /\ s.running[x] # None => s.status[Obj(x)] = "running"

LEMMA CloseBatchEffect ==
  ASSUME OwnIds, NEW s, Tidy(s)
  PROVE  LET t == CloseBatch(s)
         IN  /\ Tidy(t) /\ Kept(s, t) /\ t.pending = s.pending /\ t.failures = s.failures
             /\ t.waiting = s.waiting /\ t.orphans = s.orphans /\ t.prefilling = {}
             /\ \A x \in Ids :
                  /\ t.running[x] = None
                  /\ t.lease[x] = IF s.running[x] # None THEN "none" ELSE s.lease[x]
                  /\ t.status[Obj(x)] = IF s.running[x] # None THEN "aborted" ELSE s.status[Obj(x)]
<1> DEFINE t == CloseBatch(s)
           statuses == [o \in Objects |-> IF s.running[o[1]] = o THEN "aborted" ELSE s.status[o]]
           leases == [r \in Ids |-> IF s.running[r] # None THEN "none" ELSE s.lease[r]]
<1>0. s \in SchedulerType /\ OwnObjects(s) /\ NoDup(s.waiting)  BY DEF Tidy
<1>1. t = [s EXCEPT !.status = statuses, !.lease = leases, !.running = Nothing, !.prefilling = {}]
  BY DEF CloseBatch
<1>2. statuses \in [Objects -> Statuses] /\ leases \in [Ids -> Leases]
  BY <1>0 DEF SchedulerType, Statuses, Leases
<1>3. Nothing \in [Ids -> ObjectOrNone] /\ \A x \in Ids : Nothing[x] = None
  BY DEF ObjectOrNone, Nothing
<1>4. \A x \in Ids :
        /\ leases[x] = IF s.running[x] # None THEN "none" ELSE s.lease[x]
        /\ statuses[Obj(x)] = IF s.running[x] # None THEN "aborted" ELSE s.status[Obj(x)]
  BY <1>0, ObjFacts DEF OwnObjects
<1> HIDE DEF t, statuses, leases
<1>5. t \in SchedulerType  BY <1>0, <1>1, <1>2, <1>3 DEF SchedulerType
<1>6. /\ t.waiting = s.waiting /\ t.prefilling = {} /\ t.running = Nothing
      /\ t.status = statuses /\ t.lease = leases /\ t.requests = s.requests
      /\ Kept(s, t) /\ t.pending = s.pending /\ t.failures = s.failures /\ t.orphans = s.orphans
  BY <1>0, <1>1 DEF SchedulerType, Kept
<1>7. Tidy(t)  BY <1>0, <1>3, <1>5, <1>6 DEF Tidy, OwnObjects
<1> QED  BY <1>3, <1>4, <1>6, <1>7 DEF t

LEMMA FailSharedEffect ==
  ASSUME OwnIds, NEW s, Tidy(s), NEW adm, \A x \in Ids : Settled1(s, x)
  PROVE  LET t == FailShared(s, adm)
             F == Failing(s, adm)
         IN  /\ Tidy(t) /\ Kept(s, t) /\ t.pending = s.pending /\ t.failures = Counted(s)
             /\ t.orphans = s.orphans /\ t.prefilling = {}
             /\ \A x \in Ids :
                  /\ t.running[x] = None
                  /\ Queued(t, x) <=> Queued(s, x) /\ ~(x \in F /\ s.requests[x] = Obj(x))
                  /\ x \notin F => /\ s.running[x] = None
                                   /\ t.status[Obj(x)] = s.status[Obj(x)]
                  /\ t.lease[x] = IF \/ s.running[x] # None
                                     \/ /\ x \in F /\ s.requests[x] = Obj(x)
                                        /\ s.status[Obj(x)] \in Unfinished
                                  THEN "none" ELSE s.lease[x]
<1> DEFINE F == Failing(s, adm)
           u == CloseBatch(s)
           v == AbortAll(u, F)
           t == [v EXCEPT !.failures = Counted(s)]
<1>1. FailShared(s, adm) = t  BY DEF FailShared
<1>2. /\ Tidy(u) /\ Kept(s, u) /\ u.pending = s.pending /\ u.failures = s.failures
      /\ u.waiting = s.waiting /\ u.orphans = s.orphans /\ u.prefilling = {}
      /\ \A x \in Ids :
           /\ u.running[x] = None
           /\ u.lease[x] = IF s.running[x] # None THEN "none" ELSE s.lease[x]
           /\ u.status[Obj(x)] = IF s.running[x] # None THEN "aborted" ELSE s.status[Obj(x)]
  BY CloseBatchEffect
<1> HIDE DEF u, F
<1>3. \A x \in Ids : Queued(u, x) <=> Queued(s, x)  BY <1>2 DEF Queued
<1>4. \A x \in Ids : Queued(u, x) => u.status[Obj(x)] = "waiting"
  BY <1>2, <1>3 DEF Settled1
<1>5. /\ Tidy(v) /\ Kept(u, v) /\ v.pending = u.pending /\ v.failures = u.failures
      /\ v.prefilling \subseteq u.prefilling /\ v.orphans = u.orphans
      /\ \A x \in Ids :
           /\ v.running[x] = IF x \in Taken(u, F) THEN None ELSE u.running[x]
           /\ v.lease[x] = IF x \in Taken(u, F) THEN "none" ELSE u.lease[x]
           /\ v.status[Obj(x)] = IF x \in Taken(u, F) THEN "aborted" ELSE u.status[Obj(x)]
           /\ Queued(v, x) <=> Queued(u, x) /\ x \notin Taken(u, F)
  BY <1>2, <1>4, AbortAllEffect
<1> HIDE DEF v
<1>6. \A x \in Ids : x \in Taken(u, F) <=> /\ x \in F /\ s.requests[x] = Obj(x)
                                           /\ s.running[x] = None
                                           /\ s.status[Obj(x)] \in Unfinished
  BY <1>2 DEF Taken, Kept, Unfinished
<1>7. Counted(s) \in Nat  BY BoundsAssumption DEF Counted, Tidy, SchedulerType
<1>8. v \in SchedulerType /\ OwnObjects(v) /\ NoDup(v.waiting)  BY <1>5 DEF Tidy
<1>9. t \in SchedulerType  BY <1>7, <1>8 DEF SchedulerType
<1>10. /\ t.waiting = v.waiting /\ t.running = v.running /\ t.status = v.status
       /\ t.lease = v.lease /\ t.requests = v.requests /\ t.prefilling = v.prefilling
       /\ t.orphans = v.orphans /\ t.pending = v.pending /\ Kept(v, t)
       /\ t.failures = Counted(s)
  BY <1>8 DEF SchedulerType, Kept
<1> HIDE DEF t
<1>11. Tidy(t)  BY <1>8, <1>9, <1>10 DEF Tidy, OwnObjects
<1>12. Kept(s, t)  BY <1>2, <1>5, <1>10 DEF Kept
<1>13. \A x \in Ids : Queued(t, x) <=> Queued(v, x)  BY <1>10 DEF Queued
<1>14. \A x \in Ids : x \notin F => s.running[x] = None
  BY DEF F, Failing, Running
<1>15. \A x \in Ids : Queued(t, x) <=> Queued(s, x) /\ ~(x \in F /\ s.requests[x] = Obj(x))
  BY <1>3, <1>5, <1>6, <1>13 DEF Settled1, Unfinished
<1>16. t.prefilling = {} /\ t.pending = s.pending /\ t.orphans = s.orphans
  BY <1>2, <1>5, <1>10
<1>17. \A x \in Ids :
          /\ t.running[x] = None
          /\ x \notin F => t.status[Obj(x)] = s.status[Obj(x)]
          /\ t.lease[x] = IF \/ s.running[x] # None
                             \/ /\ x \in F /\ s.requests[x] = Obj(x)
                                /\ s.status[Obj(x)] \in Unfinished
                          THEN "none" ELSE s.lease[x]
  BY <1>2, <1>5, <1>6, <1>10, <1>14
<1> QED  BY <1>1, <1>10, <1>11, <1>12, <1>14, <1>15, <1>16, <1>17 DEF F

LEMMA RescheduleEffect ==
  ASSUME OwnIds, NEW s, Good(s), Tidy(s), NEW t \in Rescheduled(s), \A x \in Ids : Settled1(s, x)
  PROVE  /\ Tidy(t) /\ Kept(s, t) /\ t.pending = s.pending /\ t.failures = s.failures
         /\ t.orphans = s.orphans /\ t.prefilling = {}
         /\ \A x \in Ids :
              /\ t.running[x] = None /\ t.lease[x] = "none"
              /\ Queued(t, x) <=> Queued(s, x) \/ s.running[x] # None
              /\ t.status[Obj(x)] = IF s.running[x] # None THEN "waiting" ELSE s.status[Obj(x)]
<1> DEFINE T == {s.running[r] : r \in Running(s)}
<1>1. PICK back \in SetToSeqs(T) : t = Reschedule(s, back)
  BY DEF Rescheduled
<1> DEFINE statuses == [o \in Objects |-> IF s.running[o[1]] = o THEN "waiting" ELSE s.status[o]]
           leases == [r \in Ids |-> "none"]
           queue == back \o s.waiting
<1>0. s \in SchedulerType /\ OwnObjects(s) /\ NoDup(s.waiting) /\ s.waiting \in Seq(Objects)
  BY DEF Tidy, SchedulerType
<1>2. t = [s EXCEPT !.lease = leases, !.status = statuses, !.waiting = queue,
                    !.running = Nothing, !.prefilling = {}]
  BY <1>1 DEF Reschedule
<1>3. Good(t)  BY RescheduleKeeps
<1>4. \A x \in Ids : Obj(x) \in T <=> s.running[x] # None
  BY <1>0, ObjFacts DEF Running, OwnObjects
<1>5. IsFiniteSet(T) /\ Cardinality(T) \in Nat
  <2> DEFINE f == [r \in Running(s) |-> s.running[r]]
  <2>1. IsFiniteSet(Running(s))  BY BoundsAssumption, FS_Subset DEF Running
  <2>2. f \in Surjection(Running(s), T)  BY DEF Surjection
  <2> HIDE DEF f, T
  <2> QED  BY <2>1, <2>2, FS_Surjection, FS_CardinalityType
<1>6. /\ back \in [1..Cardinality(T) -> T]
      /\ \A i, j \in 1..Cardinality(T) : i # j => back[i] # back[j]
  BY DEF SetToSeqs
<1>7. back \in Seq(Objects) /\ NoDup(back)
  <2>1. back \in Seq(Committed(s))  BY BatchInQueueOrder
  <2>2. Committed(s) \subseteq Objects  BY DEF Committed
  <2>3. back \in Seq(Objects)  BY <2>1, <2>2
  <2> HIDE DEF T
  <2>4. DOMAIN back = 1..Cardinality(T)  BY <1>6
  <2> QED  BY <1>6, <2>3, <2>4, Zenon DEF NoDup
<1>8. ToSet(back) = T
  <2> HIDE DEF T
  <2>0. DOMAIN back = 1..Cardinality(T) /\ \A i \in 1..Cardinality(T) : back[i] \in T  BY <1>6
  <2>1. ToSet(back) \subseteq T  BY <2>0, InToSet
  <2>2. back \in Injection(1..Cardinality(T), T)  BY <1>6 DEF Injection, IsInjective
  <2>3. IsFiniteSet(1..Cardinality(T)) /\ Cardinality(1..Cardinality(T)) = Cardinality(T)
    BY <1>5, FS_Interval
  <2>4. back \in Surjection(1..Cardinality(T), T)
    <3>1. back \in [1..Cardinality(T) -> ToSet(back)]  BY <1>6, <2>0, InToSet
    <3>2. back \in Injection(1..Cardinality(T), ToSet(back))
      BY <1>6, <3>1 DEF Injection, IsInjective
    <3>5. back \in Surjection(1..Cardinality(T), ToSet(back))
      BY <2>0, <3>1, InToSet DEF Surjection
    <3>3. Cardinality(ToSet(back)) = Cardinality(T)
      BY <2>3, <3>2, <3>5, FS_Surjection
    <3>4. ToSet(back) = T  BY <1>5, <2>1, <3>3, FS_Subset
    <3> QED  BY <1>6, <2>0, <3>4, InToSet DEF Surjection
  <2>5. \A x \in T : \E i \in 1..Cardinality(T) : back[i] = x  BY <2>4 DEF Surjection
  <2>6. T \subseteq ToSet(back)  BY <2>0, <2>5, InToSet
  <2> QED  BY <2>1, <2>6
<1>9. NoDup(queue) /\ \A x \in Ids : Obj(x) \in ToSet(queue) <=> Queued(s, x) \/ s.running[x] # None
  <2>1. T \cap ToSet(s.waiting) = {}
    <3> SUFFICES ASSUME NEW r \in Ids, s.running[r] # None, s.running[r] \in ToSet(s.waiting)
                 PROVE  FALSE
      BY DEF Running
    <3>1. s.running[r] = Obj(r)  BY <1>0 DEF OwnObjects
    <3> QED  BY <3>1 DEF Settled1, Queued
  <2> HIDE DEF T
  <2>2. ToSet(back) \cap ToSet(s.waiting) = {}  BY <1>8, <2>1
  <2>3. NoDup(queue) /\ ToSet(queue) = ToSet(back) \cup ToSet(s.waiting)
    BY <1>0, <1>7, <2>2, ConcatNoDup
  <2> HIDE DEF queue
  <2> QED  BY <1>4, <1>8, <2>3 DEF Queued
<1>10. \A x \in Ids : /\ Nothing[x] = None /\ leases[x] = "none"
                      /\ statuses[Obj(x)] = IF s.running[x] # None THEN "waiting" ELSE s.status[Obj(x)]
  BY <1>0, ObjFacts DEF Nothing, OwnObjects
<1> HIDE DEF statuses, leases, queue, T
<1>11. /\ t.waiting = queue /\ t.prefilling = {} /\ t.running = Nothing
       /\ t.status = statuses /\ t.lease = leases /\ t.requests = s.requests
       /\ Kept(s, t) /\ t.pending = s.pending /\ t.failures = s.failures /\ t.orphans = s.orphans
  BY <1>0, <1>2 DEF SchedulerType, Kept
<1>12. Tidy(t)  BY <1>0, <1>3, <1>9, <1>10, <1>11 DEF Tidy, OwnObjects, Good
<1>13. \A x \in Ids : Queued(t, x) <=> Queued(s, x) \/ s.running[x] # None
  BY <1>9, <1>11 DEF Queued
<1> QED  BY <1>10, <1>11, <1>12, <1>13

LEMMA ReconcileEffect ==
  ASSUME OwnIds, Tidy(sched), Reconcile
  PROVE  /\ Tidy(sched') /\ Kept(sched, sched') /\ sched'.pending = sched.pending
         /\ sched'.failures = sched.failures /\ sched'.prefilling \subseteq sched.prefilling
         /\ sched'.waiting = sched.waiting /\ sched'.orphans = Nothing
         /\ \A x \in Ids :
              LET reaped == x \in Reaped(sched) IN
              /\ reaped => sched.requests[x] = None /\ sched.running[x] # None
              /\ sched'.running[x] = IF reaped THEN None ELSE sched.running[x]
              /\ sched'.lease[x] = IF reaped THEN "none" ELSE sched.lease[x]
              /\ ~reaped => sched'.status[Obj(x)] = sched.status[Obj(x)]
<1> DEFINE reaped == Reaped(sched)
           objects == {sched.orphans[r] : r \in reaped}
           batch == [r \in Ids |-> IF r \in reaped THEN None ELSE sched.running[r]]
           statuses == [o \in Objects |-> IF o \in objects THEN "cancelled" ELSE sched.status[o]]
           leases == [r \in Ids |-> IF r \in reaped THEN "none" ELSE sched.lease[r]]
           rows == sched.prefilling \ objects
<1>0. sched \in SchedulerType /\ OwnObjects(sched) /\ NoDup(sched.waiting)  BY DEF Tidy
<1>1. sched' = [sched EXCEPT !.orphans = Nothing, !.prefilling = rows, !.running = batch,
                             !.status = statuses, !.lease = leases]
  BY DEF Reconcile
<1>2. \A r \in reaped : /\ r \in Ids /\ sched.orphans[r] = Obj(r)
                        /\ sched.requests[r] = None /\ sched.running[r] # None
  BY <1>0 DEF Reaped, OwnObjects
<1>3. \A x \in Ids : Obj(x) \in objects => x \in reaped
  <2> HIDE DEF reaped
  <2> QED  BY <1>2, ObjFacts
<1> HIDE DEF reaped, objects
<1>4. statuses \in [Objects -> Statuses] /\ leases \in [Ids -> Leases]
  BY <1>0 DEF SchedulerType, Statuses, Leases
<1>5. /\ batch \in [Ids -> ObjectOrNone] /\ rows \in SUBSET Objects
      /\ rows \subseteq sched.prefilling /\ Nothing \in [Ids -> ObjectOrNone]
  BY <1>0 DEF SchedulerType, ObjectOrNone, Nothing
<1>6. \A x \in Ids :
        /\ batch[x] = IF x \in reaped THEN None ELSE sched.running[x]
        /\ leases[x] = IF x \in reaped THEN "none" ELSE sched.lease[x]
        /\ x \notin reaped => statuses[Obj(x)] = sched.status[Obj(x)]
  BY <1>3, ObjFacts
<1> HIDE DEF batch, statuses, leases, rows
<1>7. sched' \in SchedulerType  BY <1>0, <1>1, <1>4, <1>5 DEF SchedulerType
<1>8. /\ sched'.waiting = sched.waiting /\ sched'.orphans = Nothing
      /\ sched'.prefilling = rows /\ sched'.running = batch
      /\ sched'.status = statuses /\ sched'.lease = leases /\ sched'.requests = sched.requests
      /\ Kept(sched, sched') /\ sched'.pending = sched.pending
      /\ sched'.failures = sched.failures
  BY <1>0, <1>1 DEF SchedulerType, Kept
<1>9. OwnObjects(sched')  BY <1>0, <1>6, <1>8 DEF OwnObjects
<1>10. Tidy(sched')  BY <1>0, <1>7, <1>8, <1>9 DEF Tidy
<1> QED  BY <1>2, <1>5, <1>6, <1>8, <1>10 DEF reaped

LEMMA AdmitEffect ==
  ASSUME OwnIds, Tidy(sched), NEW i \in DOMAIN sched.waiting, Admit(i)
  PROVE  \E r \in Ids :
           /\ step' = [step EXCEPT !.at = "insert", !.admitting = Obj(r)]
           /\ Queued(sched, r) /\ Tidy(sched') /\ Kept(sched, sched')
           /\ sched'.pending = sched.pending /\ sched'.failures = sched.failures
           /\ sched'.running = sched.running /\ sched'.status = sched.status
           /\ sched'.lease = sched.lease /\ sched'.prefilling = sched.prefilling
           /\ sched'.orphans = sched.orphans
           /\ \A x \in Ids : Queued(sched', x) <=> Queued(sched, x) /\ x # r
<1> DEFINE o == sched.waiting[i]
           r == o[1]
           q == DropFirst(sched.waiting, r)
<1>0. /\ sched \in SchedulerType /\ OwnObjects(sched) /\ NoDup(sched.waiting)
      /\ sched.waiting \in Seq(Objects)
  BY DEF Tidy, SchedulerType
<1>1. r \in Ids /\ o = Obj(r) /\ Queued(sched, r)
  BY <1>0, ObjFacts, InToSet DEF Queued
<1>2. q \in Seq(Objects)  BY <1>0, DropFirstSeq
<1>3. NoDup(q) /\ ToSet(q) = ToSet(sched.waiting) \ {Obj(r)}
  BY <1>0, <1>1, DropFirstNoDup
<1>4. sched' = [sched EXCEPT !.waiting = q] /\ step' = [step EXCEPT !.at = "insert", !.admitting = o]
  BY DEF Admit
<1> HIDE DEF q, o, r
<1>5. /\ sched' \in SchedulerType /\ sched'.waiting = q /\ Kept(sched, sched')
      /\ sched'.requests = sched.requests
      /\ sched'.pending = sched.pending /\ sched'.failures = sched.failures
      /\ sched'.running = sched.running /\ sched'.status = sched.status
      /\ sched'.lease = sched.lease /\ sched'.prefilling = sched.prefilling
      /\ sched'.orphans = sched.orphans
  BY <1>0, <1>2, <1>4 DEF SchedulerType, Kept
<1>6. Tidy(sched')  BY <1>0, <1>3, <1>5 DEF Tidy, OwnObjects
<1>7. \A x \in Ids : Queued(sched', x) <=> Queued(sched, x) /\ x # r
  BY <1>1, <1>3, <1>5, ObjFacts DEF Queued
<1> QED  BY <1>1, <1>4, <1>5, <1>6, <1>7

LEMMA DeferEffect ==
  ASSUME OwnIds, Tidy(sched), NEW i \in DOMAIN sched.waiting, Defer(i)
  PROVE  /\ step' = [step EXCEPT !.at = "decode", !.admitting = None]
         /\ Tidy(sched') /\ Kept(sched, sched')
         /\ sched'.pending = sched.pending /\ sched'.failures = sched.failures
         /\ sched'.running = sched.running /\ sched'.status = sched.status
         /\ sched'.prefilling = sched.prefilling /\ sched'.orphans = sched.orphans
         /\ \A x \in Ids : /\ Queued(sched', x) <=> Queued(sched, x)
                           /\ sched'.lease[x] \in {sched.lease[x], "none"}
<1> DEFINE o == sched.waiting[i]
           r == o[1]
           back == <<o>> \o RemoveAt(sched.waiting, i)
<1>0. /\ sched \in SchedulerType /\ OwnObjects(sched) /\ NoDup(sched.waiting)
      /\ sched.waiting \in Seq(Objects) /\ i \in 1..Len(sched.waiting)
      /\ o \in Objects /\ o \in ToSet(sched.waiting)
  BY InToSet DEF Tidy, SchedulerType
<1>1. r \in Ids  BY <1>0, ObjFacts
<1>2. PICK q \in {sched.waiting, back}, keep \in BOOLEAN :
         sched' = [sched EXCEPT !.waiting = q, !.lease[r] = IF keep THEN @ ELSE "none"]
  BY DEF Defer
<1>3. q \in Seq(Objects) /\ NoDup(q) /\ ToSet(q) = ToSet(sched.waiting)
  <2>1. RemoveAt(sched.waiting, i) \in Seq(Objects)  BY <1>0, RemoveAtSeq
  <2>2. /\ NoDup(RemoveAt(sched.waiting, i))
        /\ ToSet(RemoveAt(sched.waiting, i)) = ToSet(sched.waiting) \ {o}
    BY <1>0, RemoveAtNoDup
  <2>3. <<o>> \in Seq(Objects) /\ NoDup(<<o>>) /\ ToSet(<<o>>) = {o}
    BY <1>0 DEF NoDup, ToSet
  <2>6. ToSet(<<o>>) \cap ToSet(RemoveAt(sched.waiting, i)) = {}  BY <2>2, <2>3
  <2> DEFINE p == <<o>>
             rest == RemoveAt(sched.waiting, i)
  <2>7. /\ p \in Seq(Objects) /\ rest \in Seq(Objects) /\ NoDup(p) /\ NoDup(rest)
        /\ ToSet(p) \cap ToSet(rest) = {} /\ ToSet(p) = {o}
        /\ ToSet(rest) = ToSet(sched.waiting) \ {o} /\ back = p \o rest
    BY <2>1, <2>2, <2>3, <2>6
  <2> HIDE DEF o, p, rest, back
  <2>8. NoDup(p \o rest) /\ ToSet(p \o rest) = ToSet(p) \cup ToSet(rest)
    BY <2>7, ConcatNoDup
  <2>4. NoDup(back) /\ ToSet(back) = {o} \cup (ToSet(sched.waiting) \ {o})
    BY <2>7, <2>8
  <2>5. back \in Seq(Objects)  BY <2>7
  <2> QED  BY <1>0, <1>2, <2>4, <2>5
<1> DEFINE leases == [sched.lease EXCEPT ![r] = IF keep THEN sched.lease[r] ELSE "none"]
<1>4. sched' = [sched EXCEPT !.waiting = q, !.lease = leases]
  BY <1>0, <1>2 DEF SchedulerType
<1>5. leases \in [Ids -> Leases] /\ \A x \in Ids : leases[x] \in {sched.lease[x], "none"}
  BY <1>0, <1>1 DEF SchedulerType, Leases
<1> HIDE DEF leases, o, r, back
<1>6. /\ sched' \in SchedulerType /\ sched'.waiting = q /\ Kept(sched, sched')
      /\ sched'.requests = sched.requests
      /\ sched'.pending = sched.pending /\ sched'.failures = sched.failures
      /\ sched'.running = sched.running /\ sched'.status = sched.status
      /\ sched'.lease = leases /\ sched'.prefilling = sched.prefilling
      /\ sched'.orphans = sched.orphans
  BY <1>0, <1>3, <1>4, <1>5 DEF SchedulerType, Kept
<1>7. Tidy(sched')  BY <1>0, <1>3, <1>6 DEF Tidy, OwnObjects
<1>8. \A x \in Ids : Queued(sched', x) <=> Queued(sched, x)
  BY <1>3, <1>6 DEF Queued
<1> QED  BY <1>5, <1>6, <1>7, <1>8 DEF Defer

LEMMA InsertEffect ==
  ASSUME OwnIds, Tidy(sched), NEW r \in Ids, InHand(r), Insert
  PROVE  /\ Tidy(sched') /\ sched'.requests = sched.requests /\ sched'.commits = sched.commits
         /\ sched'.made = sched.made /\ sched'.processed = sched.processed
         /\ sched'.pending = sched.pending /\ sched'.failures = sched.failures
         /\ sched'.waiting = sched.waiting /\ sched'.orphans = sched.orphans
         /\ sched'.running = [sched.running EXCEPT ![r] = Obj(r)]
         /\ sched'.status = [sched.status EXCEPT ![Obj(r)] = "running"]
         /\ sched'.row = [sched.row EXCEPT ![Obj(r)] = 0]
         /\ sched'.prefilling \in {sched.prefilling, sched.prefilling \cup {Obj(r)}}
         /\ \A x \in Ids : sched'.lease[x] \in {sched.lease[x], "none"}
<1>0. sched \in SchedulerType /\ OwnObjects(sched) /\ NoDup(sched.waiting)  BY DEF Tidy
<1>1. step.admitting = Obj(r) /\ Obj(r) \in Objects /\ Obj(r)[1] = r  BY ObjFacts DEF InHand
<1>2. PICK long, keep \in BOOLEAN :
         sched' = [sched EXCEPT !.running[r] = Obj(r), !.status[Obj(r)] = "running",
                     !.row[Obj(r)] = 0, !.lease[r] = IF keep THEN @ ELSE "none",
                     !.prefilling = IF long THEN @ \cup {Obj(r)} ELSE @]
  BY <1>1 DEF Insert
<1> DEFINE batch == [sched.running EXCEPT ![r] = Obj(r)]
           statuses == [sched.status EXCEPT ![Obj(r)] = "running"]
           progress == [sched.row EXCEPT ![Obj(r)] = 0]
           leases == [sched.lease EXCEPT ![r] = IF keep THEN sched.lease[r] ELSE "none"]
           rows == IF long THEN sched.prefilling \cup {Obj(r)} ELSE sched.prefilling
<1>3. sched' = [sched EXCEPT !.running = batch, !.status = statuses, !.row = progress,
                             !.lease = leases, !.prefilling = rows]
  BY <1>0, <1>2 DEF SchedulerType
<1>4. statuses \in [Objects -> Statuses]  BY <1>0 DEF SchedulerType, Statuses, Unfinished
<1>5. leases \in [Ids -> Leases] /\ \A x \in Ids : leases[x] \in {sched.lease[x], "none"}
  BY <1>0, <1>1 DEF SchedulerType, Leases
<1>6. /\ batch \in [Ids -> ObjectOrNone] /\ rows \in SUBSET Objects
      /\ progress \in [Objects -> Int]
      /\ \A x \in Ids : batch[x] = IF x = r THEN Obj(r) ELSE sched.running[x]
      /\ rows \in {sched.prefilling, sched.prefilling \cup {Obj(r)}}
  BY <1>0, <1>1 DEF SchedulerType, ObjectOrNone
<1> HIDE DEF leases, rows
<1>7. sched' \in SchedulerType
  <2> HIDE DEF batch, statuses, progress
  <2> QED  BY <1>0, <1>3, <1>4, <1>5, <1>6 DEF SchedulerType
<1>8. /\ sched'.requests = sched.requests /\ sched'.commits = sched.commits
      /\ sched'.made = sched.made /\ sched'.processed = sched.processed
      /\ sched'.pending = sched.pending /\ sched'.failures = sched.failures
      /\ sched'.waiting = sched.waiting /\ sched'.orphans = sched.orphans
      /\ sched'.running = batch /\ sched'.status = statuses /\ sched'.row = progress
      /\ sched'.lease = leases /\ sched'.prefilling = rows
  BY <1>0, <1>3 DEF SchedulerType
<1>9. OwnObjects(sched')
  <2> HIDE DEF batch
  <2> QED  BY <1>0, <1>6, <1>8 DEF OwnObjects
<1>10. Tidy(sched')  BY <1>0, <1>7, <1>8, <1>9 DEF Tidy
<1> QED  BY <1>5, <1>6, <1>8, <1>10

(* A row that is past its prompt.                                          *)
Decoding(x) == sched.running[x] # None /\ Obj(x) \notin sched.prefilling

LEMMA RowsAreDecoding ==
  ASSUME OwnIds, Tidy(sched)
  PROVE  /\ Rows \subseteq Objects
         /\ \A x \in Ids : Obj(x) \in Rows <=> Decoding(x)
         /\ \A x \in Ids : sched.running[x] \in Rows <=> Decoding(x)
<1>1. OwnObjects(sched) /\ sched.running \in [Ids -> ObjectOrNone]
  BY DEF Tidy, SchedulerType
<1>2. \A x \in Ids : sched.running[x] # None => sched.running[x] = Obj(x)
  BY <1>1 DEF OwnObjects
<1>3. \A r \in Running(sched) : r \in Ids /\ sched.running[r] = Obj(r)
  BY <1>2 DEF Running
<1>4. \A o \in Rows : \E r \in Ids : o = Obj(r) /\ Decoding(r)
  BY <1>3 DEF Rows, Running, Decoding
<1>5. \A x \in Ids : Decoding(x) => Obj(x) \in Rows
  BY <1>2, <1>3 DEF Rows, Decoding, Running
<1> HIDE DEF Rows
<1>6. Rows \subseteq Objects  BY <1>4, ObjFacts
<1>7. \A x \in Ids : Obj(x) \in Rows <=> Decoding(x)  BY <1>4, <1>5, ObjFacts
<1>8. None \notin Rows  BY <1>6, ObjFacts
<1>9. \A x \in Ids : sched.running[x] \in Rows <=> Decoding(x)
  BY <1>2, <1>7, <1>8 DEF Decoding
<1> QED  BY <1>6, <1>7, <1>9

LEMMA DecodeEffect ==
  ASSUME OwnIds, Tidy(sched), Decode
  PROVE  \E ends \in [Rows -> {"no", "stop", "length", "repetition"}] :
           LET Done(x) == Decoding(x) /\ ends[Obj(x)] # "no" IN
           /\ Tidy(sched') /\ sched'.requests = sched.requests /\ sched'.commits = sched.commits
           /\ sched'.pending = sched.pending /\ sched'.failures = 0
           /\ sched'.waiting = sched.waiting /\ sched'.orphans = sched.orphans
           /\ sched'.prefilling = {}
           /\ \A x \in Ids :
                /\ Decoding(x) => ends[Obj(x)] \in Ending(Obj(x))
                /\ produced'[x] = IF Decoding(x) THEN TokenOutput(Obj(x), ends[Obj(x)]) ELSE None
                /\ sched'.running[x] = IF Done(x) THEN None ELSE sched.running[x]
                /\ Done(x) => sched'.lease[x] \in {"none", "stored"}
                /\ ~Done(x) => /\ sched'.lease[x] = sched.lease[x]
                               /\ sched'.status[Obj(x)] = sched.status[Obj(x)]
                /\ sched'.processed[x] = sched.processed[x] + IF Done(x) THEN 1 ELSE 0
                /\ sched'.made[Obj(x)] = sched.made[Obj(x)] + IF Decoding(x) THEN 1 ELSE 0
                /\ sched'.row[Obj(x)] = IF Done(x) THEN 0
                                        ELSE sched.row[Obj(x)] + IF Decoding(x) THEN 1 ELSE 0
           /\ produced' = [x \in Ids |-> produced'[x]]
<1> DEFINE done(ends) == {o \in Rows : ends[o] # "no"}
           After(ends, stored) ==
             [CleanedUp(Processed(sched, ends, done(ends)), done(ends), stored) EXCEPT !.failures = 0]
           Outs(ends) == [r \in Ids |-> IF sched.running[r] \in Rows
                                   THEN TokenOutput(sched.running[r], ends[sched.running[r]])
                                   ELSE None]
<1>1. PICK ends \in [Rows -> {"no", "stop", "length", "repetition"}] :
         /\ \A o \in Rows : ends[o] \in Ending(o)
         /\ \E stored \in SUBSET done(ends) : EndStep(After(ends, stored), Outs(ends))
  BY DEF Decode
<1>2. PICK stored \in SUBSET done(ends) : EndStep(After(ends, stored), Outs(ends))
  BY <1>1
<1> DEFINE D == done(ends)
           made == [o \in Objects |-> sched.made[o] + IF o \in Rows THEN 1 ELSE 0]
           progress == [o \in Objects |-> IF o \in Rows \ D THEN sched.row[o] + 1 ELSE
                                           IF o \in D THEN 0 ELSE sched.row[o]]
           statuses == [o \in Objects |-> IF o \in D THEN EndStatus[ends[o]] ELSE sched.status[o]]
           processed == [r \in Ids |-> sched.processed[r] + IF sched.running[r] \in D THEN 1 ELSE 0]
           leases == [r \in Ids |-> IF sched.running[r] \in stored THEN "stored"
                                     ELSE IF sched.running[r] \in D THEN "none" ELSE sched.lease[r]]
           batch == [r \in Ids |-> IF sched.running[r] \in D THEN None ELSE sched.running[r]]
           p == Processed(sched, ends, D)
           t == CleanedUp(p, D, stored)
           Done(x) == Decoding(x) /\ ends[Obj(x)] # "no"
<1>0. sched \in SchedulerType /\ OwnObjects(sched) /\ NoDup(sched.waiting)  BY DEF Tidy
<1>3. /\ D \subseteq Rows /\ Rows \subseteq Objects
      /\ \A x \in Ids : (Obj(x) \in Rows <=> Decoding(x)) /\ (sched.running[x] \in Rows <=> Decoding(x))
      /\ \A x \in Ids : (Obj(x) \in D <=> Done(x)) /\ (sched.running[x] \in D <=> Done(x))
  <2>1. \A x \in Ids : Decoding(x) => sched.running[x] = Obj(x)
    BY <1>0 DEF Decoding, OwnObjects
  <2> QED  BY <2>1, RowsAreDecoding
<1>4. made \in [Objects -> Int] /\ progress \in [Objects -> Int] /\ processed \in [Ids -> Nat]
  BY <1>0 DEF SchedulerType
<1>5. statuses \in [Objects -> Statuses]
  <2>1. \A o \in D : EndStatus[ends[o]] \in Statuses
    BY DEF EndStatus, Statuses
  <2> QED  BY <1>0, <2>1 DEF SchedulerType
<1>6. leases \in [Ids -> Leases] /\ batch \in [Ids -> ObjectOrNone]
  BY <1>0 DEF SchedulerType, Leases, ObjectOrNone
<1>7. p = [sched EXCEPT !.made = made, !.row = progress, !.prefilling = {},
                        !.status = statuses, !.processed = processed]
  BY DEF Processed
<1>8. t = [p EXCEPT !.lease = leases, !.running = batch]
  <2>1. p.running = sched.running /\ p.lease = sched.lease
    BY <1>0, <1>7 DEF SchedulerType
  <2> HIDE DEF p, D
  <2> QED  BY <2>1 DEF CleanedUp
<1>9. \A x \in Ids :
        /\ batch[x] = IF Done(x) THEN None ELSE sched.running[x]
        /\ Done(x) => leases[x] \in {"none", "stored"}
        /\ ~Done(x) => leases[x] = sched.lease[x] /\ statuses[Obj(x)] = sched.status[Obj(x)]
        /\ processed[x] = sched.processed[x] + IF Done(x) THEN 1 ELSE 0
        /\ made[Obj(x)] = sched.made[Obj(x)] + IF Decoding(x) THEN 1 ELSE 0
        /\ progress[Obj(x)] = IF Done(x) THEN 0
                              ELSE sched.row[Obj(x)] + IF Decoding(x) THEN 1 ELSE 0
  <2> SUFFICES ASSUME NEW x \in Ids
               PROVE  /\ batch[x] = IF Done(x) THEN None ELSE sched.running[x]
                      /\ Done(x) => leases[x] \in {"none", "stored"}
                      /\ ~Done(x) => leases[x] = sched.lease[x] /\ statuses[Obj(x)] = sched.status[Obj(x)]
                      /\ processed[x] = sched.processed[x] + IF Done(x) THEN 1 ELSE 0
                      /\ made[Obj(x)] = sched.made[Obj(x)] + IF Decoding(x) THEN 1 ELSE 0
                      /\ progress[Obj(x)] = IF Done(x) THEN 0
                                            ELSE sched.row[Obj(x)] + IF Decoding(x) THEN 1 ELSE 0
    OBVIOUS
  <2>1. /\ Obj(x) \in Objects /\ (Obj(x) \in Rows <=> Decoding(x)) /\ (Obj(x) \in D <=> Done(x))
        /\ (sched.running[x] \in D <=> Done(x))
    BY <1>3, ObjFacts
  <2>2. sched.running[x] \in stored => Done(x)  BY <1>2, <2>1
  <2>3. Done(x) => Decoding(x)  OBVIOUS
  <2>4. sched.row[Obj(x)] \in Int  BY <1>0, <2>1 DEF SchedulerType
  <2> HIDE DEF D, Done
  <2> QED  BY <2>1, <2>2, <2>3, <2>4
<1>10. \A x \in Ids : Outs(ends)[x] = IF Decoding(x) THEN TokenOutput(Obj(x), ends[Obj(x)]) ELSE None
  BY <1>0, <1>3 DEF OwnObjects, Decoding
<1> HIDE DEF made, progress, statuses, processed, leases, batch, p, t, D
<1>11. p \in SchedulerType  BY <1>0, <1>4, <1>5, <1>7 DEF SchedulerType
<1>12. t \in SchedulerType  BY <1>6, <1>8, <1>11 DEF SchedulerType
<1> DEFINE u == [t EXCEPT !.failures = 0]
<1>13. u \in SchedulerType  BY <1>12 DEF SchedulerType
<1>14. /\ u.requests = sched.requests /\ u.commits = sched.commits
       /\ u.pending = sched.pending /\ u.failures = 0
       /\ u.waiting = sched.waiting /\ u.orphans = sched.orphans
       /\ u.prefilling = {} /\ u.running = batch /\ u.lease = leases
       /\ u.status = statuses /\ u.processed = processed /\ u.made = made /\ u.row = progress
  <2>1. /\ p.requests = sched.requests /\ p.commits = sched.commits
        /\ p.pending = sched.pending /\ p.waiting = sched.waiting /\ p.orphans = sched.orphans
        /\ p.prefilling = {} /\ p.status = statuses
        /\ p.processed = processed /\ p.made = made /\ p.row = progress
    BY <1>0, <1>7 DEF SchedulerType
  <2> QED  BY <1>8, <1>11, <1>12, <2>1 DEF SchedulerType
<1>15. sched' = u /\ produced' = Outs(ends)
  BY <1>2 DEF EndStep, t, p, D
<1> HIDE DEF u, Outs, Done
<1>16. OwnObjects(sched')
  BY <1>0, <1>9, <1>14, <1>15 DEF OwnObjects
<1>17. Tidy(sched')  BY <1>0, <1>13, <1>14, <1>15, <1>16 DEF Tidy
<1>18. \A x \in Ids : Decoding(x) => ends[Obj(x)] \in Ending(Obj(x))
  BY <1>1, <1>3
<1>19. produced' = [x \in Ids |-> produced'[x]]  BY <1>15 DEF Outs
<1> QED  BY <1>9, <1>10, <1>14, <1>15, <1>17, <1>18, <1>19 DEF Done

-----------------------------------------------------------------------------
(* The turns, lives and places are kept.                                   *)
LEMMA JobRemoved ==
  ASSUME jobs \in Seq(JobType), NEW i \in 1..Len(jobs),
         jobs' = RemoveAt(jobs, i) \/ (i = 1 /\ jobs' = Tail(jobs)), SubmittedOnce, Lone
  PROVE  /\ SubmittedOnce' /\ Lone' /\ (Adds \/ jobs[i].do # "add" => Adds')
         /\ (FailQueued' => FailQueued) /\ (FailQueued /\ jobs[i].do # "fail" => FailQueued')
         /\ \A x \in Ids : Submitted(x)' <=> Submitted(x) /\ jobs[i] # [do |-> "add", obj |-> Obj(x)]
<1> DEFINE At(k) == IF k < i THEN k ELSE k + 1
<1>1. /\ DOMAIN jobs' = 1..(Len(jobs) - 1) /\ Len(jobs) \in Nat /\ DOMAIN jobs = 1..Len(jobs)
      /\ \A k \in 1..(Len(jobs) - 1) : jobs'[k] = jobs[At(k)]
  <2>1. CASE jobs' = RemoveAt(jobs, i)
    <3>1. /\ Len(RemoveAt(jobs, i)) = Len(jobs) - 1
          /\ DOMAIN RemoveAt(jobs, i) = 1..(Len(jobs) - 1)
          /\ \A k \in 1..(Len(jobs) - 1) : RemoveAt(jobs, i)[k] = IF k < i THEN jobs[k] ELSE jobs[k + 1]
      BY RemoveAtElements
    <3> QED  BY <2>1, <3>1
  <2>2. CASE i = 1 /\ jobs' = Tail(jobs)
    BY <2>2
  <2> QED  BY <2>1, <2>2
<1>2. \A k \in DOMAIN jobs' : At(k) \in DOMAIN jobs /\ At(k) # i /\ jobs'[k] = jobs[At(k)]
  BY <1>1
<1>3. \A k, l \in DOMAIN jobs' : At(k) = At(l) => k = l
  BY <1>1
<1>4. \A m \in DOMAIN jobs : m # i => \E k \in DOMAIN jobs' : At(k) = m
  <2> SUFFICES ASSUME NEW m \in DOMAIN jobs, m # i  PROVE \E k \in DOMAIN jobs' : At(k) = m
    OBVIOUS
  <2>1. CASE m < i  BY <2>1, <1>1
  <2>2. CASE m > i
    <3>1. m - 1 \in DOMAIN jobs' /\ At(m - 1) = m  BY <2>2, <1>1
    <3> QED  BY <3>1
  <2> QED  BY <1>1, <2>1, <2>2
<1>5. \A m \in DOMAIN jobs : jobs[m] \in JobType  OBVIOUS
<1> HIDE DEF At
<1>6. SubmittedOnce'  BY <1>2, <1>3 DEF SubmittedOnce
<1>7. Lone'  BY <1>2, <1>3 DEF Lone
<1>8. Adds \/ jobs[i].do # "add" => Adds'  BY <1>1, <1>2 DEF Adds, Lone
<1>9. \A x \in Ids : Submitted(x)' <=> Submitted(x) /\ jobs[i] # [do |-> "add", obj |-> Obj(x)]
  <2> SUFFICES ASSUME NEW x \in Ids
               PROVE  Submitted(x)' <=> Submitted(x) /\ jobs[i] # [do |-> "add", obj |-> Obj(x)]
    OBVIOUS
  <2> DEFINE job == [do |-> "add", obj |-> Obj(x)]
  <2>1. \A m \in DOMAIN jobs : jobs[m].do = "add" /\ jobs[m].obj = Obj(x) <=> jobs[m] = job
    BY <1>5 DEF JobType
  <2>2. Submitted(x) <=> \E m \in DOMAIN jobs : jobs[m] = job  BY <2>1, Zenon DEF Submitted
  <2>3. Submitted(x)' <=> \E k \in DOMAIN jobs' : jobs'[k] = job
    BY <1>2, <2>1 DEF Submitted
  <2>4. \A m \in DOMAIN jobs : jobs[m] = job /\ jobs[i] = job => m = i
    BY <1>1 DEF SubmittedOnce
  <2> HIDE DEF job
  <2> QED  BY <1>1, <1>2, <1>4, <2>2, <2>3, <2>4 DEF job
<1>10. /\ FailQueued' => FailQueued
       /\ FailQueued /\ jobs[i].do # "fail" => FailQueued'
  <2>1. FailQueued' => FailQueued  BY <1>2 DEF FailQueued
  <2>2. ASSUME FailQueued, jobs[i].do # "fail"  PROVE FailQueued'
    <3>1. PICK m \in DOMAIN jobs : jobs[m].do = "fail"  BY <2>2 DEF FailQueued
    <3>2. PICK k \in DOMAIN jobs' : At(k) = m  BY <1>4, <2>2, <3>1
    <3> QED  BY <1>2, <3>1, <3>2 DEF FailQueued
  <2> QED  BY <2>1, <2>2
<1> QED  BY <1>6, <1>7, <1>8, <1>9, <1>10

LEMMA JobAdded ==
  ASSUME jobs \in Seq(JobType), NEW job \in JobType, jobs' = Append(jobs, job), SubmittedOnce, Lone,
         job.do = "add" => \A i \in DOMAIN jobs : jobs[i] # job,
         job.do # "add" => Adds
  PROVE  /\ SubmittedOnce' /\ Lone' /\ (Adds /\ job.do = "add" => Adds')
         /\ (FailQueued' <=> FailQueued \/ job.do = "fail")
         /\ \A x \in Ids : Submitted(x)' <=> Submitted(x) \/ job = [do |-> "add", obj |-> Obj(x)]
<1>1. /\ Len(jobs) \in Nat /\ DOMAIN jobs = 1..Len(jobs) /\ DOMAIN jobs' = 1..(Len(jobs) + 1)
      /\ \A k \in 1..Len(jobs) : jobs'[k] = jobs[k]
      /\ jobs'[Len(jobs) + 1] = job
  OBVIOUS
<1>2. \A k \in DOMAIN jobs' : k = Len(jobs) + 1 \/ k \in DOMAIN jobs
  BY <1>1
<1>3. SubmittedOnce'  BY <1>1, <1>2 DEF SubmittedOnce
<1>4. Lone'  BY <1>1, <1>2 DEF Lone, Adds
<1>5. Adds /\ job.do = "add" => Adds'  BY <1>1, <1>2 DEF Adds
<1>6. \A x \in Ids : Submitted(x)' <=> Submitted(x) \/ job = [do |-> "add", obj |-> Obj(x)]
  <2> SUFFICES ASSUME NEW x \in Ids
               PROVE  Submitted(x)' <=> Submitted(x) \/ job = [do |-> "add", obj |-> Obj(x)]
    OBVIOUS
  <2>1. job.do = "add" /\ job.obj = Obj(x) <=> job = [do |-> "add", obj |-> Obj(x)]
    BY DEF JobType
  <2>2. Len(jobs) + 1 \in DOMAIN jobs' /\ \A k \in DOMAIN jobs : k \in DOMAIN jobs'
    BY <1>1
  <2> QED  BY <1>1, <1>2, <2>1, <2>2 DEF Submitted
<1>7. FailQueued' <=> FailQueued \/ job.do = "fail"
  <2>1. FailQueued' => FailQueued \/ job.do = "fail"  BY <1>1, <1>2 DEF FailQueued
  <2>2. Len(jobs) + 1 \in DOMAIN jobs' /\ \A k \in DOMAIN jobs : k \in DOMAIN jobs'
    BY <1>1
  <2>3. FailQueued \/ job.do = "fail" => FailQueued'  BY <1>1, <2>2 DEF FailQueued
  <2> QED  BY <2>1, <2>3
<1> QED  BY <1>3, <1>4, <1>5, <1>6, <1>7

LEMMA FrameLife ==
  ASSUME NEW x \in Ids, Life(x), client'[x] = client[x],
         sched'.commits[x] = sched.commits[x], sched'.requests[x] = sched.requests[x],
         sched.commits[x] = 0 => sched'.status[Obj(x)] = sched.status[Obj(x)],
         Submitted(x)' <=> Submitted(x), Adding(x)' <=> Adding(x)
  PROVE  Life(x)'
BY DEF Life

LEMMA FramePlace ==
  ASSUME NEW x \in Ids, Place(x), client[x].at = "gone" => client'[x].at = "gone",
         sched'.running[x] = sched.running[x], Queued(sched', x) <=> Queued(sched, x),
         InHand(x)' => InHand(x), sched'.status[Obj(x)] = sched.status[Obj(x)],
         sched'.requests[x] = sched.requests[x], sched'.commits[x] = sched.commits[x]
  PROVE  Place(x)'
BY DEF Place, Occupies

LEMMA OrderlyFacts ==
  ASSUME IInv, Orderly, OwnIds
  PROVE  /\ Turns /\ SubmittedOnce /\ NoDup(sched.waiting) /\ Tidy(sched)
         /\ \A x \in Ids : Life(x) /\ Place(x) /\ Settled1(sched, x)
         /\ jobs \in Seq(JobType) /\ step \in StepType /\ ClientShape(client)
         /\ sched \in SchedulerType
<1>1. OwnObjects(sched)  BY DEF Orderly, OwnObjects, Life, Place
<1>2. \A x \in Ids : Settled1(sched, x)  BY DEF Orderly, Place, Settled1
<1> QED  BY <1>1, <1>2 DEF Orderly, Tidy, IInv, Shape, Good

(* Nothing happened to what it is about.                                   *)
LEMMA OrderlyFrame ==
  ASSUME IInv, Orderly, OwnIds, UNCHANGED <<sched, jobs, step>>,
         \A x \in Ids : Life(x)', Turns',
         \A x \in Ids : client[x].at = "gone" => client'[x].at = "gone"
  PROVE  Orderly'
<1>1. SubmittedOnce' /\ NoDup(sched'.waiting)
  BY DEF Orderly, SubmittedOnce
<1>2. \A x \in Ids : Place(x)'
  BY FramePlace DEF Orderly, InHand
<1> QED  BY <1>1, <1>2 DEF Orderly

LEMMA OrderlyInit == OwnIds /\ Init => Orderly
<1> SUFFICES ASSUME OwnIds, Init  PROVE Orderly
  OBVIOUS
<1>1. Turns /\ SubmittedOnce
  BY DEF Init, Turns, SubmittedOnce, Adds, Lone, Between, Free, Nothing
<1>2. NoDup(sched.waiting) /\ \A r \in Ids : ~Queued(sched, r)
  BY DEF Init, NoDup, Queued, ToSet
<1>3. \A r \in Ids : ~Submitted(r) /\ ~Adding(r) /\ ~InHand(r)
  BY ObjFacts DEF Init, Submitted, Adding, InHand, Free
<1>4. \A r \in Ids : Life(r) /\ Place(r)
  <2> SUFFICES ASSUME NEW r \in Ids  PROVE Life(r) /\ Place(r)
    OBVIOUS
  <2>1. /\ client[r].at = "idle" /\ client[r].life = 0 /\ client[r].fate = "none"
        /\ sched.commits[r] = 0 /\ sched.requests[r] = None /\ sched.running[r] = None
        /\ sched.status[Obj(r)] = "waiting"
    BY ObjFacts DEF Init, Nothing, Zeros
  <2>2. Life(r)  BY <1>3, <2>1 DEF Life
  <2>3. Place(r)  BY <1>2, <1>3, <2>1 DEF Place, Occupies
  <2> QED  BY <2>2, <2>3
<1> QED  BY <1>1, <1>2, <1>4 DEF Orderly

LEMMA SubmitOrderly ==
  ASSUME IInv, Orderly, OwnIds, NEW r \in Ids, Submit(r)
  PROVE  Orderly'
<1> DEFINE job == [do |-> "add", obj |-> Obj(r)]
<1>1. /\ client[r].at = "idle" /\ client[r].life = 0 /\ ~Submitted(r) /\ ~Adding(r)
      /\ sched.commits[r] = 0
  BY OrderlyFacts DEF Submit, OwnIds, Life
<1>2. <<r, client[r].life + 1>> = Obj(r) /\ Obj(r)[2] = 1  BY <1>1 DEF Obj
<1>3. /\ jobs' = Append(jobs, job) /\ job \in JobType
      /\ client' = [client EXCEPT ![r] = [at |-> "adding", life |-> 1, got |-> 0, fate |-> "none"]]
  BY <1>2, ObjFacts DEF Submit, JobType
<1>4. UNCHANGED <<sched, step, loop, produced>>  BY DEF Submit
<1>5. \A i \in DOMAIN jobs : jobs[i] # job
  BY <1>1 DEF Submitted
<1>6. /\ SubmittedOnce' /\ Lone' /\ (Adds => Adds')
      /\ \A x \in Ids : Submitted(x)' <=> Submitted(x) \/ x = r
  <2>1. \A x \in Ids : job = [do |-> "add", obj |-> Obj(x)] <=> x = r  BY ObjFacts
  <2>2. job.do = "add"  OBVIOUS
  <2>3. Lone  BY OrderlyFacts DEF Turns
  <2> HIDE DEF job
  <2> QED  BY <1>3, <1>5, <2>1, <2>2, <2>3, JobAdded, OrderlyFacts
<1>7. Turns'  BY <1>4, <1>6, OrderlyFacts DEF Turns, Between
<1>8. \A x \in Ids \ {r} : client'[x] = client[x]
  BY <1>3, OrderlyFacts DEF ClientShape
<1>9. client'[r] = [at |-> "adding", life |-> 1, got |-> 0, fate |-> "none"]
  BY <1>3, OrderlyFacts DEF ClientShape
<1>10. \A x \in Ids : Adding(x)' <=> Adding(x)  BY <1>4 DEF Adding
<1>11. Life(r)'  BY <1>1, <1>4, <1>9, <1>10, OrderlyFacts DEF Life
<1>12. \A x \in Ids \ {r} : Life(x)'
  BY <1>4, <1>6, <1>8, <1>10, FrameLife, OrderlyFacts
<1>13. \A x \in Ids : Place(x)'
  BY <1>1, <1>4, <1>8, FramePlace, OrderlyFacts DEF InHand
<1> QED  BY <1>4, <1>6, <1>7, <1>11, <1>12, <1>13, OrderlyFacts DEF Orderly

LEMMA WithdrawOrderly ==
  ASSUME IInv, Orderly, OwnIds, NEW r \in Ids, Withdraw(r)
  PROVE  Orderly'
<1>0. UNCHANGED <<sched, step, loop, produced>> /\ client[r].at = "adding"  BY DEF Withdraw
<1>1. CASE \E i \in DOMAIN jobs : /\ jobs[i].do = "add" /\ jobs[i].obj[1] = r
                                 /\ jobs' = RemoveAt(jobs, i)
                                 /\ client' = [client EXCEPT ![r].at = "leaving", ![r].fate = "cancelled"]
  <2>1. PICK i \in 1..Len(jobs) : /\ jobs[i].do = "add" /\ jobs[i].obj[1] = r
                                 /\ jobs' = RemoveAt(jobs, i)
                                 /\ client' = [client EXCEPT ![r].at = "leaving", ![r].fate = "cancelled"]
    BY <1>1, OrderlyFacts
  <2>2. jobs[i] = [do |-> "add", obj |-> Obj(r)]
    <3>1. jobs[i] \in JobType  BY OrderlyFacts
    <3> QED  BY <2>1, <3>1, ObjFacts DEF JobType
  <2>3. Submitted(r) /\ ~Adding(r)
    <3>1. i \in DOMAIN jobs  BY OrderlyFacts
    <3> QED  BY <2>2, <3>1, OrderlyFacts DEF Submitted, Life
  <2>4. /\ SubmittedOnce' /\ Lone' /\ (Adds => Adds')
        /\ \A x \in Ids : Submitted(x)' <=> Submitted(x) /\ x # r
    <3>1. \A x \in Ids : jobs[i] = [do |-> "add", obj |-> Obj(x)] <=> x = r  BY <2>2, ObjFacts
    <3>2. /\ SubmittedOnce' /\ Lone' /\ (Adds => Adds')
          /\ \A x \in Ids : Submitted(x)' <=> Submitted(x) /\ jobs[i] # [do |-> "add", obj |-> Obj(x)]
      <4>1. jobs \in Seq(JobType) /\ SubmittedOnce /\ Lone  BY OrderlyFacts DEF Turns
      <4> QED  BY <2>1, <4>1, JobRemoved
    <3> QED  BY <3>1, <3>2
  <2>5. Turns'  BY <1>0, <2>4, OrderlyFacts DEF Turns, Between
  <2>6. /\ \A x \in Ids \ {r} : client'[x] = client[x]
        /\ client'[r] = [client[r] EXCEPT !.at = "leaving", !.fate = "cancelled"]
    BY <2>1, OrderlyFacts DEF ClientShape
  <2>7. client'[r].at = "leaving" /\ client'[r].life = client[r].life
    BY <2>6, OrderlyFacts DEF ClientShape, ClientRecord
  <2>8. \A x \in Ids : Adding(x)' <=> Adding(x)  BY <1>0 DEF Adding
  <2>9. Life(r)'  BY <1>0, <2>3, <2>4, <2>7, <2>8, OrderlyFacts DEF Life
  <2>10. \A x \in Ids \ {r} : Life(x)'
    BY <1>0, <2>4, <2>6, <2>8, FrameLife, OrderlyFacts
  <2>11. \A x \in Ids : Place(x)'
    BY <1>0, <2>6, FramePlace, OrderlyFacts DEF InHand
  <2> QED  BY <1>0, <2>4, <2>5, <2>9, <2>10, <2>11, OrderlyFacts DEF Orderly
<1>2. CASE /\ step.adding # None /\ step.adding[1] = r
           /\ client' = [client EXCEPT ![r].at = "cancelled", ![r].fate = "cancelled"]
           /\ UNCHANGED jobs
  <2>1. Adding(r)  BY <1>2, OrderlyFacts, ObjFacts DEF Adding, StepType, ObjectOrNone
  <2>2. /\ \A x \in Ids \ {r} : client'[x] = client[x]
        /\ client'[r] = [client[r] EXCEPT !.at = "cancelled", !.fate = "cancelled"]
    BY <1>2, OrderlyFacts DEF ClientShape
  <2>3. client'[r].at = "cancelled" /\ client'[r].life = client[r].life
    BY <2>2, OrderlyFacts DEF ClientShape, ClientRecord
  <2>4. \A x \in Ids : (Adding(x)' <=> Adding(x)) /\ (Submitted(x)' <=> Submitted(x))
    BY <1>0, <1>2 DEF Adding, Submitted
  <2>5. Life(r)'  BY <1>0, <2>1, <2>3, <2>4, OrderlyFacts DEF Life
  <2>6. \A x \in Ids \ {r} : Life(x)'
    BY <1>0, <2>2, <2>4, FrameLife, OrderlyFacts
  <2>7. Turns'  BY <1>0, <1>2, OrderlyFacts DEF Turns, Between, Adds, Lone
  <2> QED  BY <1>0, <1>2, <2>2, <2>5, <2>6, <2>7, OrderlyFrame
<1> QED  BY <1>1, <1>2 DEF Withdraw

(* A read, a return, a disconnect: only the client moves.                  *)
LEMMA ClientMoves ==
  ASSUME IInv, Orderly, OwnIds, NEW r \in Ids, NEW c, ClientRecord(c),
         client' = [client EXCEPT ![r] = c], client[r].at \in {"reading", "closing"},
         c.at \in {"reading", "closing", "leaving"}, c.life = client[r].life,
         c.at = "reading" => client[r].at = "reading" /\ c.fate = client[r].fate,
         UNCHANGED <<sched, jobs, step, loop, produced>>
  PROVE  Orderly'
<1>1. client'[r] = c /\ \A x \in Ids \ {r} : client'[x] = client[x]
  BY OrderlyFacts DEF ClientShape
<1>2. \A x \in Ids : (Adding(x)' <=> Adding(x)) /\ (Submitted(x)' <=> Submitted(x))
  BY DEF Adding, Submitted
<1>3. Life(r)'  BY <1>1, <1>2, OrderlyFacts DEF Life
<1>4. \A x \in Ids \ {r} : Life(x)'  BY <1>1, <1>2, FrameLife, OrderlyFacts
<1>5. Turns'  BY OrderlyFacts DEF Turns, Between, Adds, Lone
<1> QED  BY <1>1, <1>3, <1>4, <1>5, OrderlyFrame

LEMMA ReaderOrderly ==
  ASSUME IInv, Orderly, OwnIds, NEW r \in Ids, Read(r) \/ Return(r) \/ Disconnect(r)
  PROVE  Orderly'
<1> DEFINE o == stream[r].out
           c1 == IF Raises(o) THEN [client[r] EXCEPT !.at = "closing", !.fate = "failed"]
                 ELSE IF Finished(o)
                 THEN [client[r] EXCEPT !.at = "leaving", !.got = client[r].got + o.n, !.fate = EndOf(o)]
                 ELSE [client[r] EXCEPT !.got = client[r].got + o.n]
           c2 == IF o = None \/ Raises(o) THEN [client[r] EXCEPT !.at = "leaving", !.fate = "failed"]
                 ELSE [client[r] EXCEPT !.at = "leaving", !.got = o.total, !.fate = EndOf(o)]
           c3 == [client[r] EXCEPT !.at = "closing", !.fate = "left"]
<1>1. PICK at, got, fate, life : client[r] = [at |-> at, life |-> life, got |-> got, fate |-> fate]
  BY OrderlyFacts DEF ClientShape, ClientRecord
<1>2. /\ c1.at \in {"reading", "closing", "leaving"} \/ client[r].at # "reading"
      /\ c1.life = client[r].life
      /\ c1.at = "reading" => client[r].at = "reading" /\ c1.fate = client[r].fate
  BY <1>1
<1>3. c2.at = "leaving" /\ c2.life = client[r].life /\ c3.at = "closing" /\ c3.life = client[r].life
  BY <1>1
<1>4. ClientRecord(client[r])  BY OrderlyFacts DEF ClientShape
<1>5. ClientRecord(c1) /\ ClientRecord(c2) /\ ClientRecord(c3)
  BY <1>4, ClientFields, ClientField
<1>6. CASE Read(r)
  <2>1. client' = [client EXCEPT ![r] = c1]  BY <1>6 DEF Read
  <2>2. client[r].at = "reading" /\ UNCHANGED <<sched, jobs, step, loop, produced>>  BY <1>6 DEF Read
  <2> HIDE DEF c1
  <2> QED  BY <1>2, <1>5, <2>1, <2>2, ClientMoves
<1>7. CASE Return(r)
  <2>1. client' = [client EXCEPT ![r] = c2]  BY <1>7 DEF Return
  <2>2. client[r].at = "reading" /\ UNCHANGED <<sched, jobs, step, loop, produced>>  BY <1>7 DEF Return
  <2> HIDE DEF c2
  <2> QED  BY <1>3, <1>5, <2>1, <2>2, ClientMoves
<1>8. CASE Disconnect(r)
  <2>1. client' = [client EXCEPT ![r] = c3]  BY <1>8, OrderlyFacts DEF Disconnect, ClientShape
  <2>2. client[r].at = "reading" /\ UNCHANGED <<sched, jobs, step, loop, produced>>  BY <1>8 DEF Disconnect
  <2> HIDE DEF c3
  <2> QED  BY <1>3, <1>5, <2>1, <2>2, ClientMoves
<1> QED  BY <1>6, <1>7, <1>8

(* An operation of the event loop that leaves every request where it is.   *)
LEMMA OrderlyAborts ==
  ASSUME IInv, Orderly, OwnIds, UNCHANGED <<jobs, step>>, Turns',
         Kept(sched, sched'), SamePlaces(sched, sched'),
         \A x \in Ids : \/ client'[x] = client[x]
                        \/ /\ client[x].at = "closing" /\ client'[x].at = "leaving"
                           /\ client'[x].life = client[x].life
  PROVE  Orderly'
<1>1. \A x \in Ids : (Adding(x)' <=> Adding(x)) /\ (Submitted(x)' <=> Submitted(x))
  BY DEF Adding, Submitted
<1>2. \A x \in Ids : Queued(sched', x) <=> Queued(sched, x)  BY DEF SamePlaces, Queued
<1>3. \A x \in Ids : Life(x)'
  <2> SUFFICES ASSUME NEW x \in Ids  PROVE Life(x)'
    OBVIOUS
  <2>1. CASE client'[x] = client[x]
    BY <1>1, <2>1, FrameLife, OrderlyFacts DEF Kept, SamePlaces
  <2>2. CASE client'[x] # client[x]
    BY <1>1, <2>2, OrderlyFacts DEF Life, Kept, SamePlaces
  <2> QED  BY <2>1, <2>2
<1>4. \A x \in Ids : Place(x)'
  BY <1>2, FramePlace, OrderlyFacts DEF Kept, SamePlaces, InHand
<1> QED  BY <1>3, <1>4, OrderlyFacts DEF Orderly, SubmittedOnce, SamePlaces

LEMMA AbortsOrderly ==
  ASSUME IInv, Orderly, OwnIds, NEW r \in Ids,
         ForceAbort(r) \/ RecordDisconnect(r) \/ Finally(r) \/ CancelRequest(r)
  PROVE  Orderly'
<1>1. {r} \in SUBSET Ids  OBVIOUS
<1>2. UNCHANGED <<jobs, step, loop, produced>>
  BY DEF ForceAbort, RecordDisconnect, Finally, CancelRequest
<1>3. Turns'  BY <1>2, OrderlyFacts DEF Turns, Between, Adds, Lone
<1>4. sched' = Enqueue(sched, {r}) \/ sched' = Attribute(sched, r)
  BY DEF ForceAbort, RecordDisconnect, Finally, CancelRequest
<1>5. Kept(sched, sched') /\ SamePlaces(sched, sched')
  BY <1>1, <1>4, EnqueueEffect, AttributeEffect, OrderlyFacts
<1>6. CASE ~Finally(r)
  <2>1. UNCHANGED client  BY <1>6 DEF ForceAbort, RecordDisconnect, CancelRequest
  <2> QED  BY <1>2, <1>3, <1>5, <2>1, OrderlyAborts
<1>7. CASE Finally(r)
  <2>1. /\ \A x \in Ids \ {r} : client'[x] = client[x]
        /\ client'[r] = [client[r] EXCEPT !.at = "leaving"] /\ client[r].at = "closing"
    BY <1>7, OrderlyFacts DEF ClientShape, Finally
  <2>2. client'[r].at = "leaving" /\ client'[r].life = client[r].life
    BY <2>1, OrderlyFacts DEF ClientShape, ClientRecord
  <2> QED  BY <1>2, <1>3, <1>5, <2>1, <2>2, OrderlyAborts
<1> QED  BY <1>6, <1>7

LEMMA CleanupOrderly ==
  ASSUME IInv, Orderly, OwnIds, NEW r \in Ids, Cleanup(r)
  PROVE  Orderly'
<1>1. UNCHANGED <<jobs, step, loop, produced>> /\ client[r].at = "leaving"  BY DEF Cleanup
<1>2. Turns' /\ SubmittedOnce'
  BY <1>1, OrderlyFacts DEF Turns, Between, Adds, Lone, SubmittedOnce
<1>3. /\ sched'.requests = [sched.requests EXCEPT ![r] = None] /\ sched'.commits = sched.commits
      /\ sched'.waiting = sched.waiting /\ sched'.running = sched.running
      /\ sched'.status = sched.status
  BY RemoveEffect, OrderlyFacts DEF Cleanup
<1>4. sched'.requests[r] = None /\ \A x \in Ids \ {r} : sched'.requests[x] = sched.requests[x]
  BY <1>3, OrderlyFacts DEF SchedulerType
<1>5. /\ \A x \in Ids \ {r} : client'[x] = client[x]
      /\ client'[r] = [client[r] EXCEPT !.at = "gone"]
  BY OrderlyFacts DEF ClientShape, Cleanup
<1>6. client'[r].at = "gone" /\ client'[r].life = client[r].life
  BY <1>5, OrderlyFacts DEF ClientShape, ClientRecord
<1>7. \A x \in Ids : /\ (Adding(x)' <=> Adding(x)) /\ (Submitted(x)' <=> Submitted(x))
                     /\ (Queued(sched', x) <=> Queued(sched, x)) /\ (InHand(x)' <=> InHand(x))
  BY <1>1, <1>3 DEF Adding, Submitted, Queued, InHand
<1>8. Life(r)'  BY <1>1, <1>3, <1>4, <1>6, <1>7, OrderlyFacts DEF Life
<1>9. \A x \in Ids \ {r} : Life(x)'
  BY <1>3, <1>4, <1>5, <1>7, FrameLife, OrderlyFacts
<1>10. Place(r)'  BY <1>3, <1>4, <1>6, <1>7, OrderlyFacts DEF Place, Occupies
<1>11. \A x \in Ids \ {r} : Place(x)'
  BY <1>3, <1>4, <1>5, <1>7, FramePlace, OrderlyFacts
<1> QED  BY <1>2, <1>3, <1>8, <1>9, <1>10, <1>11, OrderlyFacts DEF Orderly

LEMMA EngineLoopOrderly ==
  ASSUME IInv, Orderly, OwnIds, Pause \/ Loop
  PROVE  Orderly'
<1>1. UNCHANGED <<client, step>>
  BY DEF Pause, Loop, Dispatch, Deliver, Recover, DeliverFailures, Synthesise
<1>2. \A x \in Ids : /\ Adding(x)' <=> Adding(x)
                     /\ InHand(x)' <=> InHand(x)
  BY <1>1 DEF Adding, InHand
<1>3. CASE Pause \/ Deliver \/ DeliverFailures
  <2>1. UNCHANGED <<sched, jobs>>  BY <1>3 DEF Pause, Deliver, DeliverFailures
  <2>2. Turns'
    BY <1>1, <1>3, <2>1, OrderlyFacts
       DEF Turns, Between, Adds, Lone, Pause, Deliver, DeliverFailures, Nothing
  <2>3. \A x \in Ids : Submitted(x)' <=> Submitted(x)  BY <2>1 DEF Submitted
  <2>4. \A x \in Ids : Life(x)'  BY <1>1, <1>2, <2>1, <2>3, FrameLife, OrderlyFacts
  <2> QED  BY <1>1, <2>1, <2>2, <2>4, OrderlyFrame
<1>4. CASE Dispatch \/ Recover
  <2>1. UNCHANGED <<sched, produced>> /\ loop' = "awaiting" /\ Adds /\ Between /\ produced = Nothing
    BY <1>4, OrderlyFacts DEF Turns, Dispatch, Recover
  <2>2. PICK d \in {"step", "fail"} : jobs' = Append(jobs, [do |-> d, obj |-> None])
    BY <1>4 DEF Dispatch, Recover
  <2>3. [do |-> d, obj |-> None] \in JobType  BY DEF JobType
  <2>4. /\ SubmittedOnce' /\ Lone' /\ \A x \in Ids : Submitted(x)' <=> Submitted(x)
    <3> DEFINE job == [do |-> d, obj |-> None]
    <3>1. job.do # "add" /\ job \in JobType /\ jobs' = Append(jobs, job)
          /\ \A x \in Ids : job # [do |-> "add", obj |-> Obj(x)]
      BY <2>2, <2>3
    <3>2. jobs \in Seq(JobType) /\ SubmittedOnce /\ Lone  BY OrderlyFacts DEF Turns
    <3> HIDE DEF job
    <3> QED  BY <2>1, <3>1, <3>2, JobAdded
  <2>5. Turns'  BY <1>1, <2>1, <2>4, OrderlyFacts DEF Turns, Between
  <2>6. \A x \in Ids : Life(x)'  BY <1>1, <1>2, <2>1, <2>4, FrameLife, OrderlyFacts
  <2>7. \A x \in Ids : Place(x)'  BY <1>1, <1>2, <2>1, FramePlace, OrderlyFacts
  <2> QED  BY <2>1, <2>4, <2>5, <2>6, <2>7, OrderlyFacts DEF Orderly
<1>5. CASE Synthesise
  <2>1. UNCHANGED <<jobs, produced>> /\ loop = "unrecovered" /\ loop' = "idle"  BY <1>5 DEF Synthesise
  <2>2. Turns'  BY <1>1, <2>1, OrderlyFacts DEF Turns, Between, Adds, Lone
  <2>3. Kept(sched, sched') /\ SamePlaces(sched, sched')
    <3> DEFINE R == {r \in Ids : Tracked(r) /\ ~stream[r].event}
    <3>1. R \in SUBSET Ids /\ sched' = Enqueue(sched, R)  BY <1>5 DEF Synthesise
    <3> HIDE DEF R
    <3> QED  BY <3>1, EnqueueEffect, OrderlyFacts
  <2> QED  BY <1>1, <2>1, <2>2, <2>3, OrderlyAborts
<1> QED  BY <1>3, <1>4, <1>5 DEF Loop

(* The worker.                                                             *)
LEMMA TurnedClient ==
  ASSUME ClientShape(client), NEW r \in Ids, Turned(r)
  PROVE  /\ \A x \in Ids \ {r} : client'[x] = client[x]
         /\ client'[r].at = "closing" /\ client'[r].life = client[r].life
<1>1. PICK f : client' = [client EXCEPT ![r] = [client[r] EXCEPT !.at = "closing", !.fate = f]]
  BY DEF Turned, ClientShape
<1>2. /\ \A x \in Ids \ {r} : client'[x] = client[x]
      /\ client'[r] = [client[r] EXCEPT !.at = "closing", !.fate = f]
  BY <1>1 DEF ClientShape
<1> QED  BY <1>2 DEF ClientShape, ClientRecord

(* The add job at the head of the queue.                                   *)
LEMMA FirstAdd ==
  ASSUME IInv, Orderly, OwnIds, Taking("add")
  PROVE  \E r \in Ids :
           /\ jobs[1].obj = Obj(r) /\ Submitted(r)
           /\ SubmittedOnce' /\ Lone' /\ (Adds => Adds')
           /\ \A x \in Ids : Submitted(x)' <=> Submitted(x) /\ x # r
<1>1. /\ jobs \in Seq(JobType) /\ SubmittedOnce /\ Lone /\ jobs # <<>> /\ jobs[1].do = "add"
      /\ jobs' = Tail(jobs)
  BY OrderlyFacts DEF Taking, Turns
<1>2. 1 \in 1..Len(jobs) /\ 1 \in DOMAIN jobs /\ jobs[1] \in JobType  BY <1>1
<1>3. PICK r \in Ids : jobs[1].obj = Obj(r)  BY <1>1, <1>2, ObjFacts DEF JobType
<1>4. \A x \in Ids : jobs[1] = [do |-> "add", obj |-> Obj(x)] <=> x = r
  BY <1>1, <1>2, <1>3, ObjFacts DEF JobType
<1>5. Submitted(r)  BY <1>1, <1>2, <1>3 DEF Submitted
<1>6. /\ SubmittedOnce' /\ Lone' /\ (Adds => Adds')
      /\ \A x \in Ids : Submitted(x)' <=> Submitted(x) /\ jobs[1] # [do |-> "add", obj |-> Obj(x)]
  BY <1>1, <1>2, JobRemoved
<1> QED  BY <1>3, <1>4, <1>5, <1>6

LEMMA AddRefusedOrderly ==
  ASSUME IInv, Orderly, OwnIds, AddRefused
  PROVE  Orderly'
<1>1. UNCHANGED <<sched, step, loop, produced>> /\ Taking("add") /\ Turned(jobs[1].obj[1])
  BY DEF AddRefused
<1>2. PICK r \in Ids :
        /\ jobs[1].obj = Obj(r) /\ Submitted(r)
        /\ SubmittedOnce' /\ Lone' /\ (Adds => Adds')
        /\ \A x \in Ids : Submitted(x)' <=> Submitted(x) /\ x # r
  BY <1>1, FirstAdd
<1>3. /\ \A x \in Ids \ {r} : client'[x] = client[x]
      /\ client'[r].at = "closing" /\ client'[r].life = client[r].life
  BY <1>1, <1>2, ObjFacts, TurnedClient, OrderlyFacts
<1>4. client[r].at = "adding" /\ ~Adding(r) /\ sched.commits[r] = 0
  BY <1>2, OrderlyFacts DEF Life
<1>5. \A x \in Ids : Adding(x)' <=> Adding(x)  BY <1>1 DEF Adding
<1>6. Turns'  BY <1>1, <1>2, OrderlyFacts DEF Turns, Between
<1>7. Life(r)'  BY <1>1, <1>2, <1>3, <1>4, <1>5, OrderlyFacts DEF Life
<1>8. \A x \in Ids \ {r} : Life(x)'  BY <1>1, <1>2, <1>3, <1>5, FrameLife, OrderlyFacts
<1>9. \A x \in Ids : Place(x)'  BY <1>1, <1>3, <1>4, FramePlace, OrderlyFacts DEF InHand
<1> QED  BY <1>1, <1>2, <1>6, <1>7, <1>8, <1>9, OrderlyFacts DEF Orderly

LEMMA AddStartEffect ==
  ASSUME OwnIds, Tidy(sched), NEW r \in Ids, jobs[1].obj = Obj(r), AddStart
  PROVE  /\ Tidy(sched') /\ Kept(sched, sched') /\ sched'.pending = sched.pending
         /\ sched'.waiting = sched.waiting /\ sched'.running = sched.running
         /\ sched'.status = sched.status /\ sched'.orphans = sched.orphans
         /\ sched'.prefilling = sched.prefilling /\ sched'.failures = sched.failures
         /\ \A x \in Ids \ {r} : sched'.lease[x] = sched.lease[x]
<1>1. PICK hit \in {"none", "held"} : sched' = [sched EXCEPT !.lease[r] = hit]
  BY ObjFacts DEF AddStart
<1> DEFINE leases == [sched.lease EXCEPT ![r] = hit]
<1>2. sched \in SchedulerType  BY DEF Tidy
<1>3. sched' = [sched EXCEPT !.lease = leases]  BY <1>1, <1>2 DEF SchedulerType
<1>4. leases \in [Ids -> Leases] /\ \A x \in Ids \ {r} : leases[x] = sched.lease[x]
  BY <1>2 DEF SchedulerType, Leases
<1> HIDE DEF leases
<1> QED  BY <1>2, <1>3, <1>4 DEF SchedulerType, Tidy, Kept, OwnObjects

LEMMA AddStartOrderly ==
  ASSUME IInv, Orderly, OwnIds, AddStart
  PROVE  Orderly'
<1>1. UNCHANGED <<client, loop, produced>> /\ Taking("add") /\ step.at = "free"
  BY DEF AddStart, Taking
<1>2. PICK r \in Ids :
        /\ jobs[1].obj = Obj(r) /\ Submitted(r)
        /\ SubmittedOnce' /\ Lone' /\ (Adds => Adds')
        /\ \A x \in Ids : Submitted(x)' <=> Submitted(x) /\ x # r
  BY <1>1, FirstAdd
<1>3. step' = [step EXCEPT !.at = "add", !.adding = Obj(r)]
  BY <1>2 DEF AddStart
<1>4. step'.at = "add" /\ step'.adding = Obj(r) /\ step'.admitting = step.admitting
  BY <1>3, OrderlyFacts DEF StepType
<1>5. step.adding = None  BY <1>1, OrderlyFacts DEF Turns
<1>6. \A x \in Ids : /\ ~Adding(x) /\ (Adding(x)' <=> x = r) /\ (InHand(x)' <=> InHand(x))
  BY <1>4, <1>5, ObjFacts DEF Adding, InHand
<1>7. /\ Tidy(sched') /\ Kept(sched, sched')
      /\ sched'.waiting = sched.waiting /\ sched'.running = sched.running
      /\ sched'.status = sched.status
  BY <1>2, OrderlyFacts, AddStartEffect
<1>8. Turns'  BY <1>1, <1>2, <1>4, ObjFacts, OrderlyFacts DEF Turns, Between
<1>9. Life(r)'  BY <1>1, <1>2, <1>6, <1>7, OrderlyFacts DEF Life, Kept
<1>10. \A x \in Ids \ {r} : Life(x)'  BY <1>1, <1>2, <1>6, <1>7, FrameLife, OrderlyFacts DEF Kept
<1>11. \A x \in Ids : Place(x)'
  BY <1>1, <1>6, <1>7, FramePlace, OrderlyFacts DEF Kept, Queued
<1> QED  BY <1>2, <1>7, <1>8, <1>9, <1>10, <1>11 DEF Orderly, Tidy

(* The admission of r is committed; its caller may have withdrawn.         *)
LEMMA AddCommitEffect ==
  ASSUME OwnIds, IInv, Orderly, AddCommit
  PROVE  \E r \in Ids :
           /\ Adding(r) /\ step' = [step EXCEPT !.at = "free", !.adding = None]
           /\ \A x \in Ids \ {r} : client'[x] = client[x]
           /\ client'[r] = [client[r] EXCEPT !.at = IF client[r].at = "cancelled" THEN "leaving" ELSE "reading"]
           /\ sched'.requests = [sched.requests EXCEPT ![r] = Obj(r)]
           /\ sched'.commits = [sched.commits EXCEPT ![r] = @ + 1]
           /\ sched'.made = sched.made /\ sched'.row = sched.row /\ sched'.processed = sched.processed
           /\ sched'.running = sched.running /\ sched'.status = sched.status
           /\ sched'.lease = sched.lease /\ sched'.prefilling = sched.prefilling
           /\ sched'.failures = sched.failures
           /\ sched'.orphans = [sched.orphans EXCEPT ![r] = None]
           /\ sched'.pending = sched.pending \cup (IF client[r].at = "cancelled" THEN {r} ELSE {})
           /\ NoDup(sched'.waiting) /\ \A x \in Ids : Queued(sched', x) <=> Queued(sched, x) \/ x = r
<1>1. PICK r \in Ids : step.adding = Obj(r)
  <2>1. step.adding \in Objects  BY DEF AddCommit, IInv, Shape
  <2> QED  BY <2>1, ObjFacts
<1>2. Obj(r)[1] = r  BY ObjFacts
<1>3. Adding(r) /\ sched.commits[r] = 0 /\ ~Queued(sched, r)
  BY <1>1, OrderlyFacts DEF Adding, Life, Place, Occupies
<1> DEFINE t == Commit(sched, Obj(r))
           u == Enqueue(t, {r})
           withdrawn == client[r].at = "cancelled"
<1>4. /\ sched' = IF withdrawn THEN u ELSE t
      /\ client' = [client EXCEPT ![r].at = IF withdrawn THEN "leaving" ELSE "reading"]
      /\ step' = [step EXCEPT !.at = "free", !.adding = None]
  BY <1>1, <1>2 DEF AddCommit
<1>5. /\ \A x \in Ids \ {r} : client'[x] = client[x]
      /\ client'[r] = [client[r] EXCEPT !.at = IF withdrawn THEN "leaving" ELSE "reading"]
  BY <1>4, OrderlyFacts DEF ClientShape
<1>6. t \in SchedulerType
  BY ObjFacts, CommitKeeps DEF IInv, Good
<1>7. /\ t.requests = [sched.requests EXCEPT ![r] = Obj(r)]
      /\ t.commits = [sched.commits EXCEPT ![r] = @ + 1]
      /\ t.made = sched.made /\ t.row = sched.row /\ t.processed = sched.processed
      /\ t.running = sched.running /\ t.status = sched.status /\ t.lease = sched.lease
      /\ t.prefilling = sched.prefilling /\ t.pending = sched.pending /\ t.failures = sched.failures
      /\ t.orphans = [sched.orphans EXCEPT ![r] = None]
      /\ NoDup(t.waiting) /\ \A x \in Ids : Queued(t, x) <=> Queued(sched, x) \/ x = r
  BY <1>3, CommitEffect, OrderlyFacts
<1> HIDE DEF t
<1>8. Kept(t, u) /\ SamePlaces(t, u) /\ u.failures = t.failures /\ u.pending = t.pending \cup {r}
  <2>1. {r} \in SUBSET Ids  OBVIOUS
  <2>2. t.requests[r] # None  BY <1>7, ObjFacts, OrderlyFacts DEF SchedulerType
  <2>3. AbortKnown(t, r)  BY <2>2 DEF AbortKnown
  <2> QED  BY <1>6, <2>1, <2>3, EnqueueEffect
<1> HIDE DEF u
<1>9. /\ sched'.requests = [sched.requests EXCEPT ![r] = Obj(r)]
      /\ sched'.commits = [sched.commits EXCEPT ![r] = @ + 1]
      /\ sched'.made = sched.made /\ sched'.row = sched.row /\ sched'.processed = sched.processed
      /\ sched'.running = sched.running /\ sched'.status = sched.status
      /\ sched'.lease = sched.lease /\ sched'.prefilling = sched.prefilling
      /\ sched'.failures = sched.failures
      /\ sched'.orphans = [sched.orphans EXCEPT ![r] = None]
      /\ NoDup(sched'.waiting) /\ sched'.waiting = t.waiting
  <2>1. CASE sched' = t  BY <1>7, <2>1
  <2>2. CASE sched' = u  BY <1>7, <1>8, <2>2 DEF Kept, SamePlaces
  <2> QED  BY <1>4, <2>1, <2>2
<1>10. \A x \in Ids : Queued(sched', x) <=> Queued(sched, x) \/ x = r
  BY <1>7, <1>9 DEF Queued
<1>11. sched'.pending = sched.pending \cup (IF client[r].at = "cancelled" THEN {r} ELSE {})
  <2>1. CASE withdrawn  BY <1>4, <1>7, <1>8, <2>1
  <2>2. CASE ~withdrawn  BY <1>4, <1>7, <2>2
  <2> QED  BY <2>1, <2>2
<1> QED  BY <1>3, <1>4, <1>5, <1>9, <1>10, <1>11

LEMMA AddCommitOrderly ==
  ASSUME IInv, Orderly, OwnIds, AddCommit
  PROVE  Orderly'
<1>1. PICK r \in Ids :
        /\ Adding(r) /\ step' = [step EXCEPT !.at = "free", !.adding = None]
        /\ \A x \in Ids \ {r} : client'[x] = client[x]
        /\ client'[r] = [client[r] EXCEPT !.at = IF client[r].at = "cancelled" THEN "leaving" ELSE "reading"]
        /\ sched'.requests = [sched.requests EXCEPT ![r] = Obj(r)]
        /\ sched'.commits = [sched.commits EXCEPT ![r] = @ + 1]
        /\ sched'.running = sched.running /\ sched'.status = sched.status
        /\ NoDup(sched'.waiting) /\ \A x \in Ids : Queued(sched', x) <=> Queued(sched, x) \/ x = r
  BY AddCommitEffect
<1>2. UNCHANGED <<jobs, loop, produced>> /\ step.at = "add"  BY DEF AddCommit
<1>3. step'.at = "free" /\ step'.adding = None /\ step'.admitting = step.admitting
  BY <1>1, OrderlyFacts DEF StepType
<1>4. \A x \in Ids : /\ ~Adding(x)' /\ (Adding(x) => x = r)
                     /\ (Submitted(x)' <=> Submitted(x)) /\ (InHand(x)' <=> InHand(x))
  BY <1>1, <1>2, <1>3, ObjFacts DEF Adding, Submitted, InHand
<1>5. /\ client[r].at \in {"adding", "cancelled"} /\ ~Submitted(r) /\ sched.commits[r] = 0
      /\ client[r].at = "adding" => client[r].fate = "none"
      /\ client[r].life = 1 /\ sched.status[Obj(r)] = "waiting"
  BY <1>1, OrderlyFacts DEF Life
<1>6. /\ client'[r].at = IF client[r].at = "cancelled" THEN "leaving" ELSE "reading"
      /\ client'[r].life = 1 /\ client'[r].fate = client[r].fate
  BY <1>1, <1>5, OrderlyFacts DEF ClientShape, ClientRecord
<1>7. /\ sched'.requests[r] = Obj(r) /\ sched'.commits[r] = 1
      /\ \A x \in Ids \ {r} : /\ sched'.requests[x] = sched.requests[x]
                              /\ sched'.commits[x] = sched.commits[x]
  BY <1>1, <1>5, OrderlyFacts DEF SchedulerType
<1>8. Turns' /\ SubmittedOnce'
  BY <1>2, <1>3, OrderlyFacts DEF Turns, Between, Adds, Lone, SubmittedOnce
<1>9. Life(r)'  BY <1>4, <1>5, <1>6, <1>7 DEF Life
<1>10. \A x \in Ids \ {r} : Life(x)'
  BY <1>1, <1>4, <1>7, FrameLife, OrderlyFacts
<1>11. Place(r)'
  BY <1>1, <1>4, <1>5, <1>7, OrderlyFacts DEF Place, Occupies
<1>12. \A x \in Ids \ {r} : Place(x)'
  BY <1>1, <1>4, <1>7, FramePlace, OrderlyFacts
<1> QED  BY <1>1, <1>8, <1>9, <1>10, <1>11, <1>12 DEF Orderly

LEMMA AddRaisesOrderly ==
  ASSUME IInv, Orderly, OwnIds, AddRaises
  PROVE  Orderly'
<1>1. /\ UNCHANGED <<sched, jobs, loop, produced>> /\ step.at = "add" /\ Turned(step.adding[1])
      /\ step' = [step EXCEPT !.at = "free", !.adding = None]
  BY DEF AddRaises
<1>2. PICK r \in Ids : step.adding = Obj(r)
  <2>1. step.adding \in Objects  BY DEF AddRaises, IInv, Shape
  <2> QED  BY <2>1, ObjFacts
<1>3. step'.at = "free" /\ step'.adding = None /\ step'.admitting = step.admitting
  BY <1>1, OrderlyFacts DEF StepType
<1>4. \A x \in Ids : /\ ~Adding(x)' /\ (Adding(x) <=> x = r)
                     /\ (Submitted(x)' <=> Submitted(x)) /\ (InHand(x)' <=> InHand(x))
  BY <1>1, <1>2, <1>3, ObjFacts DEF Adding, Submitted, InHand
<1>5. /\ \A x \in Ids \ {r} : client'[x] = client[x]
      /\ client'[r].at = "closing" /\ client'[r].life = client[r].life
  BY <1>1, <1>2, ObjFacts, TurnedClient, OrderlyFacts
<1>6. client[r].at \in {"adding", "cancelled"} /\ ~Submitted(r) /\ sched.commits[r] = 0
  BY <1>4, OrderlyFacts DEF Life
<1>7. Turns' /\ SubmittedOnce'
  BY <1>1, <1>3, OrderlyFacts DEF Turns, Between, Adds, Lone, SubmittedOnce
<1>8. Life(r)'  BY <1>1, <1>4, <1>5, <1>6, OrderlyFacts DEF Life
<1>9. \A x \in Ids \ {r} : Life(x)'
  BY <1>1, <1>4, <1>5, FrameLife, OrderlyFacts
<1>10. \A x \in Ids : Place(x)'
  BY <1>1, <1>4, <1>5, <1>6, FramePlace, OrderlyFacts
<1> QED  BY <1>1, <1>7, <1>8, <1>9, <1>10, OrderlyFacts DEF Orderly

(* An operation of a step: no client and no admission is concerned.        *)
LEMMA OrderlyStep ==
  ASSUME IInv, Orderly, OwnIds, UNCHANGED client, Turns', SubmittedOnce',
         step.at # "add", step'.at # "add", NoDup(sched'.waiting),
         sched'.requests = sched.requests, sched'.commits = sched.commits,
         \A x \in Ids : /\ Submitted(x)' <=> Submitted(x)
                        /\ sched.commits[x] = 0 => sched'.status[Obj(x)] = sched.status[Obj(x)]
                        /\ Place(x)'
  PROVE  Orderly'
<1>1. \A x \in Ids : ~Adding(x)
  BY ObjFacts, OrderlyFacts DEF Adding, Turns
<1>2. \A x \in Ids : ~Adding(x)'
  BY ObjFacts DEF Adding, Turns
<1>3. \A x \in Ids : Life(x)'
  BY <1>1, <1>2, FrameLife, OrderlyFacts
<1> QED  BY <1>3 DEF Orderly

LEMMA SameJobs ==
  ASSUME Orderly, UNCHANGED jobs
  PROVE  /\ SubmittedOnce' /\ (Lone <=> Lone') /\ (Adds <=> Adds')
         /\ \A x \in Ids : Submitted(x)' <=> Submitted(x)
BY DEF Orderly, SubmittedOnce, Lone, Adds, Submitted

(* A job other than an admission is taken.                                 *)
LEMMA FirstOther ==
  ASSUME IInv, Orderly, OwnIds, NEW d \in {"step", "fail"}, Taking(d)
  PROVE  /\ SubmittedOnce' /\ Lone' /\ Adds' /\ loop = "awaiting" /\ produced = Nothing
         /\ step.adding = None /\ step.at = "free"
         /\ \A x \in Ids : Submitted(x)' <=> Submitted(x)
<1>1. /\ jobs \in Seq(JobType) /\ SubmittedOnce /\ Lone /\ jobs # <<>> /\ jobs[1].do = d
      /\ jobs' = Tail(jobs) /\ step.at = "free"
  BY OrderlyFacts DEF Taking, Turns
<1>2. 1 \in 1..Len(jobs) /\ 1 \in DOMAIN jobs /\ jobs[1].do # "add" /\ ~Adds  BY <1>1 DEF Adds
<1>3. /\ SubmittedOnce' /\ Lone' /\ (jobs[1].do # "add" => Adds')
      /\ \A x \in Ids : Submitted(x)' <=> Submitted(x) /\ jobs[1] # [do |-> "add", obj |-> Obj(x)]
  BY <1>1, <1>2, JobRemoved
<1>4. loop = "awaiting" /\ produced = Nothing /\ step.adding = None
  BY <1>1, <1>2, OrderlyFacts DEF Turns
<1> QED  BY <1>1, <1>2, <1>3, <1>4

LEMMA StepStartOrderly ==
  ASSUME IInv, Orderly, OwnIds, StepStart
  PROVE  Orderly'
<1>1. UNCHANGED <<client, sched, loop, produced>> /\ Taking("step")  BY DEF StepStart
<1>2. step'.at = "drain" /\ step'.adding = None /\ step'.admitting = None
  BY DEF StepStart, Free
<1>3. /\ SubmittedOnce' /\ Lone' /\ Adds' /\ loop = "awaiting" /\ produced = Nothing
      /\ step.at = "free" /\ \A x \in Ids : Submitted(x)' <=> Submitted(x)
  BY <1>1, FirstOther
<1>4. Turns'  BY <1>1, <1>2, <1>3, OrderlyFacts DEF Turns, Between
<1>5. \A x \in Ids : ~InHand(x)'  BY <1>2, ObjFacts DEF InHand
<1>6. \A x \in Ids : Place(x)'  BY <1>1, <1>5, FramePlace, OrderlyFacts
<1> QED  BY <1>1, <1>2, <1>3, <1>4, <1>6, OrderlyStep, OrderlyFacts

(* Within a step: the loop awaits, only admissions queue for the worker.   *)
LEMMA StepTurns ==
  ASSUME IInv, Orderly, OwnIds, ~Between, UNCHANGED <<jobs, loop, produced>>,
         step'.at # "add", step'.adding = step.adding,
         step'.at \in {"drain", "reconcile", "decode"} => step'.admitting = None
  PROVE  Turns' /\ loop = "awaiting" /\ produced = Nothing
<1>1. Turns /\ Lone' /\ Adds' /\ step.at # "add"
  BY OrderlyFacts, SameJobs DEF Turns, Between
<1>2. loop = "awaiting" /\ produced = Nothing  BY <1>1 DEF Turns
<1> QED  BY <1>1, <1>2 DEF Turns, Between

LEMMA DrainOrderly ==
  ASSUME IInv, Orderly, OwnIds, NEW r \in Ids, Drain(r)
  PROVE  Orderly'
<1>1. /\ UNCHANGED <<client, jobs, step, loop, produced>> /\ step.at = "drain" /\ r \in sched.pending
  BY DEF Drain
<1>2. Turns'
  <2>1. step'.at = "drain" /\ step'.admitting = None /\ step'.adding = step.adding /\ ~Between
    BY <1>1, OrderlyFacts DEF Turns, Between
  <2> QED  BY <1>1, <2>1, StepTurns
<1>3. Queued(sched, r) => sched.status[Obj(r)] = "waiting"  BY OrderlyFacts DEF Place
<1>4. /\ Kept(sched, sched')
      /\ sched'.running = [sched.running EXCEPT ![r] = None]
      /\ NoDup(sched'.waiting) /\ \A x \in Ids : Queued(sched', x) <=> Queued(sched, x) /\ x # r
      /\ \A x \in Ids \ {r} : sched'.status[Obj(x)] = sched.status[Obj(x)]
  <2> DEFINE t == AbortObject([sched EXCEPT !.pending = @ \ {r}], r, sched.requests[r])
  <2>1. Tidy(sched)  BY OrderlyFacts
  <2>2. sched' = t
    BY DEF Drain
  <2>3. /\ Kept(sched, t)
        /\ t.running = [sched.running EXCEPT ![r] = None]
        /\ NoDup(t.waiting) /\ \A x \in Ids : Queued(t, x) <=> Queued(sched, x) /\ x # r
        /\ \A x \in Ids \ {r} : t.status[Obj(x)] = sched.status[Obj(x)]
    BY <1>3, <2>1, AbortObjectEffect
  <2> HIDE DEF t
  <2> QED  BY <2>2, <2>3
<1>5. /\ sched'.running[r] = None
      /\ \A x \in Ids \ {r} : sched'.running[x] = sched.running[x]
  BY <1>4, OrderlyFacts DEF SchedulerType
<1>6. \A x \in Ids : ~InHand(x) /\ ~InHand(x)'
  BY <1>1, ObjFacts, OrderlyFacts DEF Turns, InHand
<1>7. Place(r)'  BY <1>4, <1>5, <1>6 DEF Place, Occupies
<1>8. \A x \in Ids \ {r} : Place(x)'
  BY <1>1, <1>4, <1>5, <1>6, FramePlace, OrderlyFacts DEF Kept
<1>9. sched.commits[r] # 0
  BY <1>1 DEF IInv, Good, Knows, AbortKnown, SchedulerType
<1> QED  BY <1>1, <1>2, <1>4, <1>7, <1>8, <1>9, SameJobs, OrderlyStep DEF Kept

LEMMA DrainEndOrderly ==
  ASSUME IInv, Orderly, OwnIds, DrainEnd \/ AdmitEnd
  PROVE  Orderly'
<1>1. UNCHANGED <<client, sched, jobs, loop, produced>> /\ step.at \in {"drain", "admit"}
  BY DEF DrainEnd, AdmitEnd
<1>2. /\ step'.at \in {"reconcile", "decode"} /\ step'.adding = step.adding
      /\ step'.admitting = None
  <2>1. CASE DrainEnd  BY <2>1, OrderlyFacts DEF DrainEnd, StepType, Turns
  <2>2. CASE AdmitEnd  BY <2>2, OrderlyFacts DEF AdmitEnd, StepType
  <2> QED  BY <2>1, <2>2
<1>3. Turns'  BY <1>1, <1>2, StepTurns DEF Between
<1>4. \A x \in Ids : ~InHand(x)'  BY <1>2, ObjFacts DEF InHand
<1>5. \A x \in Ids : Place(x)'  BY <1>1, <1>4, FramePlace, OrderlyFacts
<1> QED  BY <1>1, <1>2, <1>3, <1>5, SameJobs, OrderlyStep, OrderlyFacts

LEMMA ReconcileOrderly ==
  ASSUME IInv, Orderly, OwnIds, Reconcile
  PROVE  Orderly'
<1>1. UNCHANGED <<client, jobs, loop, produced>> /\ step.at = "reconcile"  BY DEF Reconcile
<1>2. step'.at = "admit" /\ step'.adding = step.adding /\ step'.admitting = step.admitting
  BY OrderlyFacts DEF Reconcile, StepType
<1>3. Turns'  BY <1>1, <1>2, StepTurns DEF Between
<1>4. /\ Kept(sched, sched') /\ sched'.waiting = sched.waiting
      /\ \A x \in Ids :
           LET reaped == x \in Reaped(sched) IN
           /\ reaped => sched.requests[x] = None /\ sched.running[x] # None
           /\ sched'.running[x] = IF reaped THEN None ELSE sched.running[x]
           /\ ~reaped => sched'.status[Obj(x)] = sched.status[Obj(x)]
  BY ReconcileEffect, OrderlyFacts
<1>5. \A x \in Ids : ~InHand(x) /\ ~InHand(x)'
  BY <1>1, <1>2, ObjFacts, OrderlyFacts DEF Turns, InHand
<1>6. \A x \in Ids : Place(x)'
  <2> SUFFICES ASSUME NEW x \in Ids  PROVE Place(x)'
    OBVIOUS
  <2>1. Queued(sched', x) <=> Queued(sched, x)  BY <1>4 DEF Queued
  <2>2. CASE x \in Reaped(sched)
    <3>1. ~Queued(sched, x)  BY <1>4, <2>2, OrderlyFacts DEF Place
    <3> QED  BY <1>4, <1>5, <2>1, <2>2, <3>1 DEF Place, Occupies
  <2>3. CASE x \notin Reaped(sched)
    BY <1>1, <1>4, <1>5, <2>1, <2>3, FramePlace, OrderlyFacts DEF Kept
  <2> QED  BY <2>2, <2>3
<1>7. \A x \in Ids : sched.commits[x] = 0 => sched'.status[Obj(x)] = sched.status[Obj(x)]
  BY <1>4, OrderlyFacts DEF Place, Occupies
<1> QED  BY <1>1, <1>2, <1>3, <1>4, <1>6, <1>7, SameJobs, OrderlyStep, OrderlyFacts DEF Kept

LEMMA AdmitOrderly ==
  ASSUME IInv, Orderly, OwnIds, NEW i \in DOMAIN sched.waiting, Admit(i)
  PROVE  Orderly'
<1>1. UNCHANGED <<client, jobs, loop, produced>> /\ step.at = "admit"  BY DEF Admit
<1>2. PICK r \in Ids :
        /\ step' = [step EXCEPT !.at = "insert", !.admitting = Obj(r)]
        /\ Queued(sched, r) /\ Tidy(sched') /\ Kept(sched, sched')
        /\ sched'.running = sched.running /\ sched'.status = sched.status
        /\ \A x \in Ids : Queued(sched', x) <=> Queued(sched, x) /\ x # r
  BY AdmitEffect, OrderlyFacts
<1>3. step'.at = "insert" /\ step'.adding = step.adding /\ step'.admitting = Obj(r)
  BY <1>2, OrderlyFacts DEF StepType
<1>4. Turns'  BY <1>1, <1>3, StepTurns DEF Between
<1>5. \A x \in Ids : InHand(x)' <=> x = r  BY <1>3, ObjFacts DEF InHand
<1>6. \A x \in Ids : Place(x)'
  <2> SUFFICES ASSUME NEW x \in Ids  PROVE Place(x)'
    OBVIOUS
  <2>1. CASE x = r
    BY <1>1, <1>2, <1>5, <2>1, OrderlyFacts DEF Place, Occupies, Kept
  <2>2. CASE x # r
    BY <1>1, <1>2, <1>5, <2>2, FramePlace, OrderlyFacts DEF Kept
  <2> QED  BY <2>1, <2>2
<1> QED  BY <1>1, <1>2, <1>3, <1>4, <1>6, SameJobs, OrderlyStep, OrderlyFacts DEF Kept, Tidy

LEMMA DeferOrderly ==
  ASSUME IInv, Orderly, OwnIds, NEW i \in DOMAIN sched.waiting, Defer(i)
  PROVE  Orderly'
<1>1. UNCHANGED <<client, jobs, loop, produced>> /\ step.at = "admit"  BY DEF Defer
<1>2. /\ step' = [step EXCEPT !.at = "decode", !.admitting = None]
      /\ Tidy(sched') /\ Kept(sched, sched')
      /\ sched'.running = sched.running /\ sched'.status = sched.status
      /\ \A x \in Ids : Queued(sched', x) <=> Queued(sched, x)
  BY DeferEffect, OrderlyFacts
<1>3. step'.at = "decode" /\ step'.adding = step.adding /\ step'.admitting = None
  BY <1>2, OrderlyFacts DEF StepType
<1>4. Turns'  BY <1>1, <1>3, StepTurns DEF Between
<1>5. \A x \in Ids : ~InHand(x)'  BY <1>3, ObjFacts DEF InHand
<1>6. \A x \in Ids : Place(x)'
  BY <1>1, <1>2, <1>5, FramePlace, OrderlyFacts DEF Kept
<1> QED  BY <1>1, <1>2, <1>3, <1>4, <1>6, SameJobs, OrderlyStep, OrderlyFacts DEF Kept, Tidy

(* The request being inserted.                                             *)
LEMMA Inserted ==
  ASSUME IInv, OwnIds, step.at = "insert"
  PROVE  \E r \in Ids : InHand(r)
<1>1. step.admitting \in Objects  BY DEF IInv, Shape
<1> QED  BY <1>1, ObjFacts DEF InHand

LEMMA InsertOrderly ==
  ASSUME IInv, Orderly, OwnIds, Insert
  PROVE  Orderly'
<1>1. /\ UNCHANGED <<client, jobs, loop, produced>> /\ step.at = "insert"
      /\ step' = [step EXCEPT !.at = "admit", !.admitting = None]
  BY DEF Insert
<1>2. PICK r \in Ids : InHand(r)  BY <1>1, Inserted
<1>3. /\ Tidy(sched') /\ sched'.requests = sched.requests /\ sched'.commits = sched.commits
      /\ sched'.waiting = sched.waiting
      /\ sched'.running = [sched.running EXCEPT ![r] = Obj(r)]
      /\ sched'.status = [sched.status EXCEPT ![Obj(r)] = "running"]
  BY <1>2, InsertEffect, OrderlyFacts
<1>4. step'.at = "admit" /\ step'.adding = step.adding /\ step'.admitting = None
  BY <1>1, OrderlyFacts DEF StepType
<1>5. Turns'  BY <1>1, <1>4, StepTurns DEF Between
<1>6. \A x \in Ids : ~InHand(x)' /\ (Queued(sched', x) <=> Queued(sched, x))
  BY <1>3, <1>4, ObjFacts DEF InHand, Queued
<1>7. /\ sched'.running[r] = Obj(r) /\ sched'.status[Obj(r)] = "running"
      /\ \A x \in Ids \ {r} : /\ sched'.running[x] = sched.running[x]
                              /\ sched'.status[Obj(x)] = sched.status[Obj(x)]
  BY <1>3, ObjFacts, OrderlyFacts DEF SchedulerType
<1>8. ~Queued(sched, r) /\ sched.commits[r] = 1  BY <1>2, OrderlyFacts DEF Place, Occupies
<1>9. Place(r)'
  <2>1. sched.requests[r] = Obj(r) \/ client[r].at = "gone"
    BY <1>8, OrderlyFacts DEF Life
  <2> QED  BY <1>1, <1>3, <1>6, <1>7, <1>8, <2>1 DEF Place, Occupies
<1>10. \A x \in Ids \ {r} : Place(x)'
  BY <1>1, <1>3, <1>6, <1>7, FramePlace, OrderlyFacts
<1> QED  BY <1>1, <1>3, <1>4, <1>5, <1>7, <1>8, <1>9, <1>10, SameJobs, OrderlyStep, OrderlyFacts
         DEF Tidy

LEMMA CorruptOrderly ==
  ASSUME IInv, Orderly, OwnIds, Corrupt
  PROVE  Orderly'
<1>1. /\ UNCHANGED <<client, jobs, loop, produced>> /\ step.at \in {"insert", "decode"}
      /\ step' = [step EXCEPT !.at = "admit", !.attempt = 1]
  BY DEF Corrupt
<1>2. /\ Tidy(sched') /\ Kept(sched, sched')
      /\ \A x \in Ids :
           /\ sched'.running[x] = None
           /\ Queued(sched', x) <=> Queued(sched, x) \/ sched.running[x] # None
           /\ sched'.status[Obj(x)] = IF sched.running[x] # None THEN "waiting" ELSE sched.status[Obj(x)]
  BY RescheduleEffect, OrderlyFacts DEF Corrupt, IInv
<1>3. step'.at = "admit" /\ step'.adding = step.adding /\ step'.admitting = step.admitting
  BY <1>1, OrderlyFacts DEF StepType
<1>4. Turns'  BY <1>1, <1>3, StepTurns DEF Between
<1>5. \A x \in Ids : InHand(x)' <=> InHand(x)  BY <1>3 DEF InHand
<1>6. \A x \in Ids : Place(x)'
  BY <1>1, <1>2, <1>5, OrderlyFacts DEF Place, Occupies, Kept
<1>7. \A x \in Ids : sched.commits[x] = 0 => sched'.status[Obj(x)] = sched.status[Obj(x)]
  BY <1>2, OrderlyFacts DEF Place, Occupies
<1> QED  BY <1>1, <1>2, <1>3, <1>4, <1>6, <1>7, SameJobs, OrderlyStep, OrderlyFacts DEF Kept, Tidy

LEMMA StepRaisesOrderly ==
  ASSUME IInv, Orderly, OwnIds, StepRaises
  PROVE  Orderly'
<1>1. /\ UNCHANGED <<client, sched, jobs, produced>> /\ step.at \in {"insert", "decode"}
      /\ step' = [step EXCEPT !.at = "free", !.attempt = 0, !.ghosts = {}] /\ loop' = "raised"
  BY DEF StepRaises
<1>2. step'.at = "free" /\ step'.adding = step.adding /\ step'.admitting = step.admitting
  BY <1>1, OrderlyFacts DEF StepType
<1>3. Turns'
  BY <1>1, <1>2, SameJobs, OrderlyFacts DEF Turns, Between
<1>4. \A x \in Ids : InHand(x)' <=> InHand(x)  BY <1>2 DEF InHand
<1>5. \A x \in Ids : Place(x)'  BY <1>1, <1>4, FramePlace, OrderlyFacts
<1> QED  BY <1>1, <1>2, <1>3, <1>5, SameJobs, OrderlyStep, OrderlyFacts

(* The ends of a step.                                                     *)
LEMMA EndTurns ==
  ASSUME IInv, Orderly, OwnIds, NEW s, NEW outs, EndStep(s, outs), ~Between,
         outs = [r \in Ids |-> outs[r]]
  PROVE  /\ Turns' /\ UNCHANGED <<client, jobs>> /\ sched' = s /\ produced' = outs
         /\ step' = Free /\ loop' = "delivering"
         /\ \A x \in Ids : ~InHand(x)'
<1>1. /\ UNCHANGED <<client, jobs>> /\ sched' = s /\ produced' = outs
      /\ step' = Free /\ loop' = "delivering"
  BY DEF EndStep
<1>2. Adds /\ Lone  BY OrderlyFacts DEF Turns
<1>3. step'.at = "free" /\ step'.adding = None /\ step'.admitting = None  BY <1>1 DEF Free
<1>4. Turns'  BY <1>1, <1>2, <1>3, SameJobs DEF Turns, Between
<1>5. \A x \in Ids : ~InHand(x)'  BY <1>3, ObjFacts DEF InHand
<1> QED  BY <1>1, <1>4, <1>5

LEMMA DecodeOrderly ==
  ASSUME IInv, Orderly, OwnIds, Decode
  PROVE  Orderly'
<1>1. PICK ends \in [Rows -> {"no", "stop", "length", "repetition"}] :
        LET Done(x) == Decoding(x) /\ ends[Obj(x)] # "no" IN
        /\ Tidy(sched') /\ sched'.requests = sched.requests /\ sched'.commits = sched.commits
        /\ sched'.waiting = sched.waiting
        /\ \A x \in Ids :
             /\ sched'.running[x] = IF Done(x) THEN None ELSE sched.running[x]
             /\ ~Done(x) => sched'.status[Obj(x)] = sched.status[Obj(x)]
        /\ produced' = [x \in Ids |-> produced'[x]]
  BY DecodeEffect, OrderlyFacts
<1>2. ~Between /\ step.at # "add"  BY DEF Decode, Between
<1>3. PICK s, outs : EndStep(s, outs)  BY DEF Decode
<1>4. produced' = outs  BY <1>3 DEF EndStep
<1>5. /\ Turns' /\ UNCHANGED <<client, jobs>> /\ step' = Free
      /\ \A x \in Ids : ~InHand(x)'
  BY <1>1, <1>2, <1>3, <1>4, EndTurns
<1>6. \A x \in Ids : Queued(sched', x) <=> Queued(sched, x)  BY <1>1 DEF Queued
<1>7. \A x \in Ids : Place(x)'
  BY <1>1, <1>5, <1>6, OrderlyFacts DEF Place, Occupies, Decoding
<1>8. \A x \in Ids : sched.commits[x] = 0 => sched'.status[Obj(x)] = sched.status[Obj(x)]
  BY <1>1, OrderlyFacts DEF Place, Occupies, Decoding
<1>9. step'.at # "add"  BY <1>5 DEF Free
<1> QED  BY <1>1, <1>2, <1>5, <1>7, <1>8, <1>9, SameJobs, OrderlyStep DEF Tidy

LEMMA DecodeNothingOrderly ==
  ASSUME IInv, Orderly, OwnIds, DecodeNothing
  PROVE  Orderly'
<1>1. /\ ~Between /\ step.at # "add" /\ EndStep([sched EXCEPT !.failures = 0], Nothing)
      /\ Nothing = [r \in Ids |-> Nothing[r]]
  BY DEF DecodeNothing, Between, Nothing
<1>2. /\ Turns' /\ UNCHANGED <<client, jobs>> /\ step' = Free
      /\ sched' = [sched EXCEPT !.failures = 0]
      /\ \A x \in Ids : ~InHand(x)'
  BY <1>1, EndTurns
<1>3. Kept(sched, sched') /\ SamePlaces(sched, sched')
  BY <1>2, OrderlyFacts DEF SchedulerType, Kept, SamePlaces
<1>4. \A x \in Ids : Place(x)'
  BY <1>2, <1>3, FramePlace, OrderlyFacts DEF Kept, SamePlaces, Queued
<1>5. step'.at # "add"  BY <1>2 DEF Free
<1> QED  BY <1>1, <1>2, <1>3, <1>4, <1>5, SameJobs, OrderlyStep, OrderlyFacts DEF Kept, SamePlaces

LEMMA FailOwnOrderly ==
  ASSUME IInv, Orderly, OwnIds, FailOwn
  PROVE  Orderly'
<1>1. step.at = "insert" /\ ~Between  BY DEF FailOwn, Between
<1> DEFINE R == {step.admitting[1]}
           t == AbortAll(sched, R)
<1>2. EndStep(t, ErrorOutputs(sched, R)) /\ ErrorOutputs(sched, R) = [r \in Ids |-> ErrorOutputs(sched, R)[r]]
  BY DEF FailOwn, ErrorOutputs
<1>3. \A x \in Ids : Queued(sched, x) => sched.status[Obj(x)] = "waiting"
  BY OrderlyFacts DEF Place
<1>4. /\ Tidy(t) /\ Kept(sched, t)
      /\ \A x \in Ids :
           /\ t.running[x] = IF x \in Taken(sched, R) THEN None ELSE sched.running[x]
           /\ t.status[Obj(x)] = IF x \in Taken(sched, R) THEN "aborted" ELSE sched.status[Obj(x)]
           /\ Queued(t, x) <=> Queued(sched, x) /\ x \notin Taken(sched, R)
  BY <1>3, AbortAllEffect, OrderlyFacts
<1>5. \A x \in Taken(sched, R) : sched.requests[x] # None /\ sched.commits[x] # 0
  BY ObjFacts DEF Taken, IInv, Good, Knows, AbortKnown, SchedulerType
<1> HIDE DEF t, R
<1>6. /\ Turns' /\ UNCHANGED <<client, jobs>> /\ step' = Free /\ sched' = t
      /\ \A x \in Ids : ~InHand(x)'
  BY <1>1, <1>2, EndTurns
<1>7. \A x \in Ids : Place(x)'
  BY <1>4, <1>6, OrderlyFacts DEF Place, Occupies, Kept
<1>8. \A x \in Ids : sched.commits[x] = 0 => sched'.status[Obj(x)] = sched.status[Obj(x)]
  BY <1>4, <1>5, <1>6
<1>9. step'.at # "add"  BY <1>6 DEF Free
<1> QED  BY <1>1, <1>4, <1>6, <1>7, <1>8, <1>9, SameJobs, OrderlyStep DEF Kept, Tidy

(* The failures of a batch, of the step or of the job that follows it.     *)
LEMMA FailSharedPlaces ==
  ASSUME IInv, Orderly, OwnIds, UNCHANGED client, sched' = FailShared(sched, step.admitting),
         \A x \in Ids : ~InHand(x)'
  PROVE  /\ Tidy(sched') /\ Kept(sched, sched')
         /\ \A x \in Ids :
              /\ Place(x)'
              /\ sched.commits[x] = 0 => sched'.status[Obj(x)] = sched.status[Obj(x)]
              /\ Occupies(x)' => Occupies(x)
              /\ x \in Failing(sched, step.admitting) => sched.commits[x] # 0 /\ ~Occupies(x)'
         /\ sched'.pending = sched.pending
<1> DEFINE F == Failing(sched, step.admitting)
<1>1. /\ Tidy(sched') /\ Kept(sched, sched') /\ sched'.pending = sched.pending
      /\ \A x \in Ids :
           /\ sched'.running[x] = None
           /\ Queued(sched', x) <=> Queued(sched, x) /\ ~(x \in F /\ sched.requests[x] = Obj(x))
           /\ x \notin F => sched'.status[Obj(x)] = sched.status[Obj(x)]
  <2>1. Tidy(sched) /\ \A x \in Ids : Settled1(sched, x)  BY OrderlyFacts
  <2> QED  BY <2>1, FailSharedEffect
<1>2. \A x \in Ids : x \in F <=> \/ sched.running[x] # None \/ InHand(x)
                                 \/ /\ Counted(sched) = FatalAfter /\ sched.requests[x] = Obj(x)
                                    /\ sched.status[Obj(x)] \in Unfinished
  <2>1. \A x \in Ids : step.admitting # None => (step.admitting[1] = x <=> InHand(x))
    BY OrderlyFacts, ObjFacts DEF StepType, ObjectOrNone, InHand
  <2>2. \A x \in Ids : InHand(x) => step.admitting # None  BY ObjFacts DEF InHand
  <2>3. \A x \in Ids : x \in UnfinishedIds(sched) <=>
                          sched.requests[x] = Obj(x) /\ sched.status[Obj(x)] \in Unfinished
    BY OrderlyFacts, ObjFacts DEF UnfinishedIds, Tidy, OwnObjects
  <2> HIDE DEF InHand
  <2> QED  BY <2>1, <2>2, <2>3 DEF Failing, Running
<1> HIDE DEF F
<1>3. \A x \in Ids : sched.requests[x] = Obj(x) => sched.commits[x] # 0
  BY ObjFacts DEF IInv, Good, Knows, AbortKnown, SchedulerType
<1>4. \A x \in Ids : sched.commits[x] = 0 => sched'.status[Obj(x)] = sched.status[Obj(x)]
  BY <1>1, <1>2, <1>3, OrderlyFacts DEF Place, Occupies
<1>5. \A x \in Ids : Place(x)'
  <2> SUFFICES ASSUME NEW x \in Ids  PROVE Place(x)'
    OBVIOUS
  <2>1. CASE Queued(sched', x)
    <3>1. Queued(sched, x) /\ x \notin F  BY <1>1, <1>2, <2>1, OrderlyFacts DEF Place
    <3> QED  BY <1>1, <2>1, <3>1, OrderlyFacts DEF Place, Occupies, Kept
  <2>2. CASE ~Queued(sched', x)
    BY <1>1, <2>2, OrderlyFacts DEF Place, Occupies
  <2> QED  BY <2>1, <2>2
<1>6. \A x \in Ids : /\ Occupies(x)' => Occupies(x)
                     /\ x \in F => sched.commits[x] # 0 /\ ~Occupies(x)'
  <2> SUFFICES ASSUME NEW x \in Ids
               PROVE  /\ Occupies(x)' => Occupies(x)
                      /\ x \in F => sched.commits[x] # 0 /\ ~Occupies(x)'
    OBVIOUS
  <2>1. Occupies(x)' => Queued(sched, x) /\ ~(x \in F /\ sched.requests[x] = Obj(x))
    BY <1>1 DEF Occupies
  <2>2. Queued(sched, x) /\ x \in F => sched.requests[x] = Obj(x)
    BY <1>2, OrderlyFacts DEF Place
  <2>3. x \in F => sched.commits[x] # 0
    BY <1>2, <1>3, OrderlyFacts DEF Place, Occupies
  <2> QED  BY <2>1, <2>2, <2>3 DEF Occupies
<1>7. \A x \in Ids : x \in Failing(sched, step.admitting) => sched.commits[x] # 0 /\ ~Occupies(x)'
  BY <1>6 DEF F
<1> QED  BY <1>1, <1>4, <1>5, <1>6, <1>7

LEMMA FailStepOrderly ==
  ASSUME IInv, Orderly, OwnIds, FailStep
  PROVE  Orderly'
<1> DEFINE t == FailShared(sched, step.admitting)
           F == Failing(sched, step.admitting)
<1>1. /\ ~Between /\ step.at # "add" /\ EndStep(t, ErrorOutputs(sched, F))
      /\ ErrorOutputs(sched, F) = [r \in Ids |-> ErrorOutputs(sched, F)[r]]
  BY DEF FailStep, Between, ErrorOutputs
<1> HIDE DEF F
<1>2. /\ Turns' /\ UNCHANGED <<client, jobs>> /\ step' = Free /\ sched' = t
      /\ \A x \in Ids : ~InHand(x)'
  BY <1>1, EndTurns
<1>3. /\ Tidy(sched') /\ Kept(sched, sched')
      /\ \A x \in Ids :
           /\ Place(x)'
           /\ sched.commits[x] = 0 => sched'.status[Obj(x)] = sched.status[Obj(x)]
  BY <1>2, FailSharedPlaces
<1>4. step'.at # "add"  BY <1>2 DEF Free
<1> QED  BY <1>1, <1>2, <1>3, <1>4, SameJobs, OrderlyStep DEF Kept, Tidy

LEMMA FailJobOrderly ==
  ASSUME IInv, Orderly, OwnIds, FailJob
  PROVE  Orderly'
<1>1. UNCHANGED client /\ Taking("fail")  BY DEF FailJob
<1>2. /\ SubmittedOnce' /\ Lone' /\ Adds' /\ loop = "awaiting" /\ produced = Nothing
      /\ step.adding = None /\ step.at = "free"
      /\ \A x \in Ids : Submitted(x)' <=> Submitted(x)
  BY <1>1, FirstOther
<1>3. CASE /\ sched' = FailShared(sched, step.admitting)
           /\ produced' = ErrorOutputs(sched, Failing(sched, step.admitting))
           /\ loop' = "failed"
           /\ step' = [step EXCEPT !.admitting = None]
  <2>1. step'.at = "free" /\ step'.adding = None /\ step'.admitting = None
    BY <1>2, <1>3, OrderlyFacts DEF StepType
  <2>2. \A x \in Ids : ~InHand(x)'  BY <2>1, ObjFacts DEF InHand
  <2>3. produced' = [r \in Ids |-> produced'[r]]  BY <1>3 DEF ErrorOutputs
  <2>4. Turns'  BY <1>2, <1>3, <2>1, <2>3 DEF Turns, Between
  <2>5. /\ Tidy(sched') /\ Kept(sched, sched')
        /\ \A x \in Ids :
             /\ Place(x)'
             /\ sched.commits[x] = 0 => sched'.status[Obj(x)] = sched.status[Obj(x)]
    BY <1>1, <1>3, <2>2, FailSharedPlaces
  <2> QED  BY <1>1, <1>2, <2>1, <2>4, <2>5, OrderlyStep DEF Kept, Tidy
<1>4. CASE /\ sched' = [sched EXCEPT !.failures = Counted(sched)]
           /\ loop' = "unrecovered" /\ UNCHANGED <<produced, step>>
  <2>1. Turns'  BY <1>2, <1>4, OrderlyFacts DEF Turns, Between
  <2>2. Kept(sched, sched') /\ SamePlaces(sched, sched')
    BY <1>4, OrderlyFacts DEF SchedulerType, Kept, SamePlaces
  <2>3. \A x \in Ids : Place(x)'
    BY <1>1, <1>4, <2>2, FramePlace, OrderlyFacts DEF Kept, SamePlaces, Queued, InHand
  <2> QED  BY <1>1, <1>2, <1>4, <2>1, <2>2, <2>3, OrderlyStep, OrderlyFacts DEF Kept, SamePlaces
<1> QED  BY <1>3, <1>4 DEF FailJob

LEMMA OrderlyPreserved ==
  ASSUME OwnIds, IInv, Orderly, [Next]_vars
  PROVE  Orderly'
<1>1. CASE UNCHANGED vars
  <2>1. UNCHANGED <<client, stream, sched, jobs, step, loop, produced, paused>>  BY <1>1 DEF vars
  <2>2. Turns'  BY <2>1, OrderlyFacts DEF Turns, Between, Adds, Lone
  <2>3. \A x \in Ids : Life(x)'
    BY <2>1, FrameLife, OrderlyFacts DEF Adding, Submitted
  <2> QED  BY <2>1, <2>2, <2>3, OrderlyFrame
<1>2. CASE Pause \/ Loop  BY <1>2, EngineLoopOrderly
<1>3. ASSUME NEW r \in Ids, Client(r)  PROVE Orderly'
  BY <1>3, ReaderOrderly, AbortsOrderly, CleanupOrderly DEF Client
<1>4. ASSUME NEW r \in Ids, Outside(r)  PROVE Orderly'
  BY <1>4, SubmitOrderly, WithdrawOrderly, ReaderOrderly, AbortsOrderly DEF Outside
<1>5. CASE Worker
  <2>1. CASE AddRefused \/ AddStart \/ AddCommit \/ AddRaises
    BY <2>1, AddRefusedOrderly, AddStartOrderly, AddCommitOrderly, AddRaisesOrderly
  <2>2. CASE StepStart \/ Reconcile \/ Insert \/ Decode
    BY <2>2, StepStartOrderly, ReconcileOrderly, InsertOrderly, DecodeOrderly
  <2>3. CASE DrainEnd \/ AdmitEnd \/ StepRaises \/ DecodeNothing \/ FailOwn \/ FailStep
    BY <2>3, DrainEndOrderly, StepRaisesOrderly, DecodeNothingOrderly, FailOwnOrderly, FailStepOrderly
  <2>4. CASE Corrupt \/ FailJob
    BY <2>4, CorruptOrderly, FailJobOrderly
  <2>5. ASSUME NEW r \in Ids, Drain(r)  PROVE Orderly'
    BY <2>5, DrainOrderly
  <2>6. ASSUME NEW i \in DOMAIN sched.waiting, Admit(i) \/ Defer(i)  PROVE Orderly'
    BY <2>6, AdmitOrderly, DeferOrderly
  <2> QED  BY <1>5, <2>1, <2>2, <2>3, <2>4, <2>5, <2>6 DEF Worker
<1> QED  BY <1>1, <1>2, <1>3, <1>4, <1>5 DEF Next

-----------------------------------------------------------------------------
(* What occupies the scheduler has an owner.                               *)
LEMMA FrameOwned ==
  ASSUME NEW x \in Ids, Owned(x), stream'[x] = stream[x], produced'[x] \in {produced[x], None},
         Occupies(x)' => Occupies(x), x \in sched.pending => x \in sched'.pending,
         sched'.requests[x] = sched.requests[x], sched'.commits[x] = sched.commits[x],
         client'[x].at = "leaving" => client[x].at = "leaving" \/ ~Occupies(x)
  PROVE  Owned(x)'
BY DEF Owned, Settled

LEMMA OwningFacts ==
  ASSUME IInv, Orderly, Owning, OwnIds
  PROVE  /\ StreamShape(stream) /\ NoLost /\ FailuresFinish /\ NoGhosts
         /\ \A x \in Ids : /\ Owned(x)
                           /\ stream[x].event \in BOOLEAN
                           /\ Occupies(x) => AbortKnown(sched, x)
<1>1. \A x \in Ids : Occupies(x) => AbortKnown(sched, x)
  BY ObjFacts DEF Owning, Owned, AbortKnown
<1>2. \A x \in Ids : stream[x].event \in BOOLEAN
  BY DEF Owning, StreamShape, StreamRecord
<1> QED  BY <1>1, <1>2 DEF Owning

(* No client, no stream and no abort is concerned: nothing new occupies    *)
(* the scheduler, and what gets its last output has left it.               *)
LEMMA OwningStep ==
  ASSUME IInv, Orderly, Owning, OwnIds, UNCHANGED <<client, stream>>,
         sched'.requests = sched.requests, sched'.commits = sched.commits,
         NoLost', FailuresFinish', NoGhosts',
         \A x \in Ids : /\ Occupies(x)' => Occupies(x)
                        /\ x \in sched.pending /\ Occupies(x)' => x \in sched'.pending
                        /\ \/ produced'[x] \in {produced[x], None}
                           \/ /\ sched.commits[x] # 0
                              /\ Finished(produced'[x]) => ~Occupies(x)'
  PROVE  Owning'
<1>1. \A x \in Ids : Owned(x)'
  BY OwningFacts DEF Owned, Settled
<1> QED  BY <1>1 DEF Owning, StreamShape

LEMMA GhostsKept ==
  ASSUME Owning, ~Between, step.at # "drain", step'.ghosts \in {step.ghosts, {}},
         step'.at \in {"free", "add"} => step'.ghosts = {},
         \A x \in Ids : Occupies(x)' => Occupies(x)
  PROVE  NoGhosts'
BY DEF Owning, NoGhosts, Between

LEMMA OwningInit == OwnIds /\ Init => Owning
<1> SUFFICES ASSUME OwnIds, Init  PROVE Owning
  OBVIOUS
<1>1. StreamShape(stream)
  <2>1. StreamRecord(Fresh)  BY DEF StreamRecord, Fresh
  <2> QED  BY <2>1 DEF Init, StreamShape
<1>2. NoLost /\ FailuresFinish  BY DEF Init, NoLost, FailuresFinish, FailQueued
<1>3. step.ghosts = {}  BY DEF Init, Free
<1>4. \A r \in Ids : ~Occupies(r)
  <2>1. Orderly  BY OrderlyInit
  <2>2. \A r \in Ids : sched.commits[r] = 0  BY DEF Init, Zeros
  <2> QED  BY <2>1, <2>2 DEF Orderly, Place
<1>5. \A r \in Ids : Owned(r)
  BY <1>4 DEF Init, Owned, Fresh, Nothing
<1> QED  BY <1>1, <1>2, <1>3, <1>4, <1>5 DEF Owning, NoGhosts

LEMMA StreamStep ==
  ASSUME StreamShape(stream), NEW r \in Ids, NEW s, StreamRecord(s),
         stream' = [stream EXCEPT ![r] = s]
  PROVE  /\ StreamShape(stream') /\ stream'[r] = s
         /\ \A x \in Ids \ {r} : stream'[x] = stream[x]
<1>1. /\ stream'[r] = s /\ \A x \in Ids \ {r} : stream'[x] = stream[x]
      /\ stream' = [x \in Ids |-> stream'[x]]
  BY DEF StreamShape
<1>2. \A x \in Ids : StreamRecord(stream'[x])
  BY <1>1 DEF StreamShape
<1> QED  BY <1>1, <1>2 DEF StreamShape

LEMMA StreamOut ==
  ASSUME NEW s, StreamRecord(s), NEW v
  PROVE  LET d == [s EXCEPT !.out = v]
         IN  /\ StreamRecord(d) /\ d.out = v /\ d.buf = s.buf /\ d.sent = s.sent /\ d.event = s.event
             /\ s.event \in BOOLEAN
<1>0. PICK out, buf, sent : \E event \in BOOLEAN :
        s = [out |-> out, buf |-> buf, sent |-> sent, event |-> event]
  BY DEF StreamRecord
<1>1. PICK event \in BOOLEAN :
        s = [out |-> out, buf |-> buf, sent |-> sent, event |-> event]
  BY <1>0
<1>2. [s EXCEPT !.out = v] = [out |-> v, buf |-> buf, sent |-> sent, event |-> event]
  BY <1>1
<1>3. StreamRecord([out |-> v, buf |-> buf, sent |-> sent, event |-> event])
  BY Zenon DEF StreamRecord
<1> QED  BY <1>1, <1>2, <1>3

LEMMA StreamBuf ==
  ASSUME NEW s, StreamRecord(s), NEW v
  PROVE  LET d == [s EXCEPT !.buf = v]
         IN  /\ StreamRecord(d) /\ d.buf = v /\ d.out = s.out /\ d.sent = s.sent /\ d.event = s.event
             /\ s.event \in BOOLEAN
<1>0. PICK out, buf, sent : \E event \in BOOLEAN :
        s = [out |-> out, buf |-> buf, sent |-> sent, event |-> event]
  BY DEF StreamRecord
<1>1. PICK event \in BOOLEAN :
        s = [out |-> out, buf |-> buf, sent |-> sent, event |-> event]
  BY <1>0
<1>2. [s EXCEPT !.buf = v] = [out |-> out, buf |-> v, sent |-> sent, event |-> event]
  BY <1>1
<1>3. StreamRecord([out |-> out, buf |-> v, sent |-> sent, event |-> event])
  BY Zenon DEF StreamRecord
<1> QED  BY <1>1, <1>2, <1>3

LEMMA StreamEvent ==
  ASSUME NEW s, StreamRecord(s), NEW v \in BOOLEAN
  PROVE  LET d == [s EXCEPT !.event = v]
         IN  /\ StreamRecord(d) /\ d.event = v /\ d.out = s.out /\ d.buf = s.buf /\ d.sent = s.sent
             /\ s.event \in BOOLEAN
<1>0. PICK out, buf, sent : \E event \in BOOLEAN :
        s = [out |-> out, buf |-> buf, sent |-> sent, event |-> event]
  BY DEF StreamRecord
<1>1. PICK event \in BOOLEAN :
        s = [out |-> out, buf |-> buf, sent |-> sent, event |-> event]
  BY <1>0
<1>2. [s EXCEPT !.event = v] = [out |-> out, buf |-> buf, sent |-> sent, event |-> v]
  BY <1>1
<1>3. StreamRecord([out |-> out, buf |-> buf, sent |-> sent, event |-> v])
  BY Zenon DEF StreamRecord
<1> QED  BY <1>1, <1>2, <1>3

LEMMA SubmitOwning ==
  ASSUME IInv, Orderly, Owning, OwnIds, NEW r \in Ids, Submit(r)
  PROVE  Owning'
<1>1. client[r].at = "idle" /\ sched.commits[r] = 0 /\ ~Occupies(r)
  BY OrderlyFacts DEF Submit, OwnIds, Life, Place
<1>2. StreamRecord(Fresh)  BY DEF StreamRecord, Fresh
<1>3. /\ StreamShape(stream') /\ stream'[r] = Fresh
      /\ \A x \in Ids \ {r} : stream'[x] = stream[x]
  BY <1>2, StreamStep, OwningFacts DEF Submit
<1>4. /\ UNCHANGED <<sched, step, loop, produced>>
      /\ \A x \in Ids \ {r} : client'[x] = client[x]
  BY OrderlyFacts DEF Submit, ClientShape
<1>5. \A x \in Ids : Occupies(x)' <=> Occupies(x)  BY <1>4 DEF Occupies, InHand
<1>6. FailQueued' => FailQueued
  <2>1. \E o : jobs' = Append(jobs, [do |-> "add", obj |-> o])  BY DEF Submit
  <2>2. PICK o : jobs' = Append(jobs, [do |-> "add", obj |-> o])  BY <2>1
  <2>3. /\ Len(jobs) \in Nat /\ DOMAIN jobs = 1..Len(jobs) /\ DOMAIN jobs' = 1..(Len(jobs) + 1)
        /\ \A k \in 1..Len(jobs) : jobs'[k] = jobs[k]
        /\ jobs'[Len(jobs) + 1] = [do |-> "add", obj |-> o]
    BY <2>2, OrderlyFacts
  <2>4. \A k \in DOMAIN jobs' : k = Len(jobs) + 1 \/ k \in DOMAIN jobs
    BY <2>3
  <2> QED  BY <2>3, <2>4 DEF FailQueued
<1>7. NoLost' /\ FailuresFinish' /\ NoGhosts'
  BY <1>4, <1>5, <1>6, OwningFacts DEF NoLost, FailuresFinish, NoGhosts, Between
<1>8. Owned(r)'  BY <1>1, <1>3, <1>4, <1>5, OwningFacts DEF Owned, Fresh
<1>9. \A x \in Ids \ {r} : Owned(x)'
  BY <1>3, <1>4, <1>5, FrameOwned, OwningFacts
<1> QED  BY <1>3, <1>7, <1>8, <1>9 DEF Owning

(* Clients, collectors and aborts: r moves, the scheduler keeps its        *)
(* requests where they are.                                                *)
LEMMA OwningClient ==
  ASSUME IInv, Orderly, Owning, OwnIds, NEW r \in Ids, UNCHANGED <<jobs, step, loop, produced>>,
         SamePlaces(sched, sched'), Kept(sched, sched'), sched.pending \subseteq sched'.pending,
         StreamShape(stream'),
         \A x \in Ids \ {r} : client'[x] = client[x] /\ stream'[x] = stream[x],
         stream'[r].out # None /\ Finished(stream'[r].out) => stream'[r].event,
         sched.commits[r] = 0 => ~stream'[r].event,
         /\ Occupies(r)
         /\ \/ stream'[r].event /\ ~stream[r].event
            \/ client'[r].at = "leaving" /\ client[r].at # "leaving"
         => Settled(r) \/ r \in sched'.pending
  PROVE  Owning'
<1>1. \A x \in Ids : Queued(sched', x) <=> Queued(sched, x)  BY DEF SamePlaces, Queued
<1>2. \A x \in Ids : Occupies(x)' <=> Occupies(x)  BY <1>1 DEF Occupies, InHand, SamePlaces
<1>3. \A x \in Ids : x \in sched.pending => x \in sched'.pending  OBVIOUS
<1>4. NoLost' /\ FailuresFinish' /\ NoGhosts'
  BY <1>2, <1>3, OwningFacts DEF NoLost, FailuresFinish, FailQueued, NoGhosts, Between
<1>5. Owned(r)'
  BY <1>2, <1>3, OwningFacts DEF Owned, Settled, Kept
<1>6. \A x \in Ids \ {r} : Owned(x)'
  BY <1>2, <1>3, FrameOwned, OwningFacts DEF Kept
<1> QED  BY <1>4, <1>5, <1>6 DEF Owning

LEMMA WithdrawOwning ==
  ASSUME IInv, Orderly, Owning, OwnIds, NEW r \in Ids, Withdraw(r)
  PROVE  Owning'
<1>1. /\ UNCHANGED <<stream, sched, step, loop, produced>> /\ client[r].at = "adding"
      /\ \A x \in Ids \ {r} : client'[x] = client[x]
  BY OrderlyFacts DEF Withdraw, ClientShape
<1>2. sched.commits[r] = 0 /\ ~Occupies(r)  BY <1>1, OrderlyFacts DEF Life, Place
<1>3. \A x \in Ids : Occupies(x)' <=> Occupies(x)  BY <1>1 DEF Occupies, InHand
<1>4. FailQueued' => FailQueued
  <2>1. CASE \E i \in DOMAIN jobs : jobs' = RemoveAt(jobs, i)
    <3>1. PICK i \in 1..Len(jobs) : jobs' = RemoveAt(jobs, i)  BY <2>1, OrderlyFacts
    <3>2. jobs \in Seq(JobType) /\ SubmittedOnce /\ Lone  BY OrderlyFacts DEF Turns
    <3> QED  BY <3>1, <3>2, JobRemoved
  <2>2. CASE UNCHANGED jobs  BY <2>2 DEF FailQueued
  <2> QED  BY <2>1, <2>2 DEF Withdraw
<1>5. NoLost' /\ FailuresFinish' /\ NoGhosts'
  BY <1>1, <1>3, <1>4, OwningFacts DEF NoLost, FailuresFinish, NoGhosts, Between
<1>6. \A x \in Ids : Owned(x)'
  BY <1>1, <1>2, <1>3, FrameOwned, OwningFacts
<1> QED  BY <1>1, <1>5, <1>6, OwningFacts DEF Owning

LEMMA ReaderOwning ==
  ASSUME IInv, Orderly, Owning, OwnIds, NEW r \in Ids, Read(r) \/ Return(r) \/ Disconnect(r)
  PROVE  Owning'
<1>1. /\ UNCHANGED <<sched, jobs, step, loop, produced>>
      /\ \A x \in Ids \ {r} : client'[x] = client[x]
      /\ client[r].at = "reading"
  BY OrderlyFacts DEF Read, Return, Disconnect, ClientShape
<1>2. Kept(sched, sched') /\ SamePlaces(sched, sched') /\ sched.pending \subseteq sched'.pending
  BY <1>1 DEF Kept, SamePlaces
<1>3. CASE Read(r) \/ Return(r)
  <2>1. stream' = [stream EXCEPT ![r] = [stream[r] EXCEPT !.out = None]]
    BY <1>3 DEF Read, Return
  <2>2. StreamRecord(stream[r])  BY OwningFacts DEF StreamShape
  <2> DEFINE s == [stream[r] EXCEPT !.out = None]
  <2>3. StreamRecord(s) /\ s.out = None /\ s.event = stream[r].event
    BY <2>2, StreamOut
  <2> HIDE DEF s
  <2>4. /\ StreamShape(stream') /\ stream'[r] = s
        /\ \A x \in Ids \ {r} : stream'[x] = stream[x]
    BY <2>1, <2>3, StreamStep, OwningFacts DEF s
  <2>5. client'[r].at = "leaving" => stream[r].event
    <3>1. CASE Return(r)  BY <3>1 DEF Return
    <3>2. CASE Read(r)
      <4>1. Finished(stream[r].out) => stream[r].event
        BY <3>2, OwningFacts DEF Owned, Read
      <4>2. client'[r].at = "leaving" => Finished(stream[r].out)
        BY <1>1, <3>2, OrderlyFacts DEF Read, ClientShape, ClientRecord
      <4> QED  BY <4>1, <4>2
    <3> QED  BY <1>3, <3>1, <3>2
  <2>6. sched.commits[r] = 0 => ~stream'[r].event  BY <2>3, <2>4, OwningFacts DEF Owned
  <2>7. client'[r].at = "leaving" => Settled(r)  BY <2>5 DEF Settled
  <2> QED  BY <1>1, <1>2, <2>3, <2>4, <2>6, <2>7, OwningClient
<1>4. CASE Disconnect(r)
  <2>1. UNCHANGED stream /\ client'[r].at = "closing"
    BY <1>4, OrderlyFacts DEF Disconnect, ClientShape, ClientRecord
  <2>2. /\ StreamShape(stream') /\ \A x \in Ids : stream'[x] = stream[x]
        /\ stream'[r].out # None /\ Finished(stream'[r].out) => stream'[r].event
        /\ sched.commits[r] = 0 => ~stream'[r].event
    BY <2>1, OwningFacts DEF Owned
  <2> QED  BY <1>1, <1>2, <2>1, <2>2, OwningClient
<1> QED  BY <1>3, <1>4

LEMMA AbortsOwning ==
  ASSUME IInv, Orderly, Owning, OwnIds, NEW r \in Ids,
         ForceAbort(r) \/ RecordDisconnect(r) \/ Finally(r) \/ CancelRequest(r)
  PROVE  Owning'
<1>1. {r} \in SUBSET Ids  OBVIOUS
<1>2. /\ UNCHANGED <<jobs, step, loop, produced>>
      /\ \A x \in Ids \ {r} : client'[x] = client[x]
  BY OrderlyFacts DEF ForceAbort, RecordDisconnect, Finally, CancelRequest, ClientShape
<1>3. Kept(sched, Enqueue(sched, {r})) /\ SamePlaces(sched, Enqueue(sched, {r}))
      /\ Enqueue(sched, {r}).pending = sched.pending \cup {x \in {r} : AbortKnown(sched, x)}
  BY <1>1, EnqueueEffect, OrderlyFacts
<1>4. CASE RecordDisconnect(r)
  <2>1. /\ Kept(sched, sched') /\ SamePlaces(sched, sched') /\ sched'.pending = sched.pending
        /\ UNCHANGED <<client, stream>>
    BY <1>4, AttributeEffect, OrderlyFacts DEF RecordDisconnect
  <2>2. /\ StreamShape(stream') /\ \A x \in Ids : stream'[x] = stream[x]
        /\ stream'[r].out # None /\ Finished(stream'[r].out) => stream'[r].event
        /\ sched.commits[r] = 0 => ~stream'[r].event
    BY <2>1, OwningFacts DEF Owned
  <2> QED  BY <1>2, <2>1, <2>2, OwningClient
<1>5. CASE ForceAbort(r) \/ Finally(r)
  <2>1. UNCHANGED stream /\ sched' = Enqueue(sched, {r})  BY <1>5 DEF ForceAbort, Finally
  <2>2. Occupies(r) => r \in sched'.pending  BY <1>3, <2>1, OwningFacts
  <2>3. /\ StreamShape(stream') /\ \A x \in Ids : stream'[x] = stream[x]
        /\ stream'[r].out # None /\ Finished(stream'[r].out) => stream'[r].event
        /\ sched.commits[r] = 0 => ~stream'[r].event
    BY <2>1, OwningFacts DEF Owned
  <2>4. Kept(sched, sched') /\ SamePlaces(sched, sched') /\ sched.pending \subseteq sched'.pending
    BY <1>3, <2>1
  <2> QED  BY <1>2, <2>2, <2>3, <2>4, OwningClient
<1>6. CASE CancelRequest(r)
  <2>1. /\ sched' = Enqueue(sched, {r}) /\ AbortKnown(sched, r) /\ UNCHANGED client
        /\ \/ \E e \in {"none", "failure"} :
                stream' = [stream EXCEPT ![r].out = Put(@, Out(0, 0, "cancelled", e)),
                                         ![r].event = TRUE]
           \/ UNCHANGED stream
    BY <1>6 DEF CancelRequest
  <2>2. r \in sched'.pending /\ sched.commits[r] # 0
    <3>1. r \in sched'.pending  BY <1>3, <2>1
    <3>2. sched.commits[r] > 0 /\ sched.commits[r] \in Nat
      BY <2>1 DEF IInv, Good, Knows, SchedulerType
    <3> QED  BY <3>1, <3>2
  <2>3. /\ StreamShape(stream') /\ \A x \in Ids \ {r} : stream'[x] = stream[x]
        /\ stream'[r].out # None /\ Finished(stream'[r].out) => stream'[r].event
    <3>1. CASE UNCHANGED stream  BY <3>1, OwningFacts DEF Owned
    <3>2. CASE \E e \in {"none", "failure"} :
                 stream' = [stream EXCEPT ![r].out = Put(@, Out(0, 0, "cancelled", e)),
                                          ![r].event = TRUE]
      <4>1. PICK o : stream' = [stream EXCEPT ![r] = [stream[r] EXCEPT !.out = o, !.event = TRUE]]
        BY <3>2, OwningFacts DEF StreamShape
      <4> DEFINE d == [stream[r] EXCEPT !.out = o]
                 s == [d EXCEPT !.event = TRUE]
      <4>2. stream' = [stream EXCEPT ![r] = s]  BY <4>1
      <4>3. StreamRecord(d)  BY StreamOut, OwningFacts DEF StreamShape
      <4> HIDE DEF d
      <4>4. StreamRecord(s) /\ s.event = TRUE  BY <4>3, StreamEvent
      <4> HIDE DEF s
      <4>5. /\ StreamShape(stream') /\ stream'[r] = s
            /\ \A x \in Ids \ {r} : stream'[x] = stream[x]
        BY <4>2, <4>4, StreamStep, OwningFacts
      <4> QED  BY <4>4, <4>5
    <3> QED  BY <2>1, <3>1, <3>2
  <2>4. Kept(sched, sched') /\ SamePlaces(sched, sched') /\ sched.pending \subseteq sched'.pending
    BY <1>3, <2>1
  <2> QED  BY <1>2, <2>2, <2>3, <2>4, OwningClient
<1> QED  BY <1>4, <1>5, <1>6

LEMMA CleanupOwning ==
  ASSUME IInv, Orderly, Owning, OwnIds, NEW r \in Ids, Cleanup(r)
  PROVE  Owning'
<1>1. /\ UNCHANGED <<jobs, step, loop, produced>> /\ client[r].at = "leaving"
      /\ client' = [client EXCEPT ![r] = [client[r] EXCEPT !.at = "gone"]]
  BY DEF Cleanup
<1>2. /\ sched'.requests = [sched.requests EXCEPT ![r] = None] /\ sched'.commits = sched.commits
      /\ sched'.waiting = sched.waiting /\ sched'.running = sched.running
      /\ sched'.pending = sched.pending
  BY RemoveEffect, OrderlyFacts DEF Cleanup
<1>3. StreamRecord(Fresh)  BY DEF StreamRecord, Fresh
<1>4. /\ StreamShape(stream') /\ stream'[r] = Fresh
      /\ \A x \in Ids \ {r} : stream'[x] = stream[x]
  BY <1>3, StreamStep, OwningFacts DEF Cleanup
<1>5. \A x \in Ids : Occupies(x)' <=> Occupies(x)
  BY <1>1, <1>2 DEF Occupies, InHand, Queued
<1>6. Occupies(r) => r \in sched.pending  BY <1>1, OwningFacts DEF Owned, Settled
<1>7. Owned(r)'  BY <1>1, <1>2, <1>4, <1>5, <1>6, OwningFacts DEF Owned, Fresh
<1>8. \A x \in Ids \ {r} : /\ client'[x] = client[x]
                           /\ sched'.requests[x] = sched.requests[x]
  BY <1>1, <1>2, OrderlyFacts DEF ClientShape, SchedulerType
<1>9. \A x \in Ids \ {r} : Owned(x)'
  BY <1>1, <1>2, <1>4, <1>5, <1>8, FrameOwned, OwningFacts
<1>10. NoLost' /\ FailuresFinish' /\ NoGhosts'
  BY <1>1, <1>2, <1>5, OwningFacts DEF NoLost, FailuresFinish, FailQueued, NoGhosts, Between
<1> QED  BY <1>4, <1>7, <1>9, <1>10 DEF Owning

LEMMA PutFinishes ==
  ASSUME NEW a, NEW b
  PROVE  /\ Finished(Put(a, b)) <=> Finished(b)
         /\ Finished(MergeStreamBuffer(a, b)) <=> Finished(b)
BY DEF Put, MergeOutputs, MergeStreamBuffer, Out, Finished

LEMMA DeliveredFacts ==
  ASSUME NEW s, StreamRecord(s), NEW o
  PROVE  LET d == Delivered(s, o)
         IN  /\ StreamRecord(d) /\ (d.event <=> s.event \/ Finished(o)) /\ s.event \in BOOLEAN
             /\ d.out = s.out \/ (Finished(d.out) <=> Finished(o))
<1> DEFINE merged == IF Interval = 1 THEN o ELSE MergeStreamBuffer(s.buf, o)
           ended == s.event \/ Finished(o)
           now == IF Interval = 1 THEN 0 ELSE o.total
           p == Put(s.out, merged)
           d1 == [out |-> p, buf |-> None, event |-> ended, sent |-> now]
           d2 == [s EXCEPT !.buf = merged]
           d3 == [d2 EXCEPT !.event = ended]
<1>1. Delivered(s, o) = d1 \/ Delivered(s, o) = d3
  BY DEF Delivered
<1>2. Finished(p) <=> Finished(o)  BY PutFinishes
<1>3. s.event \in BOOLEAN  BY StreamOut
<1>4. ended \in BOOLEAN  BY <1>3 DEF Finished
<1>5. ended <=> s.event \/ Finished(o)  OBVIOUS
<1> HIDE DEF merged, ended, now, p
<1>6. StreamRecord(d2) /\ d2.out = s.out  BY <1>3, StreamBuf
<1> HIDE DEF d2
<1>7. StreamRecord(d3) /\ d3.out = s.out /\ d3.event = ended  BY <1>4, <1>6, StreamEvent
<1> HIDE DEF d3
<1>8. StreamRecord(d1) /\ d1.out = p /\ d1.event = ended
  <2>1. d1 = [out |-> p, buf |-> None, sent |-> now, event |-> ended]  OBVIOUS
  <2>2. d1.out = p /\ d1.event = ended  OBVIOUS
  <2> HIDE DEF d1
  <2> QED  BY <1>4, <2>1, <2>2, Zenon DEF StreamRecord
<1> HIDE DEF d1
<1> QED  BY <1>1, <1>2, <1>3, <1>5, <1>7, <1>8

LEMMA AnsweredFacts ==
  ASSUME NEW s, StreamRecord(s), NEW o
  PROVE  LET d == Answered(s, o)
         IN  /\ StreamRecord(d) /\ d.event = TRUE /\ d.out = Put(s.out, o) /\ d.buf = None
             /\ d.sent = s.sent /\ (Finished(d.out) <=> Finished(o))
<1> DEFINE p == Put(s.out, o)
           d1 == [s EXCEPT !.buf = None]
           d2 == [d1 EXCEPT !.event = TRUE]
           d3 == [d2 EXCEPT !.out = p]
<1>1. Finished(p) <=> Finished(o)  BY PutFinishes
<1>2. Answered(s, o) = [d2 EXCEPT !.out = Put(@, o)]  BY DEF Answered
<1>3. StreamRecord(d1) /\ d1.out = s.out /\ d1.buf = None /\ d1.sent = s.sent
  BY StreamBuf
<1> HIDE DEF d1
<1>4. StreamRecord(d2) /\ d2.out = s.out /\ d2.buf = None /\ d2.sent = s.sent /\ d2.event = TRUE
  BY <1>3, StreamEvent
<1> HIDE DEF d2
<1>5. Answered(s, o) = d3  BY <1>2, <1>4
<1> HIDE DEF p
<1>6. /\ StreamRecord(d3) /\ d3.out = p /\ d3.buf = None /\ d3.sent = s.sent /\ d3.event = TRUE
  BY <1>4, StreamOut
<1> HIDE DEF d3
<1>7. p = Put(s.out, o)  BY DEF p
<1> QED  BY <1>1, <1>5, <1>6, <1>7

LEMMA EngineLoopOwning ==
  ASSUME IInv, Orderly, Owning, OwnIds, Pause \/ Loop
  PROVE  Owning'
<1>1. UNCHANGED <<client, step>>
  BY DEF Pause, Loop, Dispatch, Deliver, Recover, DeliverFailures, Synthesise
<1>2. CASE Pause
  <2>1. UNCHANGED <<stream, sched, jobs, loop, produced>>  BY <1>2 DEF Pause
  <2>2. \A x \in Ids : Occupies(x)' <=> Occupies(x)  BY <1>1, <2>1 DEF Occupies, InHand
  <2>3. NoLost' /\ FailuresFinish' /\ NoGhosts'
    BY <1>1, <2>1, <2>2, OwningFacts DEF NoLost, FailQueued, FailuresFinish, NoGhosts, Between
  <2> QED  BY <1>1, <2>1, <2>2, <2>3, OwningStep
<1>3. CASE Dispatch \/ Recover
  <2>1. UNCHANGED <<stream, sched, produced>> /\ loop' = "awaiting" /\ loop \in {"idle", "raised"}
    BY <1>3 DEF Dispatch, Recover
  <2>2. \A x \in Ids : Occupies(x)' <=> Occupies(x)  BY <1>1, <2>1 DEF Occupies, InHand
  <2>3. FailQueued' => FailQueued \/ loop = "raised"
    <3>1. PICK d \in {"step", "fail"} : /\ jobs' = Append(jobs, [do |-> d, obj |-> None])
                                        /\ d = "fail" => loop = "raised"
      BY <1>3 DEF Dispatch, Recover
    <3>2. /\ Len(jobs) \in Nat /\ DOMAIN jobs = 1..Len(jobs) /\ DOMAIN jobs' = 1..(Len(jobs) + 1)
          /\ \A k \in 1..Len(jobs) : jobs'[k] = jobs[k]
          /\ jobs'[Len(jobs) + 1] = [do |-> d, obj |-> None]
      BY <3>1, OrderlyFacts
    <3>3. \A k \in DOMAIN jobs' : k = Len(jobs) + 1 \/ k \in DOMAIN jobs
      BY <3>2
    <3> QED  BY <3>1, <3>2, <3>3 DEF FailQueued
  <2>4. NoLost' /\ FailuresFinish' /\ NoGhosts'
    BY <1>1, <2>1, <2>2, <2>3, OwningFacts DEF NoLost, FailuresFinish, NoGhosts, Between
  <2> QED  BY <1>1, <2>1, <2>2, <2>4, OwningStep
<1>4. CASE Deliver \/ DeliverFailures
  <2>1. UNCHANGED <<sched, jobs>> /\ produced' = Nothing /\ loop' = "idle"
    BY <1>4 DEF Deliver, DeliverFailures
  <2>2. \A x \in Ids : Occupies(x)' <=> Occupies(x)  BY <1>1, <2>1 DEF Occupies, InHand
  <2>3. NoLost' /\ FailuresFinish' /\ NoGhosts'
    BY <1>1, <2>1, <2>2, OwningFacts DEF NoLost, FailQueued, FailuresFinish, NoGhosts, Between
  <2>4. ASSUME NEW x \in Ids
        PROVE  /\ StreamRecord(stream'[x])
               /\ stream'[x].event => stream[x].event \/ (produced[x] # None /\ Finished(produced[x]))
               /\ stream[x].event \/ (stream'[x] # stream[x] /\ Finished(produced[x])) => stream'[x].event
               /\ \/ stream'[x].out = stream[x].out
                  \/ stream'[x] # stream[x] /\ (Finished(stream'[x].out) <=> Finished(produced[x]))
    <3>0. StreamRecord(stream[x])  BY OwningFacts DEF StreamShape
    <3>1. CASE stream'[x] = stream[x]  BY <3>0, <3>1
    <3>2. CASE stream'[x] = Delivered(stream[x], produced[x]) /\ produced[x] # None
      <4> DEFINE d == Delivered(stream[x], produced[x])
      <4>1. /\ StreamRecord(d) /\ (d.event <=> stream[x].event \/ Finished(produced[x]))
            /\ d.out = stream[x].out \/ (Finished(d.out) <=> Finished(produced[x]))
        BY <3>0, DeliveredFacts
      <4> HIDE DEF d
      <4>2. stream'[x] = d  BY <3>2 DEF d
      <4> QED  BY <3>0, <3>2, <4>1, <4>2
    <3>3. CASE stream'[x] = Answered(stream[x], produced[x]) /\ produced[x] # None /\ loop = "failed"
      <4>1. Finished(produced[x])  BY <3>3, OwningFacts DEF FailuresFinish
      <4> DEFINE d == Answered(stream[x], produced[x])
      <4>2. StreamRecord(d) /\ d.event = TRUE /\ (Finished(d.out) <=> Finished(produced[x]))
        BY <3>0, AnsweredFacts
      <4> HIDE DEF d
      <4>3. stream'[x] = d  BY <3>3 DEF d
      <4> QED  BY <3>0, <3>3, <4>1, <4>2, <4>3
    <3> QED  BY <1>4, <3>1, <3>2, <3>3 DEF Deliver, DeliverFailures
  <2>5. \A x \in Ids : Owned(x)'
    <3> SUFFICES ASSUME NEW x \in Ids  PROVE Owned(x)'
      OBVIOUS
    <3>1. produced'[x] = None  BY <2>1 DEF Nothing
    <3>2. sched.commits[x] = 0 => stream'[x] = stream[x]
      BY <1>4, OwningFacts DEF Deliver, DeliverFailures, Owned
    <3>3. Settled(x)' => Settled(x)
      BY <1>1, <2>4, <3>1 DEF Settled
    <3>4. stream'[x].out # None /\ Finished(stream'[x].out) => stream'[x].event
      BY <2>4, OwningFacts DEF Owned
    <3> QED  BY <2>1, <2>2, <3>1, <3>2, <3>3, <3>4, OwningFacts DEF Owned
  <2>6. StreamShape(stream')
    <3>1. stream' = [x \in Ids |-> stream'[x]]  BY <1>4 DEF Deliver, DeliverFailures
    <3> QED  BY <2>4, <3>1 DEF StreamShape
  <2> QED  BY <2>3, <2>5, <2>6 DEF Owning
<1>5. ~Synthesise  BY OwningFacts DEF Synthesise, NoLost
<1> QED  BY <1>2, <1>3, <1>4, <1>5 DEF Loop

-----------------------------------------------------------------------------
LEMMA FailQueuedTail ==
  ASSUME jobs \in Seq(JobType), jobs # <<>>, jobs' = Tail(jobs), SubmittedOnce, Lone
  PROVE  /\ FailQueued' => FailQueued
         /\ FailQueued /\ jobs[1].do # "fail" => FailQueued'
<1>1. 1 \in 1..Len(jobs)  OBVIOUS
<1> QED  BY <1>1, JobRemoved

LEMMA AddingOwning ==
  ASSUME IInv, Orderly, Owning, OwnIds, AddRefused \/ AddStart \/ AddRaises
  PROVE  Owning'
<1>1. /\ UNCHANGED <<stream, loop, produced>> /\ step'.admitting = step.admitting
      /\ step'.ghosts = step.ghosts /\ Between /\ Between'
  <2>1. CASE AddRefused  BY <2>1 DEF AddRefused, Taking, Between
  <2>2. CASE AddStart  BY <2>2, OrderlyFacts DEF AddStart, Taking, Between, StepType
  <2>3. CASE AddRaises  BY <2>3, OrderlyFacts DEF AddRaises, Between, StepType
  <2> QED  BY <2>1, <2>2, <2>3
<1>2. /\ sched'.requests = sched.requests /\ sched'.commits = sched.commits
      /\ sched'.pending = sched.pending /\ sched'.waiting = sched.waiting
      /\ sched'.running = sched.running
  <2>1. CASE AddRefused \/ AddRaises  BY <2>1 DEF AddRefused, AddRaises
  <2>2. CASE AddStart
    <3>1. PICK r \in Ids : jobs[1].obj = Obj(r)  BY <2>2, FirstAdd DEF AddStart
    <3> QED  BY <2>2, <3>1, AddStartEffect, OrderlyFacts DEF Kept
  <2> QED  BY <2>1, <2>2
<1>3. \A x \in Ids : Occupies(x)' <=> Occupies(x)  BY <1>1, <1>2 DEF Occupies, InHand, Queued
<1>4. FailQueued' => FailQueued
  <2>1. CASE AddRefused \/ AddStart
    <3>1. jobs \in Seq(JobType) /\ jobs # <<>> /\ jobs' = Tail(jobs) /\ SubmittedOnce /\ Lone
      BY <2>1, OrderlyFacts DEF AddRefused, AddStart, Taking, Turns
    <3> QED  BY <3>1, FailQueuedTail
  <2>2. CASE AddRaises  BY <2>2 DEF AddRaises, FailQueued
  <2> QED  BY <2>1, <2>2
<1>5. NoLost' /\ FailuresFinish' /\ NoGhosts'
  BY <1>1, <1>2, <1>3, <1>4, OwningFacts DEF NoLost, FailuresFinish, NoGhosts
<1>6. \A x \in Ids : client'[x].at = "leaving" => client[x].at = "leaving"
  <2>1. CASE AddStart  BY <2>1 DEF AddStart
  <2>2. CASE AddRefused
    <3>1. PICK r \in Ids : jobs[1].obj = Obj(r)  BY <2>2, FirstAdd DEF AddRefused
    <3>2. Turned(r)  BY <2>2, <3>1, ObjFacts DEF AddRefused
    <3> QED  BY <3>2, TurnedClient, OrderlyFacts
  <2>3. CASE AddRaises
    <3>1. step.adding[1] \in Ids  BY <2>3, ObjectIds DEF AddRaises, IInv, Shape
    <3> QED  BY <2>3, <3>1, TurnedClient, OrderlyFacts DEF AddRaises
  <2> QED  BY <2>1, <2>2, <2>3
<1>7. \A x \in Ids : Owned(x)'
  BY <1>1, <1>2, <1>3, <1>6, FrameOwned, OwningFacts
<1> QED  BY <1>1, <1>5, <1>7, OwningFacts DEF Owning

LEMMA AddCommitOwning ==
  ASSUME IInv, Orderly, Owning, OwnIds, AddCommit
  PROVE  Owning'
<1>1. PICK r \in Ids :
        /\ Adding(r) /\ step' = [step EXCEPT !.at = "free", !.adding = None]
        /\ \A x \in Ids \ {r} : client'[x] = client[x]
        /\ client'[r] = [client[r] EXCEPT !.at = IF client[r].at = "cancelled" THEN "leaving" ELSE "reading"]
        /\ sched'.requests = [sched.requests EXCEPT ![r] = Obj(r)]
        /\ sched'.commits = [sched.commits EXCEPT ![r] = @ + 1]
        /\ sched'.running = sched.running
        /\ sched'.pending = sched.pending \cup (IF client[r].at = "cancelled" THEN {r} ELSE {})
        /\ \A x \in Ids : Queued(sched', x) <=> Queued(sched, x) \/ x = r
  BY AddCommitEffect
<1>2. UNCHANGED <<stream, jobs, loop, produced>> /\ step.at = "add"  BY DEF AddCommit
<1>3. step'.at = "free" /\ step'.admitting = step.admitting /\ step'.ghosts = step.ghosts
  BY <1>1, OrderlyFacts DEF StepType
<1>4. \A x \in Ids \ {r} : Occupies(x)' <=> Occupies(x)
  BY <1>1, <1>3 DEF Occupies, InHand
<1>5. step.ghosts = {}  BY <1>2, OwningFacts DEF NoGhosts, Between
<1>6. NoLost' /\ FailuresFinish' /\ NoGhosts'
  BY <1>2, <1>3, <1>5, OwningFacts DEF NoLost, FailQueued, FailuresFinish, NoGhosts
<1>7. client'[r].at = IF client[r].at = "cancelled" THEN "leaving" ELSE "reading"
  BY <1>1, OrderlyFacts DEF ClientShape, ClientRecord
<1>8. /\ sched'.requests[r] = Obj(r) /\ sched.commits[r] = 0 /\ sched'.commits[r] = 1
      /\ \A x \in Ids \ {r} : /\ sched'.requests[x] = sched.requests[x]
                              /\ sched'.commits[x] = sched.commits[x]
  BY <1>1, OrderlyFacts DEF Life, SchedulerType
<1>9. Owned(r)'
  BY <1>1, <1>2, <1>7, <1>8, OwningFacts DEF Owned, Settled
<1>10. \A x \in Ids \ {r} : Owned(x)'
  BY <1>1, <1>2, <1>4, <1>8, FrameOwned, OwningFacts
<1> QED  BY <1>2, <1>6, <1>9, <1>10, OwningFacts DEF Owning

LEMMA StepStartOwning ==
  ASSUME IInv, Orderly, Owning, OwnIds, StepStart
  PROVE  Owning'
<1>1. UNCHANGED <<client, stream, sched, loop, produced>> /\ Taking("step")  BY DEF StepStart
<1>2. step'.at = "drain" /\ step'.admitting = None /\ step'.ghosts = Untracked
  BY DEF StepStart, Free
<1>3. \A x \in Ids : ~InHand(x)' /\ (Occupies(x)' => Occupies(x))
  BY <1>1, <1>2, ObjFacts DEF InHand, Occupies
<1>4. FailQueued' => FailQueued
  BY <1>1, FailQueuedTail, OrderlyFacts DEF Taking, Turns
<1>5. \A x \in Ids : Obj(x) \in Untracked /\ Occupies(x) => x \in sched.pending
  BY ObjFacts, OwningFacts DEF Untracked, Owned
<1>6. NoGhosts'
  BY <1>1, <1>2, <1>3, <1>5 DEF NoGhosts, Between
<1>7. NoLost' /\ FailuresFinish'
  BY <1>1, <1>4, OwningFacts DEF NoLost, FailuresFinish
<1> QED  BY <1>1, <1>3, <1>6, <1>7, OwningStep

LEMMA DrainEffect ==
  ASSUME IInv, Orderly, OwnIds, NEW r \in Ids, Drain(r)
  PROVE  /\ Kept(sched, sched') /\ sched'.pending = sched.pending \ {r} /\ ~Occupies(r)'
         /\ \A x \in Ids : Occupies(x)' => Occupies(x)
<1>1. UNCHANGED <<client, stream, jobs, step, loop, produced>> /\ step.at = "drain"
  BY DEF Drain
<1> DEFINE t == AbortObject([sched EXCEPT !.pending = @ \ {r}], r, sched.requests[r])
<1>2. Tidy(sched) /\ (Queued(sched, r) => sched.status[Obj(r)] = "waiting")
  BY OrderlyFacts DEF Place
<1>3. /\ Kept(sched, t) /\ t.pending = sched.pending \ {r}
      /\ t.running = [sched.running EXCEPT ![r] = None]
      /\ \A x \in Ids : Queued(t, x) <=> Queued(sched, x) /\ x # r
  BY <1>2, AbortObjectEffect
<1>4. sched' = t  BY DEF Drain
<1> HIDE DEF t
<1>5. \A x \in Ids : ~InHand(x) /\ ~InHand(x)'
  BY <1>1, ObjFacts, OrderlyFacts DEF Turns, InHand
<1>6. sched'.running[r] = None /\ \A x \in Ids \ {r} : sched'.running[x] = sched.running[x]
  BY <1>3, <1>4, OrderlyFacts DEF SchedulerType
<1>7. ~Occupies(r)' /\ \A x \in Ids : Occupies(x)' => Occupies(x)
  BY <1>3, <1>4, <1>5, <1>6 DEF Occupies
<1> QED  BY <1>3, <1>4, <1>7

LEMMA DrainOwning ==
  ASSUME IInv, Orderly, Owning, OwnIds, NEW r \in Ids, Drain(r)
  PROVE  Owning'
<1>1. UNCHANGED <<client, stream, jobs, step, loop, produced>> /\ step.at = "drain"
  BY DEF Drain
<1>2. \A x \in Ids : x \in sched.pending /\ Occupies(x)' => x \in sched'.pending
  BY DrainEffect
<1>3. NoLost' /\ FailuresFinish' /\ NoGhosts'
  BY <1>1, <1>2, DrainEffect, OwningFacts DEF NoLost, FailQueued, FailuresFinish, NoGhosts, Between
<1> QED  BY <1>1, <1>2, <1>3, DrainEffect, OwningStep DEF Kept

(* A part of a step that only takes requests out or moves them about.      *)
LEMMA MovesEffect ==
  ASSUME IInv, Orderly, OwnIds,
         \/ AdmitEnd \/ Reconcile \/ Insert \/ Corrupt
         \/ \E i \in DOMAIN sched.waiting : Admit(i) \/ Defer(i)
  PROVE  /\ UNCHANGED <<client, stream, jobs, loop, produced>> /\ ~Between /\ step.at # "drain"
         /\ step'.ghosts = step.ghosts /\ step'.at \notin {"free", "add", "drain"}
         /\ sched'.requests = sched.requests /\ sched'.commits = sched.commits
         /\ sched'.made = sched.made /\ sched'.pending = sched.pending
         /\ \A x \in Ids : Occupies(x)' => Occupies(x)
<1> DEFINE G == /\ sched'.requests = sched.requests /\ sched'.commits = sched.commits
                /\ sched'.made = sched.made /\ sched'.pending = sched.pending
                /\ \A x \in Ids : Occupies(x)' => Occupies(x)
<1>1. /\ UNCHANGED <<client, stream, jobs, loop, produced>> /\ ~Between /\ step.at # "drain"
  BY DEF AdmitEnd, Reconcile, Insert, Corrupt, Admit, Defer, Between
<1>2. step'.ghosts = step.ghosts /\ step'.at \notin {"free", "add", "drain"}
  BY OrderlyFacts DEF AdmitEnd, Reconcile, Insert, Corrupt, Admit, Defer, StepType
<1>3. CASE AdmitEnd
  <2>1. UNCHANGED sched /\ step'.admitting = None
    BY <1>3, OrderlyFacts DEF AdmitEnd, StepType
  <2>2. \A x \in Ids : Occupies(x)' => Occupies(x)  BY <2>1, ObjFacts DEF Occupies, InHand
  <2> QED  BY <1>1, <1>2, <2>1, <2>2
<1>4. CASE Reconcile
  <2>1. /\ Kept(sched, sched') /\ sched'.pending = sched.pending
        /\ sched'.waiting = sched.waiting
        /\ \A x \in Ids : sched'.running[x] \in {None, sched.running[x]}
    BY <1>4, ReconcileEffect, OrderlyFacts
  <2>2. step'.admitting = step.admitting  BY <1>4, OrderlyFacts DEF Reconcile, StepType
  <2>3. \A x \in Ids : Occupies(x)' => Occupies(x)
    BY <2>1, <2>2 DEF Occupies, InHand, Queued
  <2> QED  BY <1>1, <1>2, <2>1, <2>3 DEF Kept
<1>5. CASE Insert
  <2>1. PICK r \in Ids : InHand(r)  BY <1>5, Inserted DEF Insert
  <2>2. /\ sched'.requests = sched.requests /\ sched'.commits = sched.commits
        /\ sched'.made = sched.made
        /\ sched'.pending = sched.pending /\ sched'.waiting = sched.waiting
        /\ sched'.running = [sched.running EXCEPT ![r] = Obj(r)]
    BY <1>5, <2>1, InsertEffect, OrderlyFacts
  <2>3. step'.admitting = None  BY <1>5, OrderlyFacts DEF Insert, StepType
  <2>4. \A x \in Ids \ {r} : sched'.running[x] = sched.running[x]
    BY <2>2, OrderlyFacts DEF SchedulerType
  <2>5. \A x \in Ids : Occupies(x)' => Occupies(x)
    BY <2>1, <2>2, <2>3, <2>4, ObjFacts DEF Occupies, InHand, Queued
  <2> QED  BY <1>1, <1>2, <2>2, <2>5
<1>6. CASE Corrupt
  <2>1. /\ Kept(sched, sched') /\ sched'.pending = sched.pending
        /\ \A x \in Ids :
             /\ sched'.running[x] = None
             /\ Queued(sched', x) <=> Queued(sched, x) \/ sched.running[x] # None
    BY <1>6, RescheduleEffect, OrderlyFacts DEF Corrupt, IInv
  <2>2. step'.admitting = step.admitting  BY <1>6, OrderlyFacts DEF Corrupt, StepType
  <2>3. \A x \in Ids : Occupies(x)' => Occupies(x)
    BY <2>1, <2>2 DEF Occupies, InHand
  <2> QED  BY <1>1, <1>2, <2>1, <2>3 DEF Kept
<1>7. ASSUME NEW i \in DOMAIN sched.waiting, Admit(i)  PROVE G
  <2>1. PICK r \in Ids :
          /\ step' = [step EXCEPT !.at = "insert", !.admitting = Obj(r)]
          /\ Queued(sched, r) /\ Kept(sched, sched')
          /\ sched'.pending = sched.pending /\ sched'.running = sched.running
          /\ \A x \in Ids : Queued(sched', x) <=> Queued(sched, x) /\ x # r
    BY <1>7, AdmitEffect, OrderlyFacts
  <2>2. step'.admitting = Obj(r)  BY <2>1, OrderlyFacts DEF StepType
  <2>3. \A x \in Ids : Occupies(x)' => Occupies(x)
    BY <2>1, <2>2, ObjFacts DEF Occupies, InHand
  <2> QED  BY <2>1, <2>3 DEF Kept
<1>8. ASSUME NEW i \in DOMAIN sched.waiting, Defer(i)  PROVE G
  <2>1. /\ step' = [step EXCEPT !.at = "decode", !.admitting = None]
        /\ Kept(sched, sched')
        /\ sched'.pending = sched.pending /\ sched'.running = sched.running
        /\ \A x \in Ids : Queued(sched', x) <=> Queued(sched, x)
    BY <1>8, DeferEffect, OrderlyFacts
  <2>2. step'.admitting = None  BY <2>1, OrderlyFacts DEF StepType
  <2>3. \A x \in Ids : Occupies(x)' => Occupies(x)
    BY <2>1, <2>2, ObjFacts DEF Occupies, InHand
  <2> QED  BY <2>1, <2>3 DEF Kept
<1> QED  BY <1>1, <1>2, <1>3, <1>4, <1>5, <1>6, <1>7, <1>8

LEMMA OwningInStep ==
  ASSUME IInv, Orderly, Owning, OwnIds, ~Between, step.at # "drain",
         UNCHANGED <<client, stream, jobs, loop, produced>>,
         sched'.requests = sched.requests, sched'.commits = sched.commits,
         sched'.pending = sched.pending, step'.ghosts = step.ghosts,
         step'.at \notin {"free", "add"},
         \A x \in Ids : Occupies(x)' => Occupies(x)
  PROVE  Owning'
<1>1. NoLost' /\ FailuresFinish'
  BY OwningFacts DEF NoLost, FailQueued, FailuresFinish
<1>2. NoGhosts'  BY GhostsKept
<1> QED  BY <1>1, <1>2, OwningStep

LEMMA MovesOwning ==
  ASSUME IInv, Orderly, Owning, OwnIds,
         \/ AdmitEnd \/ Reconcile \/ Insert \/ Corrupt
         \/ \E i \in DOMAIN sched.waiting : Admit(i) \/ Defer(i)
  PROVE  Owning'
BY MovesEffect, OwningInStep

-----------------------------------------------------------------------------
(* How a step ends: what gets its last output has left the scheduler.      *)
LEMMA OwningEnd ==
  ASSUME IInv, Orderly, Owning, OwnIds, step.at \in {"admit", "insert", "decode"},
         NEW s, NEW outs, EndStep(s, outs),
         s.requests = sched.requests, s.commits = sched.commits, s.pending = sched.pending,
         \A x \in Ids : /\ Queued(s, x) \/ s.running[x] # None => Occupies(x)
                        /\ outs[x] # None =>
                             /\ sched.commits[x] # 0
                             /\ Finished(outs[x]) => ~Queued(s, x) /\ s.running[x] = None
  PROVE  Owning'
<1>1. /\ UNCHANGED <<client, stream, jobs>> /\ sched' = s /\ produced' = outs
      /\ step' = Free /\ loop' = "delivering"
  BY DEF EndStep
<1>2. \A x \in Ids : ~InHand(x)'  BY <1>1, ObjFacts DEF InHand, Free
<1>3. \A x \in Ids : Occupies(x)' => Occupies(x)  BY <1>1, <1>2 DEF Occupies
<1>4. NoLost' /\ FailuresFinish'
  BY <1>1, OwningFacts DEF NoLost, FailQueued, FailuresFinish
<1>5. NoGhosts'  BY <1>1 DEF NoGhosts, Free
<1>6. \A x \in Ids : \/ produced'[x] \in {produced[x], None}
                     \/ /\ sched.commits[x] # 0
                        /\ Finished(produced'[x]) => ~Occupies(x)'
  BY <1>1, <1>2 DEF Occupies
<1> QED  BY <1>1, <1>3, <1>4, <1>5, <1>6, OwningStep

LEMMA DrainEndOwning ==
  ASSUME IInv, Orderly, Owning, OwnIds, DrainEnd
  PROVE  Owning'
<1>1. /\ UNCHANGED <<client, stream, sched, jobs, loop, produced>>
      /\ step.at = "drain" /\ sched.pending = {}
  BY DEF DrainEnd
<1>2. step'.at = "reconcile" /\ step'.admitting = step.admitting /\ step'.ghosts = step.ghosts
  BY OrderlyFacts DEF DrainEnd, StepType
<1>3. \A x \in Ids : Occupies(x)' <=> Occupies(x)  BY <1>1, <1>2 DEF Occupies, InHand
<1>4. NoLost' /\ FailuresFinish'
  BY <1>1, OwningFacts DEF NoLost, FailQueued, FailuresFinish
<1>5. NoGhosts'  BY <1>1, <1>2, <1>3, OwningFacts DEF NoGhosts, Between
<1> QED  BY <1>1, <1>3, <1>4, <1>5, OwningStep

LEMMA DecodesOwning ==
  ASSUME IInv, Orderly, Owning, OwnIds, Decode \/ DecodeNothing
  PROVE  Owning'
<1>1. step.at = "decode"  BY DEF Decode, DecodeNothing
<1>2. CASE Decode
  <2>1. PICK ends \in [Rows -> {"no", "stop", "length", "repetition"}] :
          LET Done(x) == Decoding(x) /\ ends[Obj(x)] # "no" IN
          /\ sched'.requests = sched.requests /\ sched'.commits = sched.commits
          /\ sched'.pending = sched.pending /\ sched'.waiting = sched.waiting
          /\ \A x \in Ids :
               /\ Decoding(x) => ends[Obj(x)] \in Ending(Obj(x))
               /\ produced'[x] = IF Decoding(x) THEN TokenOutput(Obj(x), ends[Obj(x)]) ELSE None
               /\ sched'.running[x] = IF Done(x) THEN None ELSE sched.running[x]
    BY <1>2, DecodeEffect, OrderlyFacts
  <2>2. PICK s, outs : EndStep(s, outs)  BY <1>2 DEF Decode
  <2>3. s = sched' /\ outs = produced'  BY <2>2 DEF EndStep
  <2>4. \A x \in Ids : Queued(sched', x) <=> Queued(sched, x)  BY <2>1 DEF Queued
  <2>5. ASSUME NEW x \in Ids
        PROVE  /\ Queued(s, x) \/ s.running[x] # None => Occupies(x)
               /\ outs[x] # None =>
                    /\ sched.commits[x] # 0
                    /\ Finished(outs[x]) => ~Queued(s, x) /\ s.running[x] = None
    <3>1. Decoding(x) => sched.commits[x] # 0 /\ ~Queued(sched, x)
      BY OrderlyFacts DEF Decoding, Place, Occupies
    <3>2. \A e : Finished(TokenOutput(Obj(x), e)) => e # "no"
      BY DEF TokenOutput, Finished, Out
    <3>3. outs[x] # None => Decoding(x) /\ outs[x] = TokenOutput(Obj(x), ends[Obj(x)])
      BY <2>1, <2>3
    <3>4. s.running[x] = IF Decoding(x) /\ ends[Obj(x)] # "no" THEN None ELSE sched.running[x]
      BY <2>1, <2>3
    <3>5. s.running[x] # None => Occupies(x)  BY <3>4 DEF Occupies
    <3> QED  BY <2>3, <2>4, <3>1, <3>2, <3>3, <3>4, <3>5 DEF Occupies
  <2> QED  BY <1>1, <2>1, <2>2, <2>3, <2>5, OwningEnd
<1>3. CASE DecodeNothing
  <2> DEFINE s == [sched EXCEPT !.failures = 0]
  <2>1. EndStep(s, Nothing)  BY <1>3 DEF DecodeNothing
  <2>2. /\ s.requests = sched.requests /\ s.commits = sched.commits /\ s.pending = sched.pending
        /\ s.waiting = sched.waiting /\ s.running = sched.running
    BY OrderlyFacts DEF SchedulerType
  <2> HIDE DEF s
  <2>3. \A x \in Ids : /\ Queued(s, x) \/ s.running[x] # None => Occupies(x)
                       /\ Nothing[x] = None
    BY <2>2 DEF Queued, Occupies, Nothing
  <2> QED  BY <1>1, <2>1, <2>2, <2>3, OwningEnd
<1> QED  BY <1>2, <1>3

LEMMA FailOwnOwning ==
  ASSUME IInv, Orderly, Owning, OwnIds, FailOwn
  PROVE  Owning'
<1>1. step.at = "insert"  BY DEF FailOwn
<1>2. PICK r \in Ids : InHand(r)  BY <1>1, Inserted
<1>3. step.admitting[1] = r /\ sched.commits[r] = 1 /\ sched.running[r] = None /\ ~Queued(sched, r)
  BY <1>2, ObjFacts, OrderlyFacts DEF InHand, Place, Occupies
<1> DEFINE t == AbortAll(sched, {r})
           outs == ErrorOutputs(sched, {r})
<1>4. EndStep(t, outs)  BY <1>3 DEF FailOwn
<1>5. \A x \in Ids : Queued(sched, x) => sched.status[Obj(x)] = "waiting"
  BY OrderlyFacts DEF Place
<1>6. /\ Kept(sched, t) /\ t.pending = sched.pending
      /\ \A x \in Ids :
           /\ t.running[x] = IF x \in Taken(sched, {r}) THEN None ELSE sched.running[x]
           /\ Queued(t, x) <=> Queued(sched, x) /\ x \notin Taken(sched, {r})
  BY <1>5, AbortAllEffect, OrderlyFacts
<1>7. \A x \in Ids : outs[x] # None => x = r  BY DEF ErrorOutputs
<1> HIDE DEF t, outs
<1>8. \A x \in Ids : /\ Queued(t, x) \/ t.running[x] # None => Occupies(x)
                     /\ outs[x] # None =>
                          /\ sched.commits[x] # 0
                          /\ Finished(outs[x]) => ~Queued(t, x) /\ t.running[x] = None
  BY <1>3, <1>6, <1>7 DEF Occupies
<1> QED  BY <1>1, <1>4, <1>6, <1>8, OwningEnd DEF Kept

LEMMA FailuresOwning ==
  ASSUME IInv, Orderly, Owning, OwnIds, Recovers, FailStep \/ FailJob
  PROVE  Owning'
<1> DEFINE F == Failing(sched, step.admitting)
           t == FailShared(sched, step.admitting)
           outs == ErrorOutputs(sched, F)
<1>1. \A x \in Ids : outs[x] # None => x \in F /\ Finished(outs[x])
  BY DEF ErrorOutputs, Out, Finished
<1> HIDE DEF F
<1>2. CASE FailStep
  <2>1. EndStep(t, outs) /\ step.at \in {"admit", "insert", "decode"}  BY <1>2 DEF FailStep, F
  <2>2. sched' = t /\ produced' = outs /\ UNCHANGED client /\ step' = Free
    BY <2>1 DEF EndStep
  <2>3. \A x \in Ids : ~InHand(x)'  BY <2>2, ObjFacts DEF InHand, Free
  <2>4. /\ Kept(sched, sched') /\ sched'.pending = sched.pending
        /\ \A x \in Ids : /\ Occupies(x)' => Occupies(x)
                          /\ x \in F => sched.commits[x] # 0 /\ ~Occupies(x)'
    BY <2>2, <2>3, FailSharedPlaces DEF F
  <2> HIDE DEF t, outs
  <2>5. \A x \in Ids : /\ Queued(t, x) \/ t.running[x] # None => Occupies(x)
                       /\ outs[x] # None =>
                            /\ sched.commits[x] # 0
                            /\ Finished(outs[x]) => ~Queued(t, x) /\ t.running[x] = None
    BY <1>1, <2>2, <2>4 DEF Occupies
  <2>6. t.requests = sched.requests /\ t.commits = sched.commits /\ t.pending = sched.pending
    BY <2>2, <2>4 DEF Kept
  <2> QED  BY <2>1, <2>5, <2>6, OwningEnd
<1>3. CASE FailJob
  <2>1. Taking("fail") /\ UNCHANGED <<client, stream>>  BY <1>3 DEF FailJob
  <2>2. /\ jobs \in Seq(JobType) /\ jobs # <<>> /\ jobs' = Tail(jobs) /\ SubmittedOnce /\ Lone
        /\ step.at = "free" /\ step.ghosts = {}
    BY <2>1, OrderlyFacts, OwningFacts DEF Taking, Turns, NoGhosts, Between
  <2>3. FailQueued /\ (FailQueued' => FailQueued)
    <3>1. 1 \in DOMAIN jobs /\ jobs[1].do = "fail"  BY <2>1, <2>2 DEF Taking
    <3> QED  BY <2>2, <3>1, FailQueuedTail DEF FailQueued
  <2>4. "raise" \in Faults /\ "recovery" \notin Faults
    BY <2>3, OwningFacts DEF NoLost, Recovers
  <2>5. /\ sched' = t /\ produced' = outs /\ loop' = "failed"
        /\ step' = [step EXCEPT !.admitting = None]
    BY <1>3, <2>4 DEF FailJob, F
  <2>6. step'.at = "free" /\ step'.ghosts = {} /\ step'.admitting = None
    BY <2>2, <2>5, OrderlyFacts DEF StepType
  <2>7. \A x \in Ids : ~InHand(x)'  BY <2>6, ObjFacts DEF InHand
  <2>8. /\ Kept(sched, sched') /\ sched'.pending = sched.pending
        /\ \A x \in Ids : /\ Occupies(x)' => Occupies(x)
                          /\ x \in F => sched.commits[x] # 0 /\ ~Occupies(x)'
    BY <2>1, <2>5, <2>7, FailSharedPlaces DEF F
  <2> HIDE DEF t, outs
  <2>9. NoLost' /\ FailuresFinish' /\ NoGhosts'
    BY <1>1, <2>4, <2>5, <2>6 DEF NoLost, FailuresFinish, NoGhosts
  <2>10. \A x \in Ids : \/ produced'[x] \in {produced[x], None}
                        \/ /\ sched.commits[x] # 0
                           /\ Finished(produced'[x]) => ~Occupies(x)'
    BY <1>1, <2>5, <2>8
  <2> QED  BY <2>1, <2>8, <2>9, <2>10, OwningStep DEF Kept
<1> QED  BY <1>2, <1>3

LEMMA StepRaisesOwning ==
  ASSUME IInv, Orderly, Owning, OwnIds, StepRaises
  PROVE  Owning'
<1>1. /\ UNCHANGED <<client, stream, sched, jobs, produced>> /\ loop' = "raised"
      /\ "raise" \in Faults
  BY DEF StepRaises
<1>2. step'.at = "free" /\ step'.admitting = step.admitting /\ step'.ghosts = {}
  BY OrderlyFacts DEF StepRaises, StepType
<1>3. \A x \in Ids : Occupies(x)' <=> Occupies(x)  BY <1>1, <1>2 DEF Occupies, InHand
<1>4. NoLost' /\ FailuresFinish' /\ NoGhosts'
  BY <1>1, <1>2 DEF NoLost, FailuresFinish, NoGhosts
<1> QED  BY <1>1, <1>3, <1>4, OwningStep

LEMMA OwningPreserved ==
  ASSUME OwnIds, Recovers, IInv, Orderly, Owning, [Next]_vars
  PROVE  Owning'
<1>1. CASE UNCHANGED vars
  <2>1. UNCHANGED <<client, stream, sched, jobs, step, loop, produced, paused>>  BY <1>1 DEF vars
  <2>2. \A x \in Ids : Occupies(x)' <=> Occupies(x)  BY <2>1 DEF Occupies, InHand
  <2>3. NoLost' /\ FailuresFinish' /\ NoGhosts'
    BY <2>1, <2>2, OwningFacts DEF NoLost, FailQueued, FailuresFinish, NoGhosts, Between
  <2> QED  BY <2>1, <2>2, <2>3, OwningStep
<1>2. CASE Pause \/ Loop  BY <1>2, EngineLoopOwning
<1>3. ASSUME NEW r \in Ids, Client(r)  PROVE Owning'
  BY <1>3, ReaderOwning, AbortsOwning, CleanupOwning DEF Client
<1>4. ASSUME NEW r \in Ids, Outside(r)  PROVE Owning'
  BY <1>4, SubmitOwning, WithdrawOwning, ReaderOwning, AbortsOwning DEF Outside
<1>5. CASE Worker
  <2>1. CASE AddRefused \/ AddStart \/ AddCommit \/ AddRaises
    BY <2>1, AddingOwning, AddCommitOwning
  <2>2. CASE StepStart \/ DrainEnd \/ Decode \/ DecodeNothing
    BY <2>2, StepStartOwning, DrainEndOwning, DecodesOwning
  <2>3. CASE AdmitEnd \/ Reconcile \/ Insert \/ Corrupt
    BY <2>3, MovesOwning
  <2>4. CASE FailOwn \/ FailStep \/ FailJob \/ StepRaises
    BY <2>4, FailOwnOwning, FailuresOwning, StepRaisesOwning
  <2>5. ASSUME NEW r \in Ids, Drain(r)  PROVE Owning'
    BY <2>5, DrainOwning
  <2>6. ASSUME NEW i \in DOMAIN sched.waiting, Admit(i) \/ Defer(i)  PROVE Owning'
    BY <2>6, MovesOwning
  <2> QED  BY <1>5, <2>1, <2>2, <2>3, <2>4, <2>5, <2>6 DEF Worker
<1> QED  BY <1>1, <1>2, <1>3, <1>4, <1>5 DEF Next

(* What the scheduler holds, it holds under the ids.                       *)
LEMMA LiveOccupies ==
  ASSUME IInv, Orderly, OwnIds, NEW o \in Live
  PROVE  \E r \in Ids : o = Obj(r) /\ Occupies(r)
<1>1. CASE o \in ToSet(sched.waiting)
  <2>1. o \in Objects  BY <1>1, InToSet, OrderlyFacts DEF SchedulerType
  <2> QED  BY <1>1, <2>1, ObjFacts DEF Occupies, Queued
<1>2. CASE o \in InBatch
  BY <1>2, OrderlyFacts DEF InBatch, Running, Place, Occupies
<1>3. CASE o \in Admitting
  <2>1. o = step.admitting /\ o # None  BY <1>3 DEF Admitting
  <2> QED  BY <2>1, ObjFacts, OrderlyFacts DEF StepType, ObjectOrNone, Occupies, InHand
<1> QED  BY <1>1, <1>2, <1>3 DEF Live

LEMMA OwningInvariant ==
  ASSUME OwnIds, Recovers
  PROVE  Spec => [](IInv /\ Orderly /\ Owning)
<1>1. Init => IInv /\ Orderly /\ Owning
  BY InitHolds, OrderlyInit, OwningInit
<1>2. IInv /\ Orderly /\ Owning /\ [Next]_vars => (IInv /\ Orderly /\ Owning)'
  BY NextPreserves, OrderlyPreserved, OwningPreserved
<1> QED  BY <1>1, <1>2, PTL DEF Spec

(* When ids are not used again and the recovery of a failed step does not  *)
(* itself raise, whatever is queued, being admitted or in the batch is     *)
(* known to the engine or has its abort queued: abort_request and          *)
(* remove_finished_request on the event loop, in any order with the        *)
(* admission, the steps and the failures of the worker.                    *)
THEOREM NoRequestIsAZombie ==
  ASSUME OwnIds, Recovers
  PROVE  Spec => []NoZombie
<1>1. IInv /\ Orderly /\ Owning => NoZombie
  <2> SUFFICES ASSUME IInv, Orderly, Owning, NEW o \in Live
               PROVE  sched.requests[o[1]] = o \/ o[1] \in sched.pending
    BY DEF NoZombie
  <2>1. PICK r \in Ids : o = Obj(r) /\ Occupies(r)  BY LiveOccupies
  <2>2. o[1] = r  BY <2>1 DEF Obj
  <2> QED  BY <2>1, <2>2, OwningFacts DEF Owned
<1> QED  BY <1>1, OwningInvariant, PTL

(* Under the same hypotheses, an object that nothing tracked when a step   *)
(* began is out of the queue and the batch once _process_pending_aborts    *)
(* and _reconcile_orphaned_running have run: no step admits or decodes it. *)
THEOREM NoGhostIsDecoded ==
  ASSUME OwnIds, Recovers
  PROVE  Spec => []GhostsAreReaped
<1>1. IInv /\ Orderly /\ Owning => GhostsAreReaped
  <2> SUFFICES ASSUME IInv, Orderly, Owning, step.at \in {"admit", "insert", "decode"},
                      NEW o \in Live, o \in step.ghosts
               PROVE  FALSE
    BY DEF GhostsAreReaped
  <2>1. PICK r \in Ids : o = Obj(r) /\ Occupies(r)  BY LiveOccupies
  <2> QED  BY <2>1, OwningFacts DEF NoGhosts
<1> QED  BY <1>1, OwningInvariant, PTL

-----------------------------------------------------------------------------
(* Blocks held for a cache hit have somebody to release them.              *)
LEMMA LeasedFrame ==
  ASSUME Leased, UNCHANGED <<step, paused>>, sched'.lease = sched.lease,
         sched'.running = sched.running, sched.pending \subseteq sched'.pending,
         \A x \in Ids : Queued(sched, x) => Queued(sched', x),
         RaisedNow => RaisedNow'
  PROVE  Leased'
BY DEF Leased, Carried, Adding, InHand

LEMMA FailQueuedAppended ==
  ASSUME jobs \in Seq(JobType), NEW job, jobs' = Append(jobs, job)
  PROVE  FailQueued \/ job.do = "fail" => FailQueued'
<1>1. /\ Len(jobs) \in Nat /\ DOMAIN jobs = 1..Len(jobs) /\ DOMAIN jobs' = 1..(Len(jobs) + 1)
      /\ \A k \in 1..Len(jobs) : jobs'[k] = jobs[k]
      /\ jobs'[Len(jobs) + 1] = job
  OBVIOUS
<1>2. Len(jobs) + 1 \in DOMAIN jobs' /\ \A k \in DOMAIN jobs : k \in DOMAIN jobs'
  BY <1>1
<1> QED  BY <1>1, <1>2 DEF FailQueued

LEMMA ClientLeased ==
  ASSUME IInv, Orderly, Owning, Leased, OwnIds, NEW r \in Ids, Client(r) \/ Outside(r)
  PROVE  Leased'
<1>1. UNCHANGED <<step, loop, paused>>
  BY DEF Client, Outside, Submit, Withdraw, Read, Return, Disconnect, ForceAbort,
         RecordDisconnect, Finally, Cleanup, CancelRequest
<1>2. RaisedNow => RaisedNow'
  <2>1. CASE Submit(r)
    <3>1. PICK o : jobs' = Append(jobs, [do |-> "add", obj |-> o])  BY <2>1 DEF Submit
    <3> QED  BY <1>1, <3>1, FailQueuedAppended, OrderlyFacts DEF RaisedNow
  <2>2. CASE Withdraw(r)
    <3>1. CASE \E i \in DOMAIN jobs : jobs[i].do = "add" /\ jobs' = RemoveAt(jobs, i)
      <4>1. PICK i \in 1..Len(jobs) : jobs[i].do = "add" /\ jobs' = RemoveAt(jobs, i)
        BY <3>1, OrderlyFacts
      <4>2. jobs \in Seq(JobType) /\ SubmittedOnce /\ Lone  BY OrderlyFacts DEF Turns
      <4> QED  BY <1>1, <4>1, <4>2, JobRemoved DEF RaisedNow
    <3>2. CASE UNCHANGED jobs  BY <1>1, <3>2 DEF RaisedNow, FailQueued
    <3> QED  BY <2>2, <3>1, <3>2 DEF Withdraw
  <2>3. CASE UNCHANGED jobs  BY <1>1, <2>3 DEF RaisedNow, FailQueued
  <2> QED  BY <2>1, <2>2, <2>3 DEF Client, Outside, Read, Return, Disconnect, ForceAbort,
              RecordDisconnect, Finally, Cleanup, CancelRequest
<1>3. /\ sched'.lease = sched.lease /\ sched'.running = sched.running
      /\ sched'.waiting = sched.waiting /\ sched.pending \subseteq sched'.pending
  <2>1. CASE UNCHANGED sched  BY <2>1
  <2>2. CASE sched' = Enqueue(sched, {r}) \/ sched' = Attribute(sched, r)
    BY <2>2, EnqueueEffect, AttributeEffect, OrderlyFacts DEF SamePlaces
  <2>3. CASE sched' = RemoveRequest(sched, r)  BY <2>3, RemoveEffect, OrderlyFacts
  <2> QED  BY <2>1, <2>2, <2>3 DEF Client, Outside, Submit, Withdraw, Read, Return, Disconnect,
              ForceAbort, RecordDisconnect, Finally, Cleanup, CancelRequest
<1> QED  BY <1>1, <1>2, <1>3, LeasedFrame DEF Queued

LEMMA EngineLoopLeased ==
  ASSUME IInv, Orderly, Owning, Leased, OwnIds, NeverPaused, Pause \/ Loop
  PROVE  Leased'
<1>1. ~Pause /\ ~Synthesise
  BY OwningFacts DEF Pause, NeverPaused, Synthesise, NoLost
<1>2. UNCHANGED <<step, sched, paused>>
  BY <1>1 DEF Loop, Dispatch, Deliver, Recover, DeliverFailures
<1>3. RaisedNow => RaisedNow'
  <2>1. CASE Dispatch \/ Recover
    <3>1. PICK d \in {"step", "fail"} : /\ jobs' = Append(jobs, [do |-> d, obj |-> None])
                                        /\ d = "step" => loop = "idle"
      BY <2>1 DEF Dispatch, Recover
    <3> QED  BY <3>1, FailQueuedAppended, OrderlyFacts DEF RaisedNow
  <2>2. CASE Deliver \/ DeliverFailures
    BY <2>2 DEF Deliver, DeliverFailures, RaisedNow, FailQueued
  <2> QED  BY <1>1, <2>1, <2>2 DEF Loop
<1> QED  BY <1>2, <1>3, LeasedFrame

LEMMA AddingLeased ==
  ASSUME IInv, Orderly, Owning, Leased, OwnIds, AddRefused \/ AddStart \/ AddCommit \/ AddRaises
  PROVE  Leased'
<1>1. ~AddRaises  BY DEF AddRaises, Leased
<1>2. ASSUME AddRefused \/ AddStart  PROVE RaisedNow => RaisedNow'
  <2>1. /\ jobs \in Seq(JobType) /\ jobs # <<>> /\ jobs' = Tail(jobs) /\ SubmittedOnce /\ Lone
        /\ jobs[1].do = "add" /\ UNCHANGED loop
    BY <1>2, OrderlyFacts DEF AddRefused, AddStart, Taking, Turns
  <2> QED  BY <2>1, FailQueuedTail DEF RaisedNow
<1>3. CASE AddRefused
  <2>1. UNCHANGED <<sched, step, paused>>  BY <1>3 DEF AddRefused
  <2> QED  BY <1>2, <1>3, <2>1, LeasedFrame
<1>4. CASE AddStart
  <2>1. PICK r \in Ids : jobs[1].obj = Obj(r)  BY <1>4, FirstAdd DEF AddStart
  <2>2. /\ step' = [step EXCEPT !.at = "add", !.adding = Obj(r)] /\ UNCHANGED <<loop, paused>>
        /\ step.at = "free"
    BY <1>4, <2>1 DEF AddStart, Taking
  <2>3. /\ step'.at = "add" /\ step'.adding = Obj(r) /\ step'.admitting = step.admitting
        /\ step.adding = None
    BY <2>2, OrderlyFacts DEF StepType, Turns
  <2>4. /\ sched'.pending = sched.pending /\ sched'.waiting = sched.waiting
        /\ sched'.running = sched.running
        /\ \A x \in Ids \ {r} : sched'.lease[x] = sched.lease[x]
    BY <1>4, <2>1, AddStartEffect, OrderlyFacts
  <2>5. Carried(r)'  BY <2>3 DEF Carried, Adding
  <2>6. \A x \in Ids \ {r} : Carried(x) => Carried(x)'
    BY <1>2, <1>4, <2>2, <2>3, <2>4, ObjFacts DEF Carried, Adding, InHand, Queued
  <2> QED  BY <2>2, <2>4, <2>5, <2>6 DEF Leased
<1>5. CASE AddCommit
  <2>1. PICK r \in Ids :
          /\ Adding(r) /\ step' = [step EXCEPT !.at = "free", !.adding = None]
          /\ sched'.lease = sched.lease /\ sched'.running = sched.running
          /\ sched'.pending = sched.pending \cup (IF client[r].at = "cancelled" THEN {r} ELSE {})
          /\ \A x \in Ids : Queued(sched', x) <=> Queued(sched, x) \/ x = r
    BY <1>5, AddCommitEffect
  <2>2. UNCHANGED <<jobs, loop, paused>> /\ step.at = "add"  BY <1>5 DEF AddCommit
  <2>3. step'.admitting = step.admitting  BY <2>1, OrderlyFacts DEF StepType
  <2>4. \A x \in Ids : Adding(x) => x = r  BY <2>1, ObjFacts DEF Adding
  <2>5. RaisedNow => RaisedNow'  BY <2>2 DEF RaisedNow, FailQueued
  <2>6. \A x \in Ids : Carried(x) => Carried(x)'
    BY <2>1, <2>2, <2>3, <2>4, <2>5 DEF Carried, InHand
  <2> QED  BY <2>1, <2>2, <2>6 DEF Leased
<1> QED  BY <1>1, <1>3, <1>4, <1>5

(* Within a step: nothing is being added, and the last failure is over.    *)
LEMMA LeasedInStep ==
  ASSUME IInv, Orderly, Owning, Leased, OwnIds, ~Between, UNCHANGED <<paused>>,
         \A x \in Ids : sched'.lease[x] = "held" =>
            /\ sched.lease[x] = "held"
            /\ \/ Queued(sched, x) \/ sched.running[x] # None \/ x \in sched.pending
               \/ InHand(x) /\ step.at = "insert"
               => Carried(x)'
  PROVE  Leased'
<1>1. step.adding = None /\ Adds /\ loop = "awaiting"
  BY OrderlyFacts DEF Turns, Between
<1>2. ~RaisedNow /\ \A x \in Ids : ~Adding(x)
  BY <1>1, ObjFacts DEF RaisedNow, FailQueued, Adds, Adding
<1> QED  BY <1>2 DEF Leased, Carried

LEMMA StepStartLeased ==
  ASSUME IInv, Orderly, Owning, Leased, OwnIds, StepStart
  PROVE  Leased'
<1>1. UNCHANGED <<sched, loop, paused>> /\ Taking("step")  BY DEF StepStart
<1>2. /\ jobs \in Seq(JobType) /\ jobs # <<>> /\ jobs[1].do = "step" /\ step.at = "free" /\ Lone
      /\ loop = "awaiting" /\ step.adding = None
  BY <1>1, FirstOther, OrderlyFacts DEF Taking, Turns
<1>3. ~FailQueued
  <2>1. 1 \in DOMAIN jobs  BY <1>2
  <2> QED  BY <1>2, <2>1 DEF FailQueued, Lone
<1>4. \A x \in Ids : Carried(x) => Carried(x)'
  BY <1>1, <1>2, <1>3, ObjFacts DEF Carried, Adding, RaisedNow
<1> QED  BY <1>1, <1>4 DEF Leased

LEMMA DrainLeased ==
  ASSUME IInv, Orderly, Owning, Leased, OwnIds, NEW r \in Ids, Drain(r)
  PROVE  Leased'
<1>1. UNCHANGED <<step, paused>> /\ ~Between  BY DEF Drain, Between
<1> DEFINE t == AbortObject([sched EXCEPT !.pending = @ \ {r}], r, sched.requests[r])
<1>2. Tidy(sched) /\ (Queued(sched, r) => sched.status[Obj(r)] = "waiting")
  BY OrderlyFacts DEF Place
<1>3. /\ t.pending = sched.pending \ {r}
      /\ t.running = [sched.running EXCEPT ![r] = None]
      /\ t.lease = [sched.lease EXCEPT ![r] = "none"]
      /\ \A x \in Ids : Queued(t, x) <=> Queued(sched, x) /\ x # r
  BY <1>2, AbortObjectEffect
<1>4. sched' = t  BY DEF Drain
<1> HIDE DEF t
<1>5. /\ sched'.lease[r] = "none"
      /\ \A x \in Ids \ {r} : /\ sched'.lease[x] = sched.lease[x]
                              /\ sched'.running[x] = sched.running[x]
  BY <1>3, <1>4, OrderlyFacts DEF SchedulerType
<1>6. \A x \in Ids \ {r} :
        \/ Queued(sched, x) \/ sched.running[x] # None \/ x \in sched.pending
        \/ InHand(x) /\ step.at = "insert"
        => Carried(x)'
  BY <1>1, <1>3, <1>4, <1>5 DEF Carried, InHand
<1> QED  BY <1>1, <1>5, <1>6, LeasedInStep

LEMMA MovesLeased ==
  ASSUME IInv, Orderly, Owning, Leased, OwnIds,
         \/ DrainEnd \/ AdmitEnd \/ Reconcile \/ Insert \/ Corrupt
         \/ \E i \in DOMAIN sched.waiting : Admit(i) \/ Defer(i)
  PROVE  Leased'
<1>1. ~Between /\ UNCHANGED <<loop, jobs, paused>>
  BY DEF DrainEnd, AdmitEnd, Reconcile, Insert, Corrupt, Admit, Defer, Between
<1>2. CASE DrainEnd \/ AdmitEnd
  <2>1. UNCHANGED sched /\ step.at # "insert"  BY <1>2 DEF DrainEnd, AdmitEnd
  <2>2. \A x \in Ids : Queued(sched, x) \/ sched.running[x] # None \/ x \in sched.pending
                         => Carried(x)'
    BY <2>1 DEF Carried
  <2> QED  BY <1>1, <2>1, <2>2, LeasedInStep
<1>3. CASE Reconcile
  <2>1. /\ sched'.pending = sched.pending /\ sched'.waiting = sched.waiting
        /\ \A x \in Ids :
             LET reaped == x \in Reaped(sched) IN
             /\ sched'.running[x] = IF reaped THEN None ELSE sched.running[x]
             /\ sched'.lease[x] = IF reaped THEN "none" ELSE sched.lease[x]
    BY <1>3, ReconcileEffect, OrderlyFacts
  <2>2. step.at # "insert"  BY <1>3 DEF Reconcile
  <2>3. \A x \in Ids : sched'.lease[x] = "held" =>
          /\ sched.lease[x] = "held"
          /\ \/ Queued(sched, x) \/ sched.running[x] # None \/ x \in sched.pending
             => Carried(x)'
    BY <2>1 DEF Carried, Queued
  <2> QED  BY <1>1, <2>2, <2>3, LeasedInStep
<1>4. CASE Insert
  <2>1. PICK r \in Ids : InHand(r)  BY <1>4, Inserted DEF Insert
  <2>2. /\ sched'.pending = sched.pending /\ sched'.waiting = sched.waiting
        /\ sched'.running = [sched.running EXCEPT ![r] = Obj(r)]
        /\ \A x \in Ids : sched'.lease[x] \in {sched.lease[x], "none"}
    BY <1>4, <2>1, InsertEffect, OrderlyFacts
  <2>3. /\ sched'.running[r] # None /\ \A x \in Ids : InHand(x) => x = r
        /\ \A x \in Ids \ {r} : sched'.running[x] = sched.running[x]
    BY <2>1, <2>2, ObjFacts, OrderlyFacts DEF SchedulerType, InHand
  <2>4. \A x \in Ids : \/ Queued(sched, x) \/ sched.running[x] # None \/ x \in sched.pending
                       \/ InHand(x) /\ step.at = "insert"
                       => Carried(x)'
    BY <2>2, <2>3 DEF Carried, Queued
  <2>5. \A x \in Ids : sched'.lease[x] = "held" => sched.lease[x] = "held"  BY <2>2
  <2> QED  BY <1>1, <2>4, <2>5, LeasedInStep
<1>5. CASE Corrupt
  <2>1. \A x \in Ids : sched'.lease[x] = "none"
    BY <1>5, RescheduleEffect, OrderlyFacts DEF Corrupt, IInv
  <2> QED  BY <1>1, <2>1, LeasedInStep
<1>6. ASSUME NEW i \in DOMAIN sched.waiting, Admit(i)  PROVE Leased'
  <2>1. PICK r \in Ids :
          /\ step' = [step EXCEPT !.at = "insert", !.admitting = Obj(r)]
          /\ sched'.pending = sched.pending /\ sched'.running = sched.running
          /\ sched'.lease = sched.lease
          /\ \A x \in Ids : Queued(sched', x) <=> Queued(sched, x) /\ x # r
    BY <1>6, AdmitEffect, OrderlyFacts
  <2>2. step'.at = "insert" /\ step'.admitting = Obj(r)  BY <2>1, OrderlyFacts DEF StepType
  <2>3. step.at # "insert"  BY <1>6 DEF Admit
  <2>4. \A x \in Ids : Queued(sched, x) \/ sched.running[x] # None \/ x \in sched.pending
                         => Carried(x)'
    BY <2>1, <2>2 DEF Carried, InHand
  <2> QED  BY <1>1, <2>1, <2>3, <2>4, LeasedInStep
<1>7. ASSUME NEW i \in DOMAIN sched.waiting, Defer(i)  PROVE Leased'
  <2>1. /\ sched'.pending = sched.pending /\ sched'.running = sched.running
        /\ \A x \in Ids : /\ Queued(sched', x) <=> Queued(sched, x)
                          /\ sched'.lease[x] \in {sched.lease[x], "none"}
    BY <1>7, DeferEffect, OrderlyFacts
  <2>2. step.at # "insert"  BY <1>7 DEF Defer
  <2>3. \A x \in Ids : Queued(sched, x) \/ sched.running[x] # None \/ x \in sched.pending
                         => Carried(x)'
    BY <2>1 DEF Carried
  <2>4. \A x \in Ids : sched'.lease[x] = "held" => sched.lease[x] = "held"  BY <2>1
  <2> QED  BY <1>1, <2>2, <2>3, <2>4, LeasedInStep
<1> QED  BY <1>2, <1>3, <1>4, <1>5, <1>6, <1>7

LEMMA EndsLeased ==
  ASSUME IInv, Orderly, Owning, Leased, OwnIds, Decode \/ DecodeNothing \/ StepRaises
  PROVE  Leased'
<1>1. ~Between /\ UNCHANGED paused
  BY DEF Decode, DecodeNothing, StepRaises, EndStep, Between
<1>2. CASE Decode
  <2>1. PICK ends \in [Rows -> {"no", "stop", "length", "repetition"}] :
          LET Done(x) == Decoding(x) /\ ends[Obj(x)] # "no" IN
          /\ sched'.pending = sched.pending /\ sched'.waiting = sched.waiting
          /\ \A x \in Ids :
               /\ sched'.running[x] = IF Done(x) THEN None ELSE sched.running[x]
               /\ Done(x) => sched'.lease[x] \in {"none", "stored"}
               /\ ~Done(x) => sched'.lease[x] = sched.lease[x]
    BY <1>2, DecodeEffect, OrderlyFacts
  <2>2. step.at # "insert"  BY <1>2 DEF Decode
  <2>3. \A x \in Ids : sched'.lease[x] = "held" =>
          /\ sched.lease[x] = "held"
          /\ \/ Queued(sched, x) \/ sched.running[x] # None \/ x \in sched.pending
             => Carried(x)'
    BY <2>1 DEF Carried, Queued
  <2> QED  BY <1>1, <2>2, <2>3, LeasedInStep
<1>3. CASE DecodeNothing
  <2>1. /\ sched'.pending = sched.pending /\ sched'.waiting = sched.waiting
        /\ sched'.running = sched.running /\ sched'.lease = sched.lease
    BY <1>3, OrderlyFacts DEF DecodeNothing, EndStep, SchedulerType
  <2>2. step.at # "insert"  BY <1>3 DEF DecodeNothing
  <2>3. \A x \in Ids : Queued(sched, x) \/ sched.running[x] # None \/ x \in sched.pending
                         => Carried(x)'
    BY <2>1 DEF Carried, Queued
  <2> QED  BY <1>1, <2>1, <2>2, <2>3, LeasedInStep
<1>4. CASE StepRaises
  <2>1. UNCHANGED sched /\ loop' = "raised"  BY <1>4 DEF StepRaises
  <2>2. step'.admitting = step.admitting  BY <1>4, OrderlyFacts DEF StepRaises, StepType
  <2>3. \A x \in Ids : \/ Queued(sched, x) \/ sched.running[x] # None \/ x \in sched.pending
                       \/ InHand(x) /\ step.at = "insert"
                       => Carried(x)'
    BY <2>1, <2>2 DEF Carried, Queued, InHand, RaisedNow
  <2> QED  BY <1>1, <2>1, <2>3, LeasedInStep
<1> QED  BY <1>2, <1>3, <1>4

LEMMA FailOwnLeased ==
  ASSUME IInv, Orderly, Owning, Leased, OwnIds, FailOwn
  PROVE  Leased'
<1>1. step.at = "insert" /\ ~Between /\ UNCHANGED paused  BY DEF FailOwn, EndStep, Between
<1>2. PICK r \in Ids : InHand(r)  BY <1>1, Inserted
<1>3. step.admitting[1] = r /\ \A x \in Ids : InHand(x) => x = r
  BY <1>2, ObjFacts DEF InHand
<1> DEFINE t == AbortAll(sched, {r})
<1>4. sched' = t  BY <1>3 DEF FailOwn, EndStep
<1>5. \A x \in Ids : Queued(sched, x) => sched.status[Obj(x)] = "waiting"
  BY OrderlyFacts DEF Place
<1>6. /\ t.pending = sched.pending
      /\ \A x \in Ids :
           /\ t.running[x] = IF x \in Taken(sched, {r}) THEN None ELSE sched.running[x]
           /\ t.lease[x] = IF x \in Taken(sched, {r}) THEN "none" ELSE sched.lease[x]
           /\ Queued(t, x) <=> Queued(sched, x) /\ x \notin Taken(sched, {r})
  BY <1>5, AbortAllEffect, OrderlyFacts
<1> HIDE DEF t
<1>7. r \in Taken(sched, {r}) \/ r \in sched.pending
  <2>1. sched.status[Obj(r)] = "waiting"  BY <1>2, OrderlyFacts DEF Place
  <2>2. sched.requests[r] = Obj(r) \/ r \in sched.pending
    BY <1>2, OwningFacts DEF Owned, Occupies
  <2> QED  BY <2>1, <2>2 DEF Taken, Unfinished
<1>8. \A x \in Ids : sched'.lease[x] = "held" =>
        /\ sched.lease[x] = "held"
        /\ \/ Queued(sched, x) \/ sched.running[x] # None \/ x \in sched.pending
           \/ InHand(x) /\ step.at = "insert"
           => Carried(x)'
  BY <1>3, <1>4, <1>6, <1>7 DEF Carried
<1> QED  BY <1>1, <1>8, LeasedInStep

LEMMA FailuresLeased ==
  ASSUME IInv, Orderly, Owning, Leased, OwnIds, Recovers, FailStep \/ FailJob
  PROVE  Leased'
<1> DEFINE F == Failing(sched, step.admitting)
<1>1. sched' = FailShared(sched, step.admitting) /\ UNCHANGED paused /\ step.adding = None
  <2>1. CASE FailStep
    BY <2>1, OrderlyFacts DEF FailStep, EndStep, Turns
  <2>2. CASE FailJob
    <3>1. Taking("fail")  BY <2>2 DEF FailJob
    <3>2. /\ jobs \in Seq(JobType) /\ jobs # <<>> /\ jobs[1].do = "fail"
      BY <3>1, OrderlyFacts DEF Taking
    <3>3. 1 \in DOMAIN jobs  BY <3>2
    <3>4. "recovery" \notin Faults
      BY <3>2, <3>3, OwningFacts DEF NoLost, FailQueued, Recovers
    <3>5. step.adding = None  BY <3>1, FirstOther
    <3> QED  BY <2>2, <3>4, <3>5 DEF FailJob
  <2> QED  BY <2>1, <2>2
<1>2. /\ sched'.pending = sched.pending
      /\ \A x \in Ids :
           /\ Queued(sched', x) <=> Queued(sched, x) /\ ~(x \in F /\ sched.requests[x] = Obj(x))
           /\ sched'.lease[x] = IF \/ sched.running[x] # None
                                   \/ /\ x \in F /\ sched.requests[x] = Obj(x)
                                      /\ sched.status[Obj(x)] \in Unfinished
                                THEN "none" ELSE sched.lease[x]
  <2>1. Tidy(sched) /\ \A x \in Ids : Settled1(sched, x)  BY OrderlyFacts
  <2> QED  BY <1>1, <2>1, FailSharedEffect
<1>3. \A x \in Ids : InHand(x) => x \in F
  BY ObjFacts DEF InHand, Failing
<1>4. \A x \in Ids : ~Adding(x)  BY <1>1, ObjFacts DEF Adding
<1>5. \A x \in Ids : Queued(sched, x) \/ InHand(x) => sched.status[Obj(x)] \in Unfinished
  BY OrderlyFacts DEF Place, Unfinished
<1>6. \A x \in Ids : InHand(x) => sched.requests[x] = Obj(x) \/ x \in sched.pending
  BY OwningFacts DEF Owned, Occupies
<1> HIDE DEF F
<1>7. \A x \in Ids : sched'.lease[x] = "held" => sched.lease[x] = "held" /\ Carried(x)'
  BY <1>2, <1>3, <1>4, <1>5, <1>6 DEF Carried, Leased
<1> QED  BY <1>1, <1>7 DEF Leased

LEMMA LeasedPreserved ==
  ASSUME OwnIds, Recovers, NeverPaused, IInv, Orderly, Owning, Leased, [Next]_vars
  PROVE  Leased'
<1>1. CASE UNCHANGED vars
  BY <1>1, LeasedFrame DEF vars, RaisedNow, FailQueued
<1>2. CASE Pause \/ Loop  BY <1>2, EngineLoopLeased
<1>3. ASSUME NEW r \in Ids, Client(r) \/ Outside(r)  PROVE Leased'
  BY <1>3, ClientLeased
<1>4. CASE Worker
  <2>1. CASE AddRefused \/ AddStart \/ AddCommit \/ AddRaises  BY <2>1, AddingLeased
  <2>2. CASE StepStart \/ Decode \/ DecodeNothing \/ StepRaises
    BY <2>2, StepStartLeased, EndsLeased
  <2>3. CASE DrainEnd \/ AdmitEnd \/ Reconcile \/ Insert \/ Corrupt  BY <2>3, MovesLeased
  <2>4. CASE FailOwn \/ FailStep \/ FailJob
    BY <2>4, FailOwnLeased, FailuresLeased
  <2>5. ASSUME NEW r \in Ids, Drain(r)  PROVE Leased'
    BY <2>5, DrainLeased
  <2>6. ASSUME NEW i \in DOMAIN sched.waiting, Admit(i) \/ Defer(i)  PROVE Leased'
    BY <2>6, MovesLeased
  <2> QED  BY <1>4, <2>1, <2>2, <2>3, <2>4, <2>5, <2>6 DEF Worker
<1> QED  BY <1>1, <1>2, <1>3, <1>4 DEF Next

(* When admission is, besides, never paused between the prefix cache's hit *)
(* and _commit_request, blocks held for a hit belong to a request that is  *)
(* on its way through the scheduler or whose abort is queued.              *)
THEOREM LeasesAreOwned ==
  ASSUME OwnIds, Recovers, NeverPaused
  PROVE  Spec => []LeasesHaveOwners
<1>1. Init => Leased  BY DEF Init, Leased
<1>2. IInv /\ Orderly /\ Owning /\ Leased /\ [Next]_vars => Leased'
  BY LeasedPreserved
<1>3. Spec => []Leased  BY <1>1, <1>2, OwningInvariant, PTL DEF Spec
<1>4. IInv /\ Orderly /\ Leased => LeasesHaveOwners
  <2> SUFFICES ASSUME IInv, Orderly, Leased, NEW r \in Ids, sched.lease[r] = "held"
               PROVE  \/ step.adding # None /\ step.adding[1] = r
                      \/ \E o \in Live : o[1] = r
                      \/ r \in sched.pending
    BY DEF LeasesHaveOwners
  <2>1. Obj(r)[1] = r /\ Obj(r) # None  BY ObjFacts
  <2>2. Carried(r)  BY DEF Leased
  <2>3. CASE Adding(r)  BY <2>1, <2>3 DEF Adding
  <2>4. CASE Queued(sched, r)  BY <2>1, <2>4 DEF Queued, Live
  <2>5. CASE sched.running[r] # None
    <3>1. sched.running[r] = Obj(r)  BY <2>5, OrderlyFacts DEF Place
    <3> QED  BY <2>1, <2>5, <3>1 DEF Live, InBatch, Running
  <2>6. CASE InHand(r) /\ (step.at = "insert" \/ RaisedNow)
    <3>1. step.at = "insert" \/ Raised  BY <2>6 DEF RaisedNow, Raised, FailQueued
    <3>2. Obj(r) \in Admitting  BY <2>1, <2>6, <3>1 DEF Admitting, InHand
    <3> QED  BY <2>1, <3>2 DEF Live
  <2> QED  BY <2>2, <2>3, <2>4, <2>5, <2>6 DEF Carried
<1> QED  BY <1>3, <1>4, OwningInvariant, PTL

=============================================================================
