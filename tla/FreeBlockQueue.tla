--------------------------- MODULE FreeBlockQueue ---------------------------
(***************************************************************************)
(* FreeKVCacheBlockQueue of rapid_mlx/paged_cache.py: the doubly linked    *)
(* list of free KV blocks, with two sentinel nodes and a counter kept      *)
(* beside the list.  Every operation rewires the pointers of the blocks in *)
(* place; the caller holds the manager's lock, so operations are atomic.   *)
(***************************************************************************)
EXTENDS Integers, FiniteSets, SeqKeep

CONSTANTS Blocks, FakeHead, FakeTail,  \* the blocks and the two sentinels
          None,                \* a cleared pointer
          Window               \* default window of popleft_lfu

(* A pool has at least the null block its manager sets aside; the          *)
(* sentinels are nodes of their own, and None is no node.                  *)
ASSUME BlocksAssumption == IsFiniteSet(Blocks) /\ Blocks # {}
ASSUME SentinelAssumption == /\ {FakeHead, FakeTail, None} \cap Blocks = {}
                             /\ FakeHead # FakeTail
                             /\ None \notin {FakeHead, FakeTail}
ASSUME WindowAssumption == Window \in Nat

VARIABLES links,   \* [next, prev]: the pointers of every node
          num,     \* num_free_blocks
          pinned,  \* blocks whose is_pinned flag is set
          lost,    \* history: blocks a failed popleft_n unlinked and forgot
          given    \* history: the blocks the last pop returned to its caller

vars == <<links, num, pinned, lost, given>>

Nodes == Blocks \cup {FakeHead, FakeTail}

(* The blocks found by walking from the head sentinel.                     *)
Listed(l) ==
  LET hop[k \in 0..Cardinality(Blocks)] ==
        IF k = 0 THEN l.next[FakeHead]
        ELSE IF hop[k - 1] \in Blocks THEN l.next[hop[k - 1]] ELSE hop[k - 1]
  IN  Keep([i \in 1..(Cardinality(Blocks) + 1) |-> hop[i - 1]], Blocks)

Free == ToSet(Listed(links))

UnpinnedForgotten == Listed(links)  \* slip: pins are not skipped

Unpinned == Keep(Listed(links), Blocks \ pinned)

LinkAll(l, s) ==  \* append_n: chain the blocks of s behind the last one
  LET last == l.prev[FakeTail]
      pred(i) == IF i = 1 THEN last ELSE s[i - 1]
      succ(i) == IF i = Len(s) THEN FakeTail ELSE s[i + 1]
      at(x) == CHOOSE i \in 1..Len(s) : s[i] = x
  IN  [next |-> [x \in Nodes |-> IF x \in ToSet(s) THEN succ(at(x))
                                 ELSE IF x = last THEN s[1] ELSE l.next[x]],
       prev |-> [x \in Nodes |-> IF x \in ToSet(s) THEN pred(at(x))
                                 ELSE IF x = FakeTail THEN s[Len(s)] ELSE l.prev[x]]]

UnlinkDangling(l, b) ==  \* slip: the block keeps its own pointers
  [next |-> [l.next EXCEPT ![l.prev[b]] = l.next[b]],
   prev |-> [l.prev EXCEPT ![l.next[b]] = l.prev[b]]]

Unlink(l, b) ==
  [next |-> [l.next EXCEPT ![l.prev[b]] = l.next[b], ![b] = None],
   prev |-> [l.prev EXCEPT ![l.next[b]] = l.prev[b], ![b] = None]]

UnlinkAll(l, s) == FoldLeft(Unlink, l, s)  \* one after the other

Empty == [next |-> [x \in Nodes |-> IF x = FakeHead THEN FakeTail ELSE None],
          prev |-> [x \in Nodes |-> IF x = FakeTail THEN FakeHead ELSE None]]

Init == /\ links = LinkAll(Empty, SetToSeq(Blocks))
        /\ num = Cardinality(Blocks)
        /\ pinned = {}
        /\ lost = {}
        /\ given = {}

(* popleft: the first unpinned block; ValueError when there is none.       *)
PopLeft == /\ Unpinned # <<>>
           /\ links' = Unlink(links, Unpinned[1])
           /\ given' = {Unpinned[1]}
           /\ num' = num - 1
           /\ UNCHANGED <<pinned, lost>>

(* popleft_lfu: the least used of the first Window unpinned blocks.  The   *)
(* access counts are abstracted: any candidate may be the least used one.  *)
PopLeftLfu == /\ \E i \in 1..Len(Unpinned) :
                    /\ i <= Window
                    /\ links' = Unlink(links, Unpinned[i])
                    /\ given' = {Unpinned[i]}
              /\ num' = num - 1
              /\ UNCHANGED <<pinned, lost>>

(* popleft_n: unlinks as it walks; the counter is only updated at the end, *)
(* so meeting the tail first (AssertionError) leaves it untouched.         *)
PopLeftN(n) ==
  LET taken == SubSeq(Unpinned, 1, IF n < Len(Unpinned) THEN n ELSE Len(Unpinned))
  IN  /\ num >= n
      /\ links' = UnlinkAll(links, taken)
      /\ IF Len(taken) = n
         THEN num' = num - n /\ given' = ToSet(taken) /\ UNCHANGED lost
         ELSE lost' = lost \cup ToSet(taken) /\ given' = {} /\ UNCHANGED num
      /\ UNCHANGED pinned

RemoveUncounted(b) ==  \* slip: the list shrinks, the counter does not
  /\ links.prev[b] # None /\ links.next[b] # None
  /\ links' = Unlink(links, b)
  /\ given' = {}
  /\ UNCHANGED <<num, pinned, lost>>

(* remove: RuntimeError when the block is not linked.                      *)
RemoveBlock(b) == /\ links.prev[b] # None /\ links.next[b] # None
                  /\ links' = Unlink(links, b)
                  /\ num' = num - 1
                  /\ given' = {}
                  /\ UNCHANGED <<pinned, lost>>

(* append and append_n: the manager returns blocks it had handed out.      *)
Append_n(s) == /\ s # <<>>
               /\ ToSet(s) \cap (Free \cup lost) = {}
               /\ links' = LinkAll(links, s)
               /\ num' = num + Len(s)
               /\ given' = {}
               /\ UNCHANGED <<pinned, lost>>

(* pin_blocks pins a handed-out block; unpin_blocks unpins any block.      *)
Pin(b) == /\ b \notin Free \cup lost
          /\ pinned' = pinned \cup {b}
          /\ given' = {}
          /\ UNCHANGED <<links, num, lost>>

Unpin(b) == /\ b \in pinned
            /\ pinned' = pinned \ {b}
            /\ given' = {}
            /\ UNCHANGED <<links, num, lost>>

Next == \/ PopLeft
        \/ PopLeftLfu
        \/ \E n \in 1..Cardinality(Blocks) : PopLeftN(n)
        \/ \E b \in Blocks : RemoveBlock(b) \/ Pin(b) \/ Unpin(b)
        \/ \E s \in SetToAllKPermutations(Blocks) : Append_n(s)

Spec == Init /\ [][Next]_vars
-----------------------------------------------------------------------------
(* The two directions of the list agree: a block reached by walking has    *)
(* both pointers and each neighbour points back at it; a block that is not *)
(* reached has neither, which is what remove() tests before unlinking.     *)
LinksAgree ==
  /\ \A b \in Blocks : (b \in Free) <=> (links.next[b] # None)
  /\ \A b \in Blocks : (links.next[b] # None) <=> (links.prev[b] # None)
  /\ \A b \in Free : /\ links.next[links.prev[b]] = b
                     /\ links.prev[links.next[b]] = b

(* Pointers, counter and pins keep their types, and the pointers agree.    *)
TypeOK == /\ links \in [next : [Nodes -> Nodes \cup {None}],
                        prev : [Nodes -> Nodes \cup {None}]]
          /\ num \in 0..Cardinality(Blocks)
          /\ pinned \subseteq Blocks
          /\ lost \subseteq Blocks
          /\ given \subseteq Blocks
          /\ LinksAgree

(* num_free_blocks, which allocate_block and get_new_blocks test before    *)
(* they touch the list, is the length of the list plus the blocks failed   *)
(* calls of popleft_n dropped from it: those are counted for ever.         *)
CountIsLengthPlusLost == num = Len(Listed(links)) + Cardinality(lost)

(* The pointer surgery implements the queue of FreeQueueSpec: order kept,  *)
(* only unpinned blocks taken by pops, returned blocks at the far end.     *)
Abstract == INSTANCE FreeQueueSpec WITH queue <- Listed(links)
ImplementsQueue == Abstract!QueueSpec
=============================================================================
