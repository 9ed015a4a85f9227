---------------------------- MODULE MCPagedCache ----------------------------
(* PagedCache on three blocks and two requests.  The prompt of the second  *)
(* is a prefix of the first's, whose second chunk also names a one-chunk   *)
(* prefix: what a chunk-local hash would confuse it with.                  *)
EXTENDS PagedCache, TLC
CONSTANTS b1, b2, b3, r1, r2, x, y
MCBlocks == {b1, b2, b3}
MCRequests == {r1, r2}
MCChunks == {x, y}
MCPrompt == [r \in Requests |-> IF r = r2 THEN <<x>> ELSE <<x, y>>]
MCPrefixes == {<<x>>, <<y>>, <<x, y>>}
Symmetry == Permutations(Blocks)
=============================================================================
