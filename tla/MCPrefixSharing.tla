--------------------------- MODULE MCPrefixSharing ---------------------------
(* PrefixSharing on three blocks of two tokens.  The texts repeat a chunk  *)
(* and share two blocks, and stored with different ends do not both fit.   *)
EXTENDS PrefixSharing, TLC
CONSTANTS b1, b2, b3, r1, r2, x, y
MCBlocks == {b1, b2, b3}
MCRequests == {r1, r2}
MCText == [r \in Requests |-> IF r = r1 THEN <<x, x, x, x>> ELSE <<x, x, x, x, y>>]
MCAsked == [r \in Requests |-> IF r = r1 THEN 2 ELSE 4]
MCPrefixes == UNION {{SubSeq(MCText[r], 1, i) : i \in 1..Len(MCText[r])} : r \in Requests}
MCSystem == {r1}
Symmetry == Permutations(Blocks)
=============================================================================
