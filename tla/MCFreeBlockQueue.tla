-------------------------- MODULE MCFreeBlockQueue --------------------------
(* FreeBlockQueue on four blocks: long enough for a window of two to skip  *)
(* pinned blocks in front of, between and behind the candidates.           *)
EXTENDS FreeBlockQueue, TLC
CONSTANTS b1, b2, b3, b4
MCBlocks == {b1, b2, b3, b4}
=============================================================================
