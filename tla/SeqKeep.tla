------------------------------ MODULE SeqKeep ------------------------------
(* What a walk along a list finds when it skips some elements.  SelectSeq  *)
(* says the same, but this definition can be expanded in a proof.          *)
EXTENDS Sequences, SequencesExt

(* The elements of q that belong to S, in the order they have in q.        *)
Keep(q, S) ==
  FoldLeft(LAMBDA kept, b : IF b \in S THEN Append(kept, b) ELSE kept, <<>>, q)
=============================================================================
