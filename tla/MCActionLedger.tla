--------------------------- MODULE MCActionLedger ---------------------------
(***************************************************************************)
(* An instance of ActionLedger: a turn t with helpers j and k, and a later *)
(* turn s.  w1 and w2 write the file, r1, r2 and r3 run one command.       *)
(***************************************************************************)
EXTENDS ActionLedger, TLC

CONSTANTS t, s, j, k, u1, u2, w1, w2, r1, r2, r3

MCParentOf == [h \in Children |-> t]
MCAgentOf == [c \in Calls |-> CASE c \in {w1, r2} -> k [] c = r3 -> j [] c = w2 -> t [] OTHER -> s]
MCKeyOf == [c \in Calls |-> CASE c = w1 -> "write1" [] c = w2 -> "write2" [] OTHER -> "run"]
MCBranchOf == [u \in Turns |-> "main"]
MCAfter == [c \in FileCalls |-> IF c = w1 THEN "one" ELSE "two"]

=============================================================================
