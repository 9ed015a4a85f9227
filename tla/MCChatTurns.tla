---------------------------- MODULE MCChatTurns ----------------------------
(***************************************************************************)
(* Instances of ChatTurns: turn t1 with helpers and the readers that       *)
(* follow it, and in ChatBranches a second turn t2 of the same branch.     *)
(***************************************************************************)
EXTENDS ChatTurns, TLC

CONSTANTS t1, t2, h1, h2, main, p, q

MCBranchOf == [t \in Turns |-> main]
MCParentOf == [h \in Helpers |-> t1]
MCFollowed == [r \in Readers |-> t1]

=============================================================================
