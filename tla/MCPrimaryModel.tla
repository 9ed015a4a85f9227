--------------------------- MODULE MCPrimaryModel ---------------------------
(* PrimaryModel with three requests: one that waits behind the lock, one   *)
(* that shares a load and one that comes between.                          *)
EXTENDS PrimaryModel, TLC
CONSTANTS p, q, s
=============================================================================
