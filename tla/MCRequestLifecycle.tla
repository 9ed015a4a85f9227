------------------------- MODULE MCRequestLifecycle -------------------------
(***************************************************************************)
(* Instances of RequestLifecycle: request a streams, request b is awaited  *)
(* by generate().                                                          *)
(***************************************************************************)
EXTENDS RequestLifecycle, TLC

CONSTANTS a, b

=============================================================================
