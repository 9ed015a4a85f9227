---------------------------- MODULE StreamOutputs ----------------------------
(***************************************************************************)
(* RequestOutput and the three places that combine outputs on their way to *)
(* a client: RequestOutputCollector of rapid_mlx/output_collector.py, the  *)
(* interval buffer of EngineCore and RequestStreamState.  An output keeps  *)
(* what decides the end of a stream: how many tokens it carries, how many  *)
(* were generated in all, its finish reason ("no" until finished) and its  *)
(* error with the discriminator that says how to treat it.                 *)
(***************************************************************************)
EXTENDS Naturals

CONSTANT None   \* no output, no object

Reasons == {"no", "stop", "length", "abort", "cancelled"}

Errors == {"none", "repetition", "failure"}

Outputs(N) == [n : 0..N, total : 0..N, fin : Reasons, err : Errors]

Out(n, total, fin, err) ==
  [n |-> n, total |-> total, fin |-> fin, err |-> err]

Finished(o) == o.fin # "no"

(* The error and its kind are taken together, from the newer output when   *)
(* it has an error; finish state and totals are always the newer one's.    *)
MergeOutputs(old, new) ==
  Out(old.n + new.n, new.total, new.fin,
      IF new.err # "none" THEN new.err ELSE old.err)

(* A collector whose mutant keeps only the newest output (aggregate off).  *)
PutReplacing(old, new) == new

Put(old, new) == IF old = None THEN new ELSE MergeOutputs(old, new)

(* The buffer of an interval threads error but not error_kind, so every    *)
(* error leaves it as one without a kind.                                  *)
MergeStreamBuffer(buf, new) ==
  LET old == IF buf = None THEN Out(0, 0, "no", "none") ELSE buf
  IN  Out(old.n + new.n, new.total, new.fin,
          IF new.err # "none" THEN "failure" ELSE old.err)

ShouldSend(sent, total, fin, interval) ==
  fin \/ sent = 0 \/ total - sent >= interval

=============================================================================
