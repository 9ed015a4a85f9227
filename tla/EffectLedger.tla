---------------------------- MODULE EffectLedger ----------------------------
(***************************************************************************)
(* What a ledger of outside effects promises about each call, whatever     *)
(* stops or dies in between:                                               *)
(*   - a call takes effect at most once, and only after the intention was  *)
(*     permitted and then committed;                                       *)
(*   - a refused call never takes effect, not even later;                  *)
(*   - "succeeded" and "failed" are claims about an effect that was made;  *)
(*     a call whose fate nobody saw is "unknown", and stays so: a settled  *)
(*     entry is never rewritten and its call never tried again.            *)
(* ActionLedger implements this specification.                             *)
(***************************************************************************)
EXTENDS Naturals

CONSTANT Calls

VARIABLES
  phase,  \* where each call's entry stands
  times   \* how often the call has acted on the world

vars == <<phase, times>>

Settled == {"succeeded", "failed", "unknown"}
Phases == {"unseen", "proposed", "permitted", "committed", "refused"} \cup Settled

Init ==
  /\ phase = [c \in Calls |-> "unseen"]
  /\ times = [c \in Calls |-> 0]

Move(c, from, to) ==
  /\ phase[c] \in from
  /\ phase' = [phase EXCEPT ![c] = to]
  /\ UNCHANGED times

\* Entries are opened by a call, permitted by someone, then committed.
Propose(c) == Move(c, {"unseen"}, "proposed") \/ Move(c, {"unseen"}, "permitted")
Permit(c) == Move(c, {"proposed"}, "permitted")
Commit(c) == Move(c, {"permitted"}, "committed")

\* The effect: only of a committed entry, and only once.
Act(c) ==
  /\ phase[c] = "committed"
  /\ times[c] = 0
  /\ times' = [times EXCEPT ![c] = 1]
  /\ UNCHANGED phase

\* A known outcome is a claim about an effect that was made.
Settle(c, outcome) ==
  /\ outcome # "unknown" => times[c] = 1
  /\ Move(c, {"committed"}, outcome)

\* Any set of open entries may be closed together: what was not committed is
\* refused, what was committed is unknown.
Close(S) ==
  /\ phase' = [c \in Calls |->
       CASE c \in S /\ phase[c] \in {"proposed", "permitted"} -> "refused"
         [] c \in S /\ phase[c] = "committed" -> "unknown"
         [] OTHER -> phase[c]]
  /\ UNCHANGED times

Next ==
  \/ \E c \in Calls : Propose(c) \/ Permit(c) \/ Commit(c) \/ Act(c)
  \/ \E c \in Calls, outcome \in Settled : Settle(c, outcome)
  \/ \E S \in SUBSET Calls : Close(S)

Spec == Init /\ [][Next]_vars

=============================================================================
