----------------------------- MODULE TokenStream -----------------------------
(***************************************************************************)
(* What the engine promises the client of a request: it receives the       *)
(* tokens generated for it, each once and in order (so a count says which  *)
(* ones), and a stream that ends normally has delivered all of them.       *)
(* Everything between the batch and the client (the step's output, the     *)
(* interval buffer, the collector that merges when the client is slow) is  *)
(* hidden: RequestLifecycle implements this specification.                 *)
(***************************************************************************)
EXTENDS Naturals

CONSTANTS Ids,    \* request ids
          Ends    \* the ways a stream ends before all of it is delivered,
                  \* other than "none" and "done"

VARIABLES made,   \* tokens generated for the current request of an id
          got,    \* tokens its client has received
          fate    \* how its stream ended, "none" while it is open

vars == <<made, got, fate>>

TypeOK == /\ made \in [Ids -> Nat]
          /\ got \in [Ids -> Nat]
          /\ fate \in [Ids -> Ends \cup {"none", "done"}]

Init == /\ made = [r \in Ids |-> 0]
        /\ got = [r \in Ids |-> 0]
        /\ fate = [r \in Ids |-> "none"]

(* A client submits a request; the id may be one an ended request had.     *)
Open(r) == /\ made' = [made EXCEPT ![r] = 0]
           /\ got' = [got EXCEPT ![r] = 0]
           /\ fate' = [fate EXCEPT ![r] = "none"]

(* One step of the batch: a token for each of some requests.  A request    *)
(* whose client left may still get some, one that ended normally may not.  *)
Generate(R) == /\ \A r \in R : fate[r] # "done"
               /\ made' = [r \in Ids |-> made[r] + IF r \in R THEN 1 ELSE 0]
               /\ UNCHANGED <<got, fate>>

(* The client reads the next tokens of those generated.                    *)
Receive(r) == /\ fate[r] = "none"
              /\ \E n \in got[r]..made[r] : got' = [got EXCEPT ![r] = n]
              /\ UNCHANGED <<made, fate>>

(* The stream ends normally: with this read the client has them all.       *)
Finish(r) == /\ fate[r] = "none"
             /\ got' = [got EXCEPT ![r] = made[r]]
             /\ fate' = [fate EXCEPT ![r] = "done"]
             /\ UNCHANGED made

(* The stream ends with an error or a cancellation, or its client leaves.  *)
Break(r) == /\ fate[r] = "none"
            /\ \E n \in got[r]..made[r] : got' = [got EXCEPT ![r] = n]
            /\ \E e \in Ends : fate' = [fate EXCEPT ![r] = e]
            /\ UNCHANGED made

Next == \/ \E r \in Ids : Open(r) \/ Receive(r) \/ Finish(r) \/ Break(r)
        \/ \E R \in SUBSET Ids : Generate(R)

Spec == Init /\ [][Next]_vars

=============================================================================
