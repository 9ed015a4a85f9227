---------------------------- MODULE ActionLedger ----------------------------
(***************************************************************************)
(* Side-effecting tool calls of a chat conversation: a file replaced or a  *)
(* process run by the model's agents, journalled in the store so that no   *)
(* effect is made without permission, none is made twice, and one that was *)
(* cut short is recorded as unknown.                                       *)
(*                                                                         *)
(* A call's body runs under the conversation's lock in segments between    *)
(* awaits; each action is one segment ending in the store write it         *)
(* enqueues.  The store applies every write and read in one FIFO on one    *)
(* thread, so a write takes its place when it is enqueued, also when its   *)
(* caller is cancelled before the acknowledgement.  The process may be     *)
(* killed between any two segments.                                        *)
(*                                                                         *)
(* An agent is the task of a turn or of a helper (child run) of a turn;    *)
(* the turn's branch, its fence and its event log are in ChatTurns.        *)
(***************************************************************************)
EXTENDS Naturals, Sequences

CONSTANTS
  Calls,      \* the action tool calls the model makes
  Turns,      \* turns of the conversation (an agent each)
  Children,   \* helpers delegated by turns (an agent each)
  ParentOf,   \* the turn of a helper
  AgentOf,    \* the agent that makes a call
  KeyOf,      \* (tool, arguments) of a call
  FileCalls,  \* calls that replace the file; the others run a process
  After,      \* the contents a file call writes
  Reviewed,   \* keys whose policy always asks the user
  BranchOf,   \* the branch a turn runs on
  Fresh,      \* branches made by an edit or a regeneration
  Undos,      \* ids of undo requests
  Original,   \* the file's first contents
  Foreign,    \* contents written by someone outside the program
  MaxEdits,   \* bound on outside edits
  MaxCrashes, \* bound on kills of the owner process
  MaxFaults,  \* bound on failing store writes and errors of file and undo
  None        \* no call, no undo, no contents

Agents == Turns \cup Children
TurnOf == [a \in Agents |-> IF a \in Children THEN ParentOf[a] ELSE a]
CallsOf(a) == {c \in Calls : AgentOf[c] = a}
Contents == {Original} \cup Foreign \cup {After[c] : c \in FileCalls}

Outcomes == {"succeeded", "failed_known", "outcome_unknown"}
Open == {"intent", "approved", "dispatched"}
States == {"none", "denied", "cancelled_before_effect"} \cup Open \cup Outcomes

ASSUME ConstantsAssumption ==
  /\ Turns \cap Children = {} /\ ParentOf \in [Children -> Turns]
  /\ AgentOf \in [Calls -> Agents]
  /\ FileCalls \subseteq Calls
  /\ None \notin Calls \cup Undos \cup Contents
  /\ Calls \cap Undos = {}
  /\ MaxEdits \in Nat /\ MaxCrashes \in Nat /\ MaxFaults \in Nat

\* Contents that someone else wrote can be told from those the calls write.
ASSUME ForeignAssumption == Foreign \cap {After[c] : c \in FileCalls} = {}

VARIABLES
  \* rows of the store
  op,       \* state of each call's action_operations row
  by,       \* decided_by of the row
  order,    \* calls by created_at
  undo,     \* state of each undo's row
  target,   \* the call whose checkpoint an undo restores
  undone,   \* undo_id of each call's checkpoint
  scope,    \* status of each turn and subrun: "idle", "running", "ended"
  \* the owner process
  up,       \* it is alive
  agent,    \* each agent's task: "idle", "live", "ending"
  pc,       \* where each call's body is; an outcome while its settlement is due
  pre,      \* contents the call's preview was made from
  upc,      \* where each undo's task is
  lock,     \* holder of the conversation's lock
  \* the world
  file,     \* contents of the file
  times,    \* how often each call replaced the file or spawned its process
  used,     \* edits, crashes and faults so far
  raced     \* someone edited the file since whoever is replacing it compared it

rows == <<op, by, order, undo, target, undone, scope>>
world == <<file, times, used, raced>>
vars == <<rows, up, agent, pc, pre, upc, lock, world>>

Init ==
  /\ op = [c \in Calls |-> "none"]
  /\ by = [c \in Calls |-> None]
  /\ order = <<>>
  /\ undo = [u \in Undos |-> "none"]
  /\ target = [u \in Undos |-> None]
  /\ undone = [c \in Calls |-> None]
  /\ scope = [a \in Agents |-> "idle"]
  /\ up = TRUE
  /\ agent = [a \in Agents |-> "idle"]
  /\ pc = [c \in Calls |-> "idle"]
  /\ pre = [c \in Calls |-> None]
  /\ upc = [u \in Undos |-> "idle"]
  /\ lock = None
  /\ file = Original
  /\ times = [c \in Calls |-> 0]
  /\ used = [edits |-> 0, crashes |-> 0, faults |-> 0]
  /\ raced = FALSE

Live(c) == agent[AgentOf[c]] = "live"
TurnIsRunning(c) == scope[TurnOf[AgentOf[c]]] = "running"

\* The body of a call ends: the lock is free again.
Leave(c) ==
  /\ pc' = [pc EXCEPT ![c] = "done"]
  /\ lock' = IF lock = c THEN None ELSE lock

\* No call of S was created after c.
Latest(c, S) ==
  /\ c \in S
  /\ \E i \in DOMAIN order : /\ order[i] = c
                            /\ \A j \in DOMAIN order : j > i => order[j] \notin S

-----------------------------------------------------------------------------
(* Opening an operation                                                    *)

Executed(c) == {d \in Calls : KeyOf[d] = KeyOf[c] /\ op[d] \in Outcomes}

\* The latest executed operation with the same tool and arguments decides.
MustAsk(c) ==
  \/ KeyOf[c] \in Reviewed
  \/ BranchOf[TurnOf[AgentOf[c]]] \in Fresh
  \/ \E d \in Executed(c) : Latest(d, Executed(c)) /\ op[d] = "outcome_unknown"

\* The body takes the lock, reads the file for the preview and creates the
\* row; arguments that cannot be prepared are journalled too, as a call to ask.
Create(c, valid) ==
  /\ Live(c) /\ pc[c] = "idle" /\ lock = None /\ TurnIsRunning(c)
  /\ lock' = c
  /\ pre' = [pre EXCEPT ![c] = IF c \in FileCalls /\ valid THEN file ELSE None]
  /\ order' = Append(order, c)
  /\ IF valid /\ ~MustAsk(c)
       THEN /\ op' = [op EXCEPT ![c] = "approved"]
            /\ by' = [by EXCEPT ![c] = "policy"]
            /\ pc' = [pc EXCEPT ![c] = "created"]
       ELSE /\ op' = [op EXCEPT ![c] = "intent"]
            /\ UNCHANGED by
            /\ pc' = [pc EXCEPT ![c] = IF valid THEN "asking" ELSE "invalid"]
  /\ UNCHANGED <<undo, target, undone, scope, up, agent, upc, world>>

\* A row for invalid arguments is closed at once, unless someone decided it.
Reject(c) ==
  /\ pc[c] = "invalid"
  /\ op' = [op EXCEPT ![c] = IF @ = "intent" THEN "cancelled_before_effect" ELSE @]
  /\ Leave(c)
  /\ UNCHANGED <<by, order, undo, target, undone, scope, up, agent, pre, upc, world>>

\* A row created undecided defers the call, answered meanwhile or not; the lock
\* is free until it goes on.
Defer(c) ==
  /\ pc[c] = "asking"
  /\ pc' = [pc EXCEPT ![c] = "asked"]
  /\ lock' = None
  /\ UNCHANGED <<rows, up, agent, pre, upc, world>>

Decided(c, verdict, who) ==
  /\ op[c] = "intent" /\ TurnIsRunning(c)
  /\ op' = [op EXCEPT ![c] = verdict]
  /\ by' = [by EXCEPT ![c] = who]
  /\ UNCHANGED <<order, undo, target, undone, scope, up, agent, pc, pre, upc, lock, world>>

\* The user may answer as soon as the row exists.
Respond(c, verdict) == up /\ Decided(c, verdict, "user")

\* The waiter denies an operation whose time has run out.
Expire(c) == pc[c] = "asked" /\ Decided(c, "denied", "timeout")

\* The waiter goes on with an answer: with a refusal the call is over.
GiveUp(c) ==
  /\ pc[c] = "asked" /\ op[c] \notin {"intent", "approved"}
  /\ Leave(c)
  /\ UNCHANGED <<rows, up, agent, pre, upc, world>>

Resume(c) ==
  /\ pc[c] = "asked" /\ op[c] = "approved" /\ lock = None
  /\ lock' = c
  /\ pc' = [pc EXCEPT ![c] = "created"]
  /\ UNCHANGED <<rows, up, agent, pre, upc, world>>

-----------------------------------------------------------------------------
(* Dispatch, effect, settlement                                            *)

Changed(c) == c \in FileCalls /\ file # pre[c]

\* The file is read again after the approval.
Abandon(c) ==
  /\ pc[c] = "created" /\ op[c] = "approved" /\ Changed(c)
  /\ op' = [op EXCEPT ![c] = "cancelled_before_effect"]
  /\ Leave(c)
  /\ UNCHANGED <<by, order, undo, target, undone, scope, up, agent, pre, upc, world>>

\* The fence on the turn's revision never trips while the turn runs
\* (ChatTurns!RunningTurnOwnsBranch).
Dispatch(c) ==
  /\ pc[c] = "created" /\ op[c] = "approved" /\ ~Changed(c)
  /\ TurnIsRunning(c)
  /\ op' = [op EXCEPT ![c] = "dispatched"]
  /\ pc' = [pc EXCEPT ![c] = "dispatched"]
  /\ UNCHANGED <<by, order, undo, target, undone, scope, up, agent, pre, upc, lock, world>>

\* replace_image compares once more, writes the contents beside the file and
\* renames them over it.  It never awaits, but whoever else writes the file does
\* not wait for it.
Compare(c) ==
  /\ c \in FileCalls /\ pc[c] = "dispatched"
  /\ pc' = [pc EXCEPT ![c] = IF file = pre[c] THEN "checked" ELSE "outcome_unknown"]
  /\ UNCHANGED <<rows, up, agent, pre, upc, lock, world>>

Replace(c) ==
  /\ pc[c] = "checked"
  /\ file' = After[c]
  /\ times' = [times EXCEPT ![c] = @ + 1]
  /\ pc' = [pc EXCEPT ![c] = "succeeded"]
  /\ raced' = FALSE
  /\ UNCHANGED <<rows, up, agent, pre, upc, lock, used>>

\* An error of the file system before the rename or, with the file replaced,
\* when the directory is synced: either way the outcome is unknown.
FileError(c) ==
  /\ used.faults < MaxFaults
  /\ used' = [used EXCEPT !.faults = @ + 1]
  /\ pc' = [pc EXCEPT ![c] = "outcome_unknown"]
  /\ \/ c \in FileCalls /\ pc[c] \in {"dispatched", "checked"} /\ UNCHANGED <<file, times>>
     \/ /\ pc[c] = "checked"
        /\ file' = After[c]
        /\ times' = [times EXCEPT ![c] = @ + 1]
  /\ raced' = FALSE
  /\ UNCHANGED <<rows, up, agent, pre, upc, lock>>

Spawn(c) ==
  /\ c \notin FileCalls /\ pc[c] = "dispatched"
  /\ \/ /\ times' = [times EXCEPT ![c] = @ + 1]
        /\ pc' = [pc EXCEPT ![c] = "running"]
     \/ /\ pc' = [pc EXCEPT ![c] = "outcome_unknown"]  \* could not be started
        /\ UNCHANGED times
  /\ UNCHANGED <<rows, up, agent, pre, upc, lock, file, used, raced>>

\* Exit code zero, another exit code, or killed at its timeout.
Exit(c, outcome) ==
  /\ pc[c] = "running"
  /\ pc' = [pc EXCEPT ![c] = outcome]
  /\ UNCHANGED <<rows, up, agent, pre, upc, lock, world>>

\* A settlement whose write fails is written once more, as unknown.
Settle(c) ==
  /\ pc[c] \in Outcomes /\ op[c] = "dispatched"
  /\ \/ /\ op' = [op EXCEPT ![c] = pc[c]]
        /\ UNCHANGED used
     \/ /\ used.faults < MaxFaults
        /\ used' = [used EXCEPT !.faults = @ + 1]
        /\ op' = [op EXCEPT ![c] = "outcome_unknown"]
  /\ Leave(c)
  /\ UNCHANGED <<by, order, undo, target, undone, scope, up, agent, pre, upc, file, times, raced>>

-----------------------------------------------------------------------------
(* Agents: begin, end and the end of their scopes                          *)

\* A branch has at most one running turn; other branches run beside it.
StartTurn(t) ==
  /\ up /\ scope[t] = "idle"
  /\ \A u \in Turns : BranchOf[u] = BranchOf[t] => scope[u] # "running"
  /\ scope' = [scope EXCEPT ![t] = "running"]
  /\ agent' = [agent EXCEPT ![t] = "live"]
  /\ UNCHANGED <<op, by, order, undo, target, undone, up, pc, pre, upc, lock, world>>

StartChild(k) ==
  /\ agent[ParentOf[k]] = "live" /\ scope[k] = "idle"
  /\ scope' = [scope EXCEPT ![k] = "running"]
  /\ agent' = [agent EXCEPT ![k] = "live"]
  /\ UNCHANGED <<op, by, order, undo, target, undone, up, pc, pre, upc, lock, world>>

GoneLocked(S) ==  \* slip: a cancelled body keeps the lock
  pc' = [c \in Calls |-> IF c \in S THEN "done" ELSE pc[c]] /\ UNCHANGED lock

\* The bodies of calls S are gone; what they held is free.
Gone(S) ==
  /\ pc' = [c \in Calls |-> IF c \in S THEN "done" ELSE pc[c]]
  /\ lock' = IF lock \in S THEN None ELSE lock

\* An agent finishes, fails, times out or is cancelled: the bodies unwind, a
\* running process is killed first.  A settlement already due is enqueued.
Stop(a) ==
  /\ agent[a] = "live"
  /\ \A c \in CallsOf(a) : pc[c] # "checked"
  /\ agent' = [agent EXCEPT ![a] = "ending"]
  /\ op' = [c \in Calls |->
       IF AgentOf[c] = a /\ pc[c] \in Outcomes THEN pc[c] ELSE op[c]]
  /\ Gone(CallsOf(a))
  /\ UNCHANGED <<by, order, undo, target, undone, scope, up, pre, upc, world>>

\* Both attempts to write a settlement fail: the exception ends the agent.
LoseSettlement(c) ==
  /\ pc[c] \in Outcomes /\ used.faults < MaxFaults
  /\ used' = [used EXCEPT !.faults = @ + 1]
  /\ agent' = [agent EXCEPT ![AgentOf[c]] = "ending"]
  /\ Gone(CallsOf(AgentOf[c]))
  /\ UNCHANGED <<rows, up, pre, upc, file, times, raced>>

InterruptedUnsent(S) == [c \in Calls |->  \* slip: a dispatched call counts as unsent
  IF c \in S /\ op[c] \in Open THEN "cancelled_before_effect" ELSE op[c]]

InterruptedKeeping(S) == [c \in Calls |->  \* slip: dispatched calls are passed over
  IF c \in S /\ op[c] \in {"intent", "approved"} THEN "cancelled_before_effect" ELSE op[c]]

\* _interrupt_operations on the calls of S.
Interrupted(S) == [c \in Calls |->
  CASE c \in S /\ op[c] = "dispatched" -> "outcome_unknown"
    [] c \in S /\ op[c] \in {"intent", "approved"} -> "cancelled_before_effect"
    [] OTHER -> op[c]]

EndChildOpen(k) ==  \* slip: the helper's operations are left to its turn
  /\ k \in Children /\ agent[k] = "ending"
  /\ scope' = [scope EXCEPT ![k] = "ended"]
  /\ agent' = [agent EXCEPT ![k] = "idle"]
  /\ UNCHANGED <<op, by, order, undo, target, undone, up, pc, pre, upc, lock, world>>

\* update_subrun with a terminal status, in the helper's finally.
EndChild(k) ==
  /\ k \in Children /\ agent[k] = "ending"
  /\ op' = Interrupted(CallsOf(k))
  /\ scope' = [scope EXCEPT ![k] = "ended"]
  /\ agent' = [agent EXCEPT ![k] = "idle"]
  /\ UNCHANGED <<by, order, undo, target, undone, up, pc, pre, upc, lock, world>>

HelpersGone(a) == \A k \in Children : ParentOf[k] = a => agent[k] = "idle"

\* _finish, once the turn's helpers are gathered: it ends those it finds running.
EndTurn(t) ==
  /\ t \in Turns /\ agent[t] = "ending" /\ HelpersGone(t)
  /\ op' = Interrupted({c \in Calls : TurnOf[AgentOf[c]] = t})
  /\ scope' = [a \in Agents |->
       IF a = t \/ (TurnOf[a] = t /\ scope[a] = "running") THEN "ended" ELSE scope[a]]
  /\ agent' = [agent EXCEPT ![t] = "idle"]
  /\ UNCHANGED <<by, order, undo, target, undone, up, pc, pre, upc, lock, world>>

\* The last write that would have ended a's scope fails: its task is gone, the
\* scope stays running.
LoseEnd(a) ==
  /\ agent[a] = "ending" /\ HelpersGone(a) /\ used.faults < MaxFaults
  /\ used' = [used EXCEPT !.faults = @ + 1]
  /\ agent' = [agent EXCEPT ![a] = "idle"]
  /\ UNCHANGED <<rows, up, pc, pre, upc, lock, file, times, raced>>

Abandoned(a) == up /\ scope[a] = "running" /\ agent[a] = "idle"

-----------------------------------------------------------------------------
(* Undo                                                                    *)

UndoableAgain == {c \in FileCalls : op[c] = "succeeded"}  \* slip: claims are ignored

Undoable == {c \in FileCalls : op[c] = "succeeded" /\ undone[c] = None}

\* begin_undo: dispatched in the transaction that picks the checkpoint.
BeginUndo(u) ==
  /\ up /\ undo[u] = "none" /\ lock = None
  /\ \A t \in Turns : scope[t] # "running"
  /\ \E c \in Undoable :
       /\ Latest(c, Undoable)
       /\ target' = [target EXCEPT ![u] = c]
       /\ undone' = [undone EXCEPT ![c] = u]
  /\ undo' = [undo EXCEPT ![u] = "dispatched"]
  /\ lock' = u
  /\ upc' = [upc EXCEPT ![u] = "begun"]
  /\ UNCHANGED <<op, by, order, scope, up, agent, pc, pre, world>>

\* _undo reads the file: anything but what the call wrote is a refusal.
Inspect(u) ==
  /\ upc[u] = "begun"
  /\ upc' = [upc EXCEPT ![u] = IF file = After[target[u]] THEN "inspected" ELSE "failed_known"]
  /\ UNCHANGED <<rows, up, agent, pc, pre, lock, world>>

CompareUndoBlindly(u) ==  \* slip: the contents are not compared again
  /\ upc[u] = "inspected"
  /\ upc' = [upc EXCEPT ![u] = "checked"]
  /\ UNCHANGED <<rows, up, agent, pc, pre, lock, world>>

\* replace_image compares with what was read: the undo fails if it has changed.
CompareUndo(u) ==
  /\ upc[u] = "inspected"
  /\ upc' = [upc EXCEPT ![u] = IF file = After[target[u]] THEN "checked" ELSE "outcome_unknown"]
  /\ UNCHANGED <<rows, up, agent, pc, pre, lock, world>>

Restore(u) ==
  /\ upc[u] = "checked"
  /\ file' = pre[target[u]]
  /\ upc' = [upc EXCEPT ![u] = "succeeded"]
  /\ raced' = FALSE
  /\ UNCHANGED <<rows, up, agent, pc, pre, lock, times, used>>

EndUndo(u, outcome) ==
  /\ undo[u] = "dispatched"
  /\ undo' = [undo EXCEPT ![u] = outcome]
  /\ undone' = IF outcome = "failed_known"
                 THEN [undone EXCEPT ![target[u]] = None]
                 ELSE undone
  /\ upc' = [upc EXCEPT ![u] = "done"]
  /\ lock' = None
  /\ raced' = FALSE
  /\ UNCHANGED <<op, by, order, target, scope, up, agent, pc, pre, file, times>>

SettleUndo(u) ==
  /\ upc[u] \in Outcomes
  /\ EndUndo(u, upc[u])
  /\ UNCHANGED used

\* An error before or after the replacement: the outcome is unknown.
FailUndo(u) ==
  /\ upc[u] \in {"begun", "inspected", "checked"} \cup Outcomes /\ used.faults < MaxFaults
  /\ used' = [used EXCEPT !.faults = @ + 1]
  /\ EndUndo(u, "outcome_unknown")

-----------------------------------------------------------------------------
(* The outside                                                             *)

Replacing == (\E c \in Calls : pc[c] = "checked") \/ (\E u \in Undos : upc[u] = "checked")

\* Someone else writes the file, also between a comparison and a replacement.
Edit(v) ==
  /\ used.edits < MaxEdits /\ file # v
  /\ file' = v
  /\ raced' = Replacing
  /\ used' = [used EXCEPT !.edits = @ + 1]
  /\ UNCHANGED <<rows, up, agent, pc, pre, upc, lock, times>>

\* The owner is killed: its tasks and its lock are gone, rows and files stay.
Crash ==
  /\ up /\ used.crashes < MaxCrashes
  /\ used' = [used EXCEPT !.crashes = @ + 1]
  /\ up' = FALSE
  /\ agent' = [a \in Agents |-> "idle"]
  /\ pc' = [c \in Calls |-> IF pc[c] = "idle" THEN "idle" ELSE "done"]
  /\ upc' = [u \in Undos |-> IF upc[u] = "idle" THEN "idle" ELSE "done"]
  /\ lock' = None
  /\ raced' = FALSE
  /\ UNCHANGED <<rows, pre, file, times>>

\* recover_interrupted, before the next owner serves.
Recover ==
  /\ ~up
  /\ up' = TRUE
  /\ op' = Interrupted(Calls)
  /\ undo' = [u \in Undos |-> IF undo[u] = "dispatched" THEN "outcome_unknown" ELSE undo[u]]
  /\ scope' = [a \in Agents |-> IF scope[a] = "running" THEN "ended" ELSE scope[a]]
  /\ UNCHANGED <<by, order, target, undone, agent, pc, pre, upc, lock, world>>

Body(c) ==
  \/ \E valid \in BOOLEAN : Create(c, valid)
  \/ Reject(c) \/ Defer(c) \/ GiveUp(c) \/ Resume(c) \/ Expire(c)
  \/ Abandon(c) \/ Dispatch(c) \/ Compare(c) \/ Replace(c)
  \/ FileError(c) \/ Spawn(c)
  \/ \E outcome \in Outcomes : Exit(c, outcome)
  \/ Settle(c)

Next ==
  \/ \E c \in Calls : Body(c) \/ LoseSettlement(c)
  \/ \E c \in Calls, verdict \in {"approved", "denied"} : Respond(c, verdict)
  \/ \E t \in Turns : StartTurn(t) \/ EndTurn(t)
  \/ \E k \in Children : StartChild(k) \/ EndChild(k)
  \/ \E a \in Agents : Stop(a) \/ LoseEnd(a)
  \/ \E u \in Undos : BeginUndo(u) \/ Inspect(u) \/ CompareUndo(u) \/ Restore(u)
                      \/ SettleUndo(u) \/ FailUndo(u)
  \/ \E v \in Foreign : Edit(v)
  \/ Crash \/ Recover

Spec == Init /\ [][Next]_vars

-----------------------------------------------------------------------------
(* Properties                                                              *)

\* Rows, bodies, agents and the file take only the values the code gives them,
\* and the lock's holder has a body that will release it.
TypeOK ==
  /\ op \in [Calls -> States]
  /\ by \in [Calls -> {None, "policy", "user", "timeout"}]
  /\ order \in Seq(Calls)
  /\ undo \in [Undos -> {"none", "dispatched"} \cup Outcomes]
  /\ target \in [Undos -> Calls \cup {None}]
  /\ undone \in [Calls -> Undos \cup {None}]
  /\ scope \in [Agents -> {"idle", "running", "ended"}]
  /\ up \in BOOLEAN
  /\ agent \in [Agents -> {"idle", "live", "ending"}]
  /\ pc \in [Calls -> {"idle", "created", "asking", "invalid", "asked", "dispatched",
                       "checked", "running", "done"} \cup Outcomes]
  /\ pre \in [Calls -> Contents \cup {None}]
  /\ upc \in [Undos -> {"idle", "begun", "inspected", "checked", "done"} \cup Outcomes]
  /\ lock \in Calls \cup Undos \cup {None}
  /\ file \in Contents
  /\ times \in [Calls -> Nat]
  /\ raced \in BOOLEAN
  /\ lock \in Calls => pc[lock] \notin {"idle", "asked", "done"}
  /\ lock \in Undos => upc[lock] \notin {"idle", "done"}

\* The states of the rows as the phases a client of the ledger is promised.
PhaseOf(state) ==
  CASE state = "none" -> "unseen"
    [] state = "intent" -> "proposed"
    [] state = "approved" -> "permitted"
    [] state = "dispatched" -> "committed"
    [] state = "succeeded" -> "succeeded"
    [] state = "failed_known" -> "failed"
    [] state = "outcome_unknown" -> "unknown"
    [] OTHER -> "refused"

Effects == INSTANCE EffectLedger WITH phase <- [c \in Calls |-> PhaseOf(op[c])]

\* Through approvals, expiries, file changes, cancelled agents, lost writes and
\* killed owners the journal keeps EffectLedger's promise: an effect is made at
\* most once and after its commitment, a refusal is final, a known outcome is
\* true and a settled row is never rewritten.
ImplementsEffects == Effects!Spec

\* When a turn or a helper has ended, none of its operations is open: nothing
\* of it can still be approved or dispatched, whoever ended it.
EndedScopesAreSettled ==
  \A a \in Agents : scope[a] = "ended" =>
    \A c \in Calls : a \in {AgentOf[c], TurnOf[AgentOf[c]]} => op[c] \notin Open

\* What someone else wrote is replaced by a call whose preview was made from it,
\* or it was written between the last comparison and the replacement; no other
\* edit disappears, also by an undo.
ForeignEditsAreKept ==
  [][ (file \in Foreign /\ file' # file /\ used' = used) =>
        raced \/ (lock \in FileCalls /\ pre[lock] = file) ]_vars

\* Nobody's edit disappears unseen ("File changed since inspection; refusing to
\* overwrite it").
NoEditIsLost ==
  [][ (file \in Foreign /\ file' # file /\ used' = used) =>
        lock \in FileCalls /\ pre[lock] = file ]_vars

\* A change that succeeded is claimed by at most one undo that may have restored
\* it, through errors and kills inside the undo; a refused undo releases it.
ChangesAreUndoneOnce ==
  /\ \A c \in Calls : undone[c] # None =>
       op[c] = "succeeded" /\ target[undone[c]] = c /\ undo[undone[c]] # "failed_known"
  /\ \A u \in Undos : undo[u] \notin {"none", "failed_known"} => undone[target[u]] = u

\* A repeat of an action whose earlier outcome is unknown is made only after the
\* user was asked ("Outcome unknown - run again?").
UnknownIsAskedAgain ==
  [][ \A c, d \in Calls :
        /\ KeyOf[c] = KeyOf[d] /\ op[c] = "outcome_unknown"
        /\ op[d] # "dispatched" /\ op'[d] = "dispatched"
        => by[d] = "user" ]_vars

-----------------------------------------------------------------------------
(* Fairness: the event loop runs a ready task, a process ends at its        *)
(* timeout; a turn that ends cancels its helpers, and a helper whose end      *)
(* could not be written fails the turn.  Nobody has to answer, ask or restart.*)

Fairness ==
  /\ WF_vars(\E c \in Calls : \/ Spawn(c) \/ Compare(c) \/ Replace(c) \/ Settle(c)
                              \/ \E outcome \in Outcomes : Exit(c, outcome))
  /\ \A a \in Agents : WF_vars(EndChild(a) \/ EndTurn(a))
  /\ \A k \in Children : WF_vars(agent[ParentOf[k]] = "ending" /\ Stop(k))
  /\ \A k \in Children : WF_vars(Abandoned(k) /\ Stop(ParentOf[k]))

FairSpec == Spec /\ Fairness

\* A dispatched call does not stay open for ever while its owner lives, also when
\* its settlement or its helper's end could not be written; only a turn whose own
\* end could not be written keeps it open until the restart.
DispatchedCallsSettle ==
  \A c \in Calls : op[c] = "dispatched" ~>
    (op[c] \in Outcomes \/ ~up \/ Abandoned(TurnOf[AgentOf[c]]))

=============================================================================
