-------------------------- MODULE ActionLedgerProofs --------------------------
(***************************************************************************)
(* Proofs about ActionLedger for any calls, turns, helpers, undos and file *)
(* contents and any number of kills, faults and outside edits.  The        *)
(* invariant relates each body to its row and to the world (Bodies), to    *)
(* the lock (Holder), agents to the scopes they run in (Scopes), and undo  *)
(* requests to the changes they claim (Claims).                            *)
(***************************************************************************)
EXTENDS ActionLedger, TLAPS

Active == {"created", "asking", "invalid", "dispatched", "checked", "running"} \cup Outcomes
Undone == {"begun", "inspected", "checked"} \cup Outcomes

(* TypeOK in the parts the provers take one at a time.                     *)
Rows ==
  /\ op \in [Calls -> States]
  /\ by \in [Calls -> {None, "policy", "user", "timeout"}]
  /\ order \in Seq(Calls)
  /\ undo \in [Undos -> {"none", "dispatched"} \cup Outcomes]
  /\ target \in [Undos -> Calls \cup {None}]
  /\ undone \in [Calls -> Undos \cup {None}]
  /\ scope \in [Agents -> {"idle", "running", "ended"}]

Tasks ==
  /\ agent \in [Agents -> {"idle", "live", "ending"}]
  /\ pc \in [Calls -> {"idle", "asked", "done"} \cup Active]
  /\ upc \in [Undos -> {"idle", "done"} \cup Undone]
  /\ lock \in Calls \cup Undos \cup {None}
  /\ times \in [Calls -> {0, 1}]
  /\ used \in [edits : Nat, crashes : Nat, faults : Nat]

Alive == up \in BOOLEAN /\ raced \in BOOLEAN

(* Whoever is between two awaits of a body holds the lock, and a body has  *)
(* an agent that runs it.                                                  *)
Holder ==
  /\ \A c \in Calls : pc[c] \in Active <=> lock = c
  /\ \A u \in Undos : upc[u] \in Undone <=> lock = u
  /\ \A c \in Calls : pc[c] \notin {"idle", "done"} => agent[AgentOf[c]] = "live"

(* Where a body is, what its row says and whether the call has acted.      *)
Bodies == \A c \in Calls :
  /\ pc[c] = "idle" => op[c] = "none"
  /\ pc[c] \in {"dispatched", "checked", "running"} \cup Outcomes => op[c] = "dispatched"
  /\ pc[c] \in {"dispatched", "checked"} => times[c] = 0
  /\ pc[c] = "checked" => c \in FileCalls
  /\ pc[c] \in {"running", "succeeded", "failed_known"} => times[c] = 1
  /\ op[c] \notin {"dispatched"} \cup Outcomes => times[c] = 0
  /\ op[c] \in {"succeeded", "failed_known"} => times[c] = 1

(* A scope runs at least as long as its agent; a helper's lies inside its  *)
(* turn's.                                                                 *)
Scopes ==
  /\ \A a \in Agents : agent[a] # "idle" => scope[a] = "running"
  /\ ~up => lock = None /\ \A a \in Agents : agent[a] = "idle"
  /\ \A k \in Children : scope[k] # "idle" => scope[ParentOf[k]] # "idle"
  /\ \A k \in Children : scope[ParentOf[k]] = "ended" => scope[k] # "running"
  /\ \A c \in Calls : op[c] \in Open => scope[AgentOf[c]] = "running"

(* A file call that was or may be dispatched has the contents it replaces. *)
Previews ==
  /\ pre \in [Calls -> Contents \cup {None}]
  /\ file \in Contents
  /\ \A c \in FileCalls :
       pc[c] \in (Active \cup {"asked"}) \ {"invalid"} \/ op[c] \in {"dispatched"} \cup Outcomes
         => pre[c] \in Contents

Claims ==
  /\ ChangesAreUndoneOnce
  /\ \A c \in Calls : undone[c] # None => undo[undone[c]] # "none"
  /\ \A u \in Undos : undo[u] # "none" => target[u] \in FileCalls /\ op[target[u]] = "succeeded"
  /\ \A u \in Undos : upc[u] \in Undone => undo[u] = "dispatched"

(* Whoever is about to replace the file has just compared it, unless it    *)
(* was edited since.                                                       *)
Compared ==
  ~raced => /\ \A c \in FileCalls : pc[c] = "checked" => file = pre[c]
            /\ \A u \in Undos : upc[u] = "checked" => file = After[target[u]]

IInv == Rows /\ Tasks /\ Alive /\ Holder /\ Bodies /\ Scopes /\ Previews /\ Claims /\ Compared

-----------------------------------------------------------------------------
USE ConstantsAssumption DEF rows, world, Agents, TurnOf, CallsOf, Outcomes, Open, States,
                            Active, Undone

LEMMA Starts == Init => IInv
<1> SUFFICES ASSUME Init PROVE IInv
  OBVIOUS
<1>1. Rows
  BY DEF Init, Rows
<1>2. Tasks
  BY DEF Init, Tasks
<1>3. Alive
  BY DEF Init, Alive
<1>4. Holder
  BY DEF Init, Holder
<1>5. Bodies
  BY DEF Init, Bodies
<1>6. Scopes
  BY DEF Init, Scopes
<1>7. Previews
  BY DEF Init, Previews, Contents
<1>8. Claims
  BY DEF Init, Claims, ChangesAreUndoneOnce
<1>9. Compared
  BY DEF Init, Compared
<1> QED
  BY <1>1, <1>2, <1>3, <1>4, <1>5, <1>6, <1>7, <1>8, <1>9 DEF IInv

-----------------------------------------------------------------------------
(* Each action keeps the invariant.                                        *)

LEMMA CreateKeeps ==
  ASSUME IInv, NEW c \in Calls, NEW valid \in BOOLEAN, Create(c, valid)
  PROVE  IInv'
<1>1. Rows'
  <2>1. op' \in [Calls -> States] /\ by' \in [Calls -> {None, "policy", "user", "timeout"}]
    BY DEF IInv, Rows, Create
  <2>2. order' \in Seq(Calls)
    BY DEF IInv, Rows, Create
  <2> QED
    BY <2>1, <2>2 DEF IInv, Rows, Create
<1>2. Tasks'
  BY DEF IInv, Tasks, Create, Live, TurnIsRunning
<1>3. Alive'
  BY DEF IInv, Alive, Create, Live, TurnIsRunning
<1>4. Holder'
  <2>1. /\ lock = None /\ lock' = c /\ agent' = agent /\ upc' = upc /\ agent[AgentOf[c]] = "live"
        /\ pc'[c] \in Active
        /\ \A d \in Calls : d # c => pc'[d] = pc[d]
    BY DEF IInv, Tasks, Create, Live
  <2> QED
    BY <2>1 DEF IInv, Holder
<1>5. Bodies'
  BY DEF IInv, Rows, Tasks, Holder, Bodies, Create, Live, TurnIsRunning
<1>6. Scopes'
  BY DEF IInv, Rows, Tasks, Holder, Scopes, Create, Live, TurnIsRunning
<1>7. Previews'
  BY DEF IInv, Rows, Tasks, Holder, Bodies, Previews, Contents, Create, Live, TurnIsRunning
<1>8. Claims'
  BY DEF IInv, Rows, Tasks, Holder, Bodies, Claims, ChangesAreUndoneOnce, Create, Live, TurnIsRunning
<1>9. Compared'
  BY DEF IInv, Rows, Tasks, Holder, Compared, Create, Live, TurnIsRunning
<1> QED
  BY <1>1, <1>2, <1>3, <1>4, <1>5, <1>6, <1>7, <1>8, <1>9 DEF IInv

LEMMA RejectKeeps ==
  ASSUME IInv, NEW c \in Calls, Reject(c)
  PROVE  IInv'
<1>1. Rows'
  BY DEF IInv, Rows, Reject, Leave
<1>2. Tasks'
  BY DEF IInv, Tasks, Reject, Leave
<1>3. Alive'
  BY DEF IInv, Alive, Reject, Leave
<1>4. Holder'
  BY DEF IInv, Rows, Tasks, Holder, Reject, Leave
<1>5. Bodies'
  BY DEF IInv, Rows, Tasks, Holder, Bodies, Reject, Leave
<1>6. Scopes'
  BY DEF IInv, Rows, Tasks, Holder, Scopes, Reject, Leave
<1>7. Previews'
  BY DEF IInv, Rows, Tasks, Holder, Bodies, Previews, Contents, Reject, Leave
<1>8. Claims'
  BY DEF IInv, Rows, Tasks, Holder, Bodies, Claims, ChangesAreUndoneOnce, Reject, Leave
<1>9. Compared'
  BY DEF IInv, Rows, Tasks, Holder, Compared, Reject, Leave
<1> QED
  BY <1>1, <1>2, <1>3, <1>4, <1>5, <1>6, <1>7, <1>8, <1>9 DEF IInv

LEMMA DeferKeeps ==
  ASSUME IInv, NEW c \in Calls, Defer(c)
  PROVE  IInv'
<1>1. Rows'
  BY DEF IInv, Rows, Defer
<1>2. Tasks'
  BY DEF IInv, Tasks, Defer
<1>3. Alive'
  BY DEF IInv, Alive, Defer
<1>4. Holder'
  BY DEF IInv, Rows, Tasks, Holder, Defer
<1>5. Bodies'
  BY DEF IInv, Rows, Tasks, Holder, Bodies, Defer
<1>6. Scopes'
  BY DEF IInv, Rows, Tasks, Holder, Scopes, Defer
<1>7. Previews'
  BY DEF IInv, Rows, Tasks, Holder, Bodies, Previews, Contents, Defer
<1>8. Claims'
  BY DEF IInv, Claims, ChangesAreUndoneOnce, Defer
<1>9. Compared'
  BY DEF IInv, Rows, Tasks, Holder, Compared, Defer
<1> QED
  BY <1>1, <1>2, <1>3, <1>4, <1>5, <1>6, <1>7, <1>8, <1>9 DEF IInv

LEMMA RespondKeeps ==
  ASSUME IInv, NEW c \in Calls, NEW verdict \in {"approved", "denied"}, Respond(c, verdict)
  PROVE  IInv'
<1>1. Rows'
  BY DEF IInv, Rows, Respond, Decided, TurnIsRunning
<1>2. Tasks'
  BY DEF IInv, Tasks, Respond, Decided, TurnIsRunning
<1>3. Alive'
  BY DEF IInv, Alive, Respond, Decided, TurnIsRunning
<1>4. Holder'
  BY DEF IInv, Holder, Respond, Decided, TurnIsRunning
<1>5. Bodies'
  BY DEF IInv, Rows, Tasks, Holder, Bodies, Respond, Decided, TurnIsRunning
<1>6. Scopes'
  BY DEF IInv, Rows, Tasks, Holder, Scopes, Respond, Decided, TurnIsRunning
<1>7. Previews'
  BY DEF IInv, Rows, Tasks, Holder, Bodies, Previews, Contents, Respond, Decided, TurnIsRunning
<1>8. Claims'
  BY DEF IInv, Rows, Tasks, Holder, Bodies, Claims, ChangesAreUndoneOnce, Respond, Decided, TurnIsRunning
<1>9. Compared'
  BY DEF IInv, Rows, Tasks, Holder, Compared, Respond, Decided, TurnIsRunning
<1> QED
  BY <1>1, <1>2, <1>3, <1>4, <1>5, <1>6, <1>7, <1>8, <1>9 DEF IInv

LEMMA ExpireKeeps ==
  ASSUME IInv, NEW c \in Calls, Expire(c)
  PROVE  IInv'
<1>1. Rows'
  BY DEF IInv, Rows, Expire, Decided, TurnIsRunning
<1>2. Tasks'
  BY DEF IInv, Tasks, Expire, Decided, TurnIsRunning
<1>3. Alive'
  BY DEF IInv, Alive, Expire, Decided, TurnIsRunning
<1>4. Holder'
  BY DEF IInv, Holder, Expire, Decided, TurnIsRunning
<1>5. Bodies'
  BY DEF IInv, Rows, Tasks, Holder, Bodies, Expire, Decided, TurnIsRunning
<1>6. Scopes'
  BY DEF IInv, Rows, Tasks, Holder, Scopes, Expire, Decided, TurnIsRunning
<1>7. Previews'
  BY DEF IInv, Rows, Tasks, Holder, Bodies, Previews, Contents, Expire, Decided, TurnIsRunning
<1>8. Claims'
  BY DEF IInv, Rows, Tasks, Holder, Bodies, Claims, ChangesAreUndoneOnce, Expire, Decided, TurnIsRunning
<1>9. Compared'
  BY DEF IInv, Rows, Tasks, Holder, Compared, Expire, Decided, TurnIsRunning
<1> QED
  BY <1>1, <1>2, <1>3, <1>4, <1>5, <1>6, <1>7, <1>8, <1>9 DEF IInv

LEMMA GiveUpKeeps ==
  ASSUME IInv, NEW c \in Calls, GiveUp(c)
  PROVE  IInv'
<1>1. Rows'
  BY DEF IInv, Rows, GiveUp, Leave
<1>2. Tasks'
  BY DEF IInv, Tasks, GiveUp, Leave
<1>3. Alive'
  BY DEF IInv, Alive, GiveUp, Leave
<1>4. Holder'
  BY DEF IInv, Rows, Tasks, Holder, GiveUp, Leave
<1>5. Bodies'
  BY DEF IInv, Rows, Tasks, Holder, Bodies, GiveUp, Leave
<1>6. Scopes'
  BY DEF IInv, Rows, Tasks, Holder, Scopes, GiveUp, Leave
<1>7. Previews'
  BY DEF IInv, Rows, Tasks, Holder, Bodies, Previews, Contents, GiveUp, Leave
<1>8. Claims'
  BY DEF IInv, Claims, ChangesAreUndoneOnce, GiveUp, Leave
<1>9. Compared'
  BY DEF IInv, Rows, Tasks, Holder, Compared, GiveUp, Leave
<1> QED
  BY <1>1, <1>2, <1>3, <1>4, <1>5, <1>6, <1>7, <1>8, <1>9 DEF IInv

LEMMA ResumeKeeps ==
  ASSUME IInv, NEW c \in Calls, Resume(c)
  PROVE  IInv'
<1>1. Rows'
  BY DEF IInv, Rows, Resume
<1>2. Tasks'
  BY DEF IInv, Tasks, Resume
<1>3. Alive'
  BY DEF IInv, Alive, Resume
<1>4. Holder'
  BY DEF IInv, Rows, Tasks, Holder, Resume
<1>5. Bodies'
  BY DEF IInv, Rows, Tasks, Holder, Bodies, Resume
<1>6. Scopes'
  BY DEF IInv, Rows, Tasks, Holder, Scopes, Resume
<1>7. Previews'
  BY DEF IInv, Rows, Tasks, Holder, Bodies, Previews, Contents, Resume
<1>8. Claims'
  BY DEF IInv, Claims, ChangesAreUndoneOnce, Resume
<1>9. Compared'
  BY DEF IInv, Rows, Tasks, Holder, Compared, Resume
<1> QED
  BY <1>1, <1>2, <1>3, <1>4, <1>5, <1>6, <1>7, <1>8, <1>9 DEF IInv

LEMMA AbandonKeeps ==
  ASSUME IInv, NEW c \in Calls, Abandon(c)
  PROVE  IInv'
<1>1. Rows'
  BY DEF IInv, Rows, Abandon, Leave, Changed
<1>2. Tasks'
  BY DEF IInv, Tasks, Abandon, Leave, Changed
<1>3. Alive'
  BY DEF IInv, Alive, Abandon, Leave, Changed
<1>4. Holder'
  BY DEF IInv, Rows, Tasks, Holder, Abandon, Leave, Changed
<1>5. Bodies'
  BY DEF IInv, Rows, Tasks, Holder, Bodies, Abandon, Leave, Changed
<1>6. Scopes'
  BY DEF IInv, Rows, Tasks, Holder, Scopes, Abandon, Leave, Changed
<1>7. Previews'
  BY DEF IInv, Rows, Tasks, Holder, Bodies, Previews, Contents, Abandon, Leave, Changed
<1>8. Claims'
  BY DEF IInv, Rows, Tasks, Holder, Bodies, Claims, ChangesAreUndoneOnce, Abandon, Leave, Changed
<1>9. Compared'
  BY DEF IInv, Rows, Tasks, Holder, Compared, Abandon, Leave, Changed
<1> QED
  BY <1>1, <1>2, <1>3, <1>4, <1>5, <1>6, <1>7, <1>8, <1>9 DEF IInv

LEMMA DispatchKeeps ==
  ASSUME IInv, NEW c \in Calls, Dispatch(c)
  PROVE  IInv'
<1>1. Rows'
  BY DEF IInv, Rows, Dispatch, Changed
<1>2. Tasks'
  BY DEF IInv, Tasks, Dispatch, Changed
<1>3. Alive'
  BY DEF IInv, Alive, Dispatch, Changed
<1>4. Holder'
  BY DEF IInv, Rows, Tasks, Holder, Dispatch, Changed
<1>5. Bodies'
  BY DEF IInv, Rows, Tasks, Holder, Bodies, Dispatch, Changed
<1>6. Scopes'
  BY DEF IInv, Rows, Tasks, Holder, Scopes, Dispatch, Changed
<1>7. Previews'
  BY DEF IInv, Rows, Tasks, Holder, Bodies, Previews, Contents, Dispatch, Changed
<1>8. Claims'
  BY DEF IInv, Rows, Tasks, Holder, Bodies, Claims, ChangesAreUndoneOnce, Dispatch, Changed
<1>9. Compared'
  BY DEF IInv, Rows, Tasks, Holder, Compared, Dispatch, Changed
<1> QED
  BY <1>1, <1>2, <1>3, <1>4, <1>5, <1>6, <1>7, <1>8, <1>9 DEF IInv

LEMMA CompareKeeps ==
  ASSUME IInv, NEW c \in Calls, Compare(c)
  PROVE  IInv'
<1>1. Rows'
  BY DEF IInv, Rows, Compare
<1>2. Tasks'
  BY DEF IInv, Tasks, Compare
<1>3. Alive'
  BY DEF IInv, Alive, Compare
<1>4. Holder'
  BY DEF IInv, Rows, Tasks, Holder, Compare
<1>5. Bodies'
  BY DEF IInv, Rows, Tasks, Holder, Bodies, Compare
<1>6. Scopes'
  BY DEF IInv, Rows, Tasks, Holder, Scopes, Compare
<1>7. Previews'
  BY DEF IInv, Rows, Tasks, Holder, Bodies, Previews, Contents, Compare
<1>8. Claims'
  BY DEF IInv, Rows, Tasks, Holder, Bodies, Claims, ChangesAreUndoneOnce, Compare
<1>9. Compared'
  BY DEF IInv, Rows, Tasks, Holder, Compared, Compare
<1> QED
  BY <1>1, <1>2, <1>3, <1>4, <1>5, <1>6, <1>7, <1>8, <1>9 DEF IInv

LEMMA ReplaceKeeps ==
  ASSUME IInv, NEW c \in Calls, Replace(c)
  PROVE  IInv'
<1>1. Rows'
  BY DEF IInv, Rows, Replace
<1>2. Tasks'
  <2>1. times[c] = 0
    BY DEF IInv, Bodies, Replace
  <2>2. times' \in [Calls -> {0, 1}] /\ pc' \in [Calls -> {"idle", "asked", "done"} \cup Active]
    BY <2>1 DEF IInv, Tasks, Replace
  <2> QED
    BY <2>2 DEF IInv, Tasks, Replace
<1>3. Alive'
  BY DEF IInv, Alive, Replace
<1>4. Holder'
  BY DEF IInv, Rows, Tasks, Holder, Replace
<1>5. Bodies'
  BY DEF IInv, Rows, Tasks, Holder, Bodies, Replace
<1>6. Scopes'
  BY DEF IInv, Scopes, Replace
<1>7. Previews'
  BY DEF IInv, Rows, Tasks, Holder, Bodies, Previews, Contents, Replace
<1>8. Claims'
  BY DEF IInv, Claims, ChangesAreUndoneOnce, Replace
<1>9. Compared'
  BY DEF IInv, Rows, Tasks, Holder, Compared, Replace
<1> QED
  BY <1>1, <1>2, <1>3, <1>4, <1>5, <1>6, <1>7, <1>8, <1>9 DEF IInv

LEMMA FileErrorKeeps ==
  ASSUME IInv, NEW c \in Calls, FileError(c)
  PROVE  IInv'
<1>1. Rows'
  BY DEF IInv, Rows, FileError
<1>2. Tasks'
  <2>1. times[c] = 0
    BY DEF IInv, Bodies, FileError
  <2>2. times' \in [Calls -> {0, 1}] /\ pc' \in [Calls -> {"idle", "asked", "done"} \cup Active]
    BY <2>1 DEF IInv, Tasks, FileError
  <2>3. used' \in [edits : Nat, crashes : Nat, faults : Nat]
    BY DEF IInv, Tasks, FileError
  <2> QED
    BY <2>2, <2>3 DEF IInv, Tasks, FileError
<1>3. Alive'
  BY DEF IInv, Alive, FileError
<1>4. Holder'
  BY DEF IInv, Rows, Tasks, Holder, FileError
<1>5. Bodies'
  BY DEF IInv, Rows, Tasks, Holder, Bodies, FileError
<1>6. Scopes'
  BY DEF IInv, Rows, Tasks, Holder, Scopes, FileError
<1>7. Previews'
  BY DEF IInv, Rows, Tasks, Holder, Bodies, Previews, Contents, FileError
<1>8. Claims'
  BY DEF IInv, Rows, Tasks, Holder, Bodies, Claims, ChangesAreUndoneOnce, FileError
<1>9. Compared'
  BY DEF IInv, Rows, Tasks, Holder, Compared, FileError
<1> QED
  BY <1>1, <1>2, <1>3, <1>4, <1>5, <1>6, <1>7, <1>8, <1>9 DEF IInv

LEMMA SpawnKeeps ==
  ASSUME IInv, NEW c \in Calls, Spawn(c)
  PROVE  IInv'
<1>1. Rows'
  BY DEF IInv, Rows, Spawn
<1>2. Tasks'
  <2>1. times[c] = 0
    BY DEF IInv, Bodies, Spawn
  <2>2. times' \in [Calls -> {0, 1}] /\ pc' \in [Calls -> {"idle", "asked", "done"} \cup Active]
    BY <2>1 DEF IInv, Tasks, Spawn
  <2> QED
    BY <2>2 DEF IInv, Tasks, Spawn
<1>3. Alive'
  BY DEF IInv, Alive, Spawn
<1>4. Holder'
  <2>1. /\ pc[c] \in Active /\ pc'[c] \in Active
        /\ \A d \in Calls : d # c => pc'[d] = pc[d]
        /\ lock' = lock /\ upc' = upc /\ agent' = agent
    BY DEF IInv, Tasks, Spawn
  <2> QED
    BY <2>1 DEF IInv, Holder
<1>5. Bodies'
  BY DEF IInv, Rows, Tasks, Holder, Bodies, Spawn
<1>6. Scopes'
  BY DEF IInv, Scopes, Spawn
<1>7. Previews'
  BY DEF IInv, Rows, Tasks, Holder, Bodies, Previews, Contents, Spawn
<1>8. Claims'
  BY DEF IInv, Claims, ChangesAreUndoneOnce, Spawn
<1>9. Compared'
  BY DEF IInv, Rows, Tasks, Holder, Compared, Spawn
<1> QED
  BY <1>1, <1>2, <1>3, <1>4, <1>5, <1>6, <1>7, <1>8, <1>9 DEF IInv

LEMMA ExitKeeps ==
  ASSUME IInv, NEW c \in Calls, NEW outcome \in Outcomes, Exit(c, outcome)
  PROVE  IInv'
<1>1. Rows'
  BY DEF IInv, Rows, Exit
<1>2. Tasks'
  BY DEF IInv, Tasks, Exit
<1>3. Alive'
  BY DEF IInv, Alive, Exit
<1>4. Holder'
  BY DEF IInv, Rows, Tasks, Holder, Exit
<1>5. Bodies'
  BY DEF IInv, Rows, Tasks, Holder, Bodies, Exit
<1>6. Scopes'
  BY DEF IInv, Scopes, Exit
<1>7. Previews'
  BY DEF IInv, Rows, Tasks, Holder, Bodies, Previews, Contents, Exit
<1>8. Claims'
  BY DEF IInv, Claims, ChangesAreUndoneOnce, Exit
<1>9. Compared'
  BY DEF IInv, Rows, Tasks, Holder, Compared, Exit
<1> QED
  BY <1>1, <1>2, <1>3, <1>4, <1>5, <1>6, <1>7, <1>8, <1>9 DEF IInv

LEMMA SettleKeeps ==
  ASSUME IInv, NEW c \in Calls, Settle(c)
  PROVE  IInv'
<1>1. Rows'
  BY DEF IInv, Rows, Settle, Leave
<1>2. Tasks'
  BY DEF IInv, Tasks, Settle, Leave
<1>3. Alive'
  BY DEF IInv, Alive, Settle, Leave
<1>4. Holder'
  BY DEF IInv, Rows, Tasks, Holder, Settle, Leave
<1>5. Bodies'
  BY DEF IInv, Rows, Tasks, Holder, Bodies, Settle, Leave
<1>6. Scopes'
  BY DEF IInv, Rows, Tasks, Holder, Scopes, Settle, Leave
<1>7. Previews'
  BY DEF IInv, Rows, Tasks, Holder, Bodies, Previews, Contents, Settle, Leave
<1>8. Claims'
  BY DEF IInv, Rows, Tasks, Holder, Bodies, Claims, ChangesAreUndoneOnce, Settle, Leave
<1>9. Compared'
  BY DEF IInv, Rows, Tasks, Holder, Compared, Settle, Leave
<1> QED
  BY <1>1, <1>2, <1>3, <1>4, <1>5, <1>6, <1>7, <1>8, <1>9 DEF IInv

LEMMA LoseSettlementKeeps ==
  ASSUME IInv, NEW c \in Calls, LoseSettlement(c)
  PROVE  IInv'
<1>1. Rows'
  BY DEF IInv, Rows, LoseSettlement, Gone
<1>2. Tasks'
  BY DEF IInv, Tasks, LoseSettlement, Gone
<1>3. Alive'
  BY DEF IInv, Alive, LoseSettlement, Gone
<1>4. Holder'
  BY DEF IInv, Rows, Tasks, Holder, LoseSettlement, Gone
<1>5. Bodies'
  BY DEF IInv, Rows, Tasks, Holder, Bodies, LoseSettlement, Gone
<1>6. Scopes'
  BY DEF IInv, Rows, Tasks, Holder, Scopes, LoseSettlement, Gone
<1>7. Previews'
  BY DEF IInv, Rows, Tasks, Holder, Bodies, Previews, Contents, LoseSettlement, Gone
<1>8. Claims'
  BY DEF IInv, Claims, ChangesAreUndoneOnce, LoseSettlement, Gone
<1>9. Compared'
  BY DEF IInv, Rows, Tasks, Holder, Compared, LoseSettlement, Gone
<1> QED
  BY <1>1, <1>2, <1>3, <1>4, <1>5, <1>6, <1>7, <1>8, <1>9 DEF IInv

LEMMA StartTurnKeeps ==
  ASSUME IInv, NEW t \in Turns, StartTurn(t)
  PROVE  IInv'
<1>1. Rows'
  BY DEF IInv, Rows, StartTurn
<1>2. Tasks'
  BY DEF IInv, Tasks, StartTurn
<1>3. Alive'
  BY DEF IInv, Alive, StartTurn
<1>4. Holder'
  BY DEF IInv, Rows, Tasks, Holder, StartTurn
<1>5. Bodies'
  BY DEF IInv, Bodies, StartTurn
<1>6. Scopes'
  BY DEF IInv, Rows, Tasks, Holder, Scopes, StartTurn
<1>7. Previews'
  BY DEF IInv, Previews, Contents, StartTurn
<1>8. Claims'
  BY DEF IInv, Claims, ChangesAreUndoneOnce, StartTurn
<1>9. Compared'
  BY DEF IInv, Rows, Tasks, Holder, Compared, StartTurn
<1> QED
  BY <1>1, <1>2, <1>3, <1>4, <1>5, <1>6, <1>7, <1>8, <1>9 DEF IInv

LEMMA StartChildKeeps ==
  ASSUME IInv, NEW k \in Children, StartChild(k)
  PROVE  IInv'
<1>1. Rows'
  BY DEF IInv, Rows, StartChild
<1>2. Tasks'
  BY DEF IInv, Tasks, StartChild
<1>3. Alive'
  BY DEF IInv, Alive, StartChild
<1>4. Holder'
  BY DEF IInv, Rows, Tasks, Holder, StartChild
<1>5. Bodies'
  BY DEF IInv, Bodies, StartChild
<1>6. Scopes'
  BY DEF IInv, Rows, Tasks, Holder, Scopes, StartChild
<1>7. Previews'
  BY DEF IInv, Previews, Contents, StartChild
<1>8. Claims'
  BY DEF IInv, Claims, ChangesAreUndoneOnce, StartChild
<1>9. Compared'
  BY DEF IInv, Rows, Tasks, Holder, Compared, StartChild
<1> QED
  BY <1>1, <1>2, <1>3, <1>4, <1>5, <1>6, <1>7, <1>8, <1>9 DEF IInv

LEMMA StopKeeps ==
  ASSUME IInv, NEW a \in Agents, Stop(a)
  PROVE  IInv'
<1>1. Rows'
  BY DEF IInv, Rows, Stop, Gone
<1>2. Tasks'
  BY DEF IInv, Tasks, Stop, Gone
<1>3. Alive'
  BY DEF IInv, Alive, Stop, Gone
<1>4. Holder'
  BY DEF IInv, Rows, Tasks, Holder, Stop, Gone
<1>5. Bodies'
  BY DEF IInv, Rows, Tasks, Holder, Bodies, Stop, Gone
<1>6. Scopes'
  BY DEF IInv, Rows, Tasks, Holder, Scopes, Stop, Gone
<1>7. Previews'
  BY DEF IInv, Rows, Tasks, Holder, Bodies, Previews, Contents, Stop, Gone
<1>8. Claims'
  BY DEF IInv, Rows, Tasks, Holder, Bodies, Claims, ChangesAreUndoneOnce, Stop, Gone
<1>9. Compared'
  BY DEF IInv, Rows, Tasks, Holder, Compared, Stop, Gone
<1> QED
  BY <1>1, <1>2, <1>3, <1>4, <1>5, <1>6, <1>7, <1>8, <1>9 DEF IInv

LEMMA EndChildKeeps ==
  ASSUME IInv, NEW k \in Children, EndChild(k)
  PROVE  IInv'
<1>1. Rows'
  BY DEF IInv, Rows, EndChild, Interrupted
<1>2. Tasks'
  BY DEF IInv, Tasks, EndChild, Interrupted
<1>3. Alive'
  BY DEF IInv, Alive, EndChild, Interrupted
<1>4. Holder'
  BY DEF IInv, Rows, Tasks, Holder, EndChild, Interrupted
<1>5. Bodies'
  BY DEF IInv, Rows, Tasks, Holder, Bodies, EndChild, Interrupted
<1>6. Scopes'
  BY DEF IInv, Rows, Tasks, Holder, Scopes, EndChild, Interrupted
<1>7. Previews'
  BY DEF IInv, Rows, Tasks, Holder, Bodies, Previews, Contents, EndChild, Interrupted
<1>8. Claims'
  BY DEF IInv, Rows, Tasks, Holder, Bodies, Claims, ChangesAreUndoneOnce, EndChild, Interrupted
<1>9. Compared'
  BY DEF IInv, Rows, Tasks, Holder, Compared, EndChild, Interrupted
<1> QED
  BY <1>1, <1>2, <1>3, <1>4, <1>5, <1>6, <1>7, <1>8, <1>9 DEF IInv

LEMMA EndTurnKeeps ==
  ASSUME IInv, NEW t \in Turns, EndTurn(t)
  PROVE  IInv'
<1>1. Rows'
  BY DEF IInv, Rows, EndTurn, HelpersGone, Interrupted
<1>2. Tasks'
  BY DEF IInv, Tasks, EndTurn, HelpersGone, Interrupted
<1>3. Alive'
  BY DEF IInv, Alive, EndTurn, HelpersGone, Interrupted
<1>4. Holder'
  BY DEF IInv, Rows, Tasks, Holder, EndTurn, HelpersGone, Interrupted
<1>5. Bodies'
  BY DEF IInv, Rows, Tasks, Holder, Bodies, EndTurn, HelpersGone, Interrupted
<1>6. Scopes'
  BY DEF IInv, Rows, Tasks, Holder, Scopes, EndTurn, HelpersGone, Interrupted
<1>7. Previews'
  BY DEF IInv, Rows, Tasks, Holder, Bodies, Previews, Contents, EndTurn, HelpersGone, Interrupted
<1>8. Claims'
  BY DEF IInv, Rows, Tasks, Holder, Bodies, Claims, ChangesAreUndoneOnce, EndTurn, HelpersGone, Interrupted
<1>9. Compared'
  BY DEF IInv, Rows, Tasks, Holder, Compared, EndTurn, HelpersGone, Interrupted
<1> QED
  BY <1>1, <1>2, <1>3, <1>4, <1>5, <1>6, <1>7, <1>8, <1>9 DEF IInv

LEMMA LoseEndKeeps ==
  ASSUME IInv, NEW a \in Agents, LoseEnd(a)
  PROVE  IInv'
<1>1. Rows'
  BY DEF IInv, Rows, LoseEnd, HelpersGone
<1>2. Tasks'
  BY DEF IInv, Tasks, LoseEnd, HelpersGone
<1>3. Alive'
  BY DEF IInv, Alive, LoseEnd, HelpersGone
<1>4. Holder'
  BY DEF IInv, Rows, Tasks, Holder, LoseEnd, HelpersGone
<1>5. Bodies'
  BY DEF IInv, Rows, Tasks, Holder, Bodies, LoseEnd, HelpersGone
<1>6. Scopes'
  BY DEF IInv, Rows, Tasks, Holder, Scopes, LoseEnd, HelpersGone
<1>7. Previews'
  BY DEF IInv, Rows, Tasks, Holder, Bodies, Previews, Contents, LoseEnd, HelpersGone
<1>8. Claims'
  BY DEF IInv, Rows, Tasks, Holder, Bodies, Claims, ChangesAreUndoneOnce, LoseEnd, HelpersGone
<1>9. Compared'
  BY DEF IInv, Rows, Tasks, Holder, Compared, LoseEnd, HelpersGone
<1> QED
  BY <1>1, <1>2, <1>3, <1>4, <1>5, <1>6, <1>7, <1>8, <1>9 DEF IInv

LEMMA BeginUndoKeeps ==
  ASSUME IInv, NEW u \in Undos, BeginUndo(u)
  PROVE  IInv'
<1>1. Rows'
  BY DEF IInv, Rows, BeginUndo, Undoable, Latest
<1>2. Tasks'
  BY DEF IInv, Tasks, BeginUndo, Undoable, Latest
<1>3. Alive'
  BY DEF IInv, Alive, BeginUndo, Undoable, Latest
<1>4. Holder'
  BY DEF IInv, Rows, Tasks, Holder, BeginUndo, Undoable, Latest
<1>5. Bodies'
  BY DEF IInv, Bodies, BeginUndo, Undoable, Latest
<1>6. Scopes'
  BY DEF IInv, Rows, Tasks, Holder, Scopes, BeginUndo, Undoable, Latest
<1>7. Previews'
  BY DEF IInv, Previews, Contents, BeginUndo, Undoable, Latest
<1>8. Claims'
  BY DEF IInv, Rows, Tasks, Holder, Bodies, Claims, ChangesAreUndoneOnce, BeginUndo, Undoable, Latest
<1>9. Compared'
  BY DEF IInv, Rows, Tasks, Holder, Compared, BeginUndo, Undoable, Latest
<1> QED
  BY <1>1, <1>2, <1>3, <1>4, <1>5, <1>6, <1>7, <1>8, <1>9 DEF IInv

LEMMA InspectKeeps ==
  ASSUME IInv, NEW u \in Undos, Inspect(u)
  PROVE  IInv'
<1>1. Rows'
  BY DEF IInv, Rows, Inspect
<1>2. Tasks'
  BY DEF IInv, Tasks, Inspect
<1>3. Alive'
  BY DEF IInv, Alive, Inspect
<1>4. Holder'
  BY DEF IInv, Rows, Tasks, Holder, Inspect
<1>5. Bodies'
  BY DEF IInv, Rows, Tasks, Holder, Bodies, Inspect
<1>6. Scopes'
  BY DEF IInv, Rows, Tasks, Holder, Scopes, Inspect
<1>7. Previews'
  BY DEF IInv, Rows, Tasks, Holder, Bodies, Previews, Contents, Inspect
<1>8. Claims'
  BY DEF IInv, Rows, Tasks, Holder, Bodies, Claims, ChangesAreUndoneOnce, Inspect
<1>9. Compared'
  BY DEF IInv, Rows, Tasks, Holder, Compared, Inspect
<1> QED
  BY <1>1, <1>2, <1>3, <1>4, <1>5, <1>6, <1>7, <1>8, <1>9 DEF IInv

LEMMA CompareUndoKeeps ==
  ASSUME IInv, NEW u \in Undos, CompareUndo(u)
  PROVE  IInv'
<1>1. Rows'
  BY DEF IInv, Rows, CompareUndo
<1>2. Tasks'
  BY DEF IInv, Tasks, CompareUndo
<1>3. Alive'
  BY DEF IInv, Alive, CompareUndo
<1>4. Holder'
  BY DEF IInv, Rows, Tasks, Holder, CompareUndo
<1>5. Bodies'
  BY DEF IInv, Rows, Tasks, Holder, Bodies, CompareUndo
<1>6. Scopes'
  BY DEF IInv, Rows, Tasks, Holder, Scopes, CompareUndo
<1>7. Previews'
  BY DEF IInv, Rows, Tasks, Holder, Bodies, Previews, Contents, CompareUndo
<1>8. Claims'
  BY DEF IInv, Rows, Tasks, Holder, Bodies, Claims, ChangesAreUndoneOnce, CompareUndo
<1>9. Compared'
  BY DEF IInv, Rows, Tasks, Holder, Compared, CompareUndo
<1> QED
  BY <1>1, <1>2, <1>3, <1>4, <1>5, <1>6, <1>7, <1>8, <1>9 DEF IInv

LEMMA RestoreKeeps ==
  ASSUME IInv, NEW u \in Undos, Restore(u)
  PROVE  IInv'
<1>1. Rows'
  BY DEF IInv, Rows, Restore
<1>2. Tasks'
  BY DEF IInv, Tasks, Restore
<1>3. Alive'
  BY DEF IInv, Alive, Restore
<1>4. Holder'
  BY DEF IInv, Rows, Tasks, Holder, Restore
<1>5. Bodies'
  BY DEF IInv, Bodies, Restore
<1>6. Scopes'
  BY DEF IInv, Scopes, Restore
<1>7. Previews'
  <2>1. target[u] \in FileCalls /\ op[target[u]] = "succeeded"
    BY DEF IInv, Claims, Restore
  <2>2. pre[target[u]] \in Contents
    BY <2>1 DEF IInv, Previews
  <2>3. file' \in Contents
    BY <2>2 DEF IInv, Previews, Restore
  <2> QED
    BY <2>3 DEF IInv, Previews, Restore
<1>8. Claims'
  BY DEF IInv, Rows, Tasks, Holder, Bodies, Claims, ChangesAreUndoneOnce, Restore
<1>9. Compared'
  BY DEF IInv, Rows, Tasks, Holder, Compared, Restore
<1> QED
  BY <1>1, <1>2, <1>3, <1>4, <1>5, <1>6, <1>7, <1>8, <1>9 DEF IInv

LEMMA EndUndoKeeps ==
  ASSUME IInv, NEW u \in Undos, NEW outcome \in Outcomes,
         upc[u] \in Undone, EndUndo(u, outcome), used' \in [edits : Nat, crashes : Nat, faults : Nat]
  PROVE  IInv'
<1>1. Rows'
  BY DEF IInv, Rows, EndUndo
<1>2. Tasks'
  BY DEF IInv, Tasks, EndUndo
<1>3. Alive'
  BY DEF IInv, Alive, EndUndo
<1>4. Holder'
  BY DEF IInv, Rows, Tasks, Holder, EndUndo
<1>5. Bodies'
  BY DEF IInv, Bodies, EndUndo
<1>6. Scopes'
  BY DEF IInv, Rows, Tasks, Holder, Scopes, EndUndo
<1>7. Previews'
  BY DEF IInv, Previews, Contents, EndUndo
<1>8. Claims'
  BY DEF IInv, Rows, Tasks, Holder, Bodies, Claims, ChangesAreUndoneOnce, EndUndo
<1>9. Compared'
  BY DEF IInv, Rows, Tasks, Holder, Compared, EndUndo
<1> QED
  BY <1>1, <1>2, <1>3, <1>4, <1>5, <1>6, <1>7, <1>8, <1>9 DEF IInv

LEMMA EditKeeps ==
  ASSUME IInv, NEW v \in Foreign, Edit(v)
  PROVE  IInv'
<1>1. Rows'
  BY DEF IInv, Rows, Edit
<1>2. Tasks'
  BY DEF IInv, Tasks, Edit
<1>3. Alive'
  BY DEF IInv, Alive, Edit, Replacing
<1>4. Holder'
  BY DEF IInv, Holder, Edit
<1>5. Bodies'
  BY DEF IInv, Bodies, Edit
<1>6. Scopes'
  BY DEF IInv, Scopes, Edit
<1>7. Previews'
  BY DEF IInv, Rows, Tasks, Holder, Bodies, Previews, Contents, Edit
<1>8. Claims'
  BY DEF IInv, Claims, ChangesAreUndoneOnce, Edit
<1>9. Compared'
  BY DEF IInv, Rows, Tasks, Holder, Compared, Edit, Replacing
<1> QED
  BY <1>1, <1>2, <1>3, <1>4, <1>5, <1>6, <1>7, <1>8, <1>9 DEF IInv

LEMMA CrashKeeps ==
  ASSUME IInv, Crash
  PROVE  IInv'
<1>1. Rows'
  BY DEF IInv, Rows, Crash
<1>2. Tasks'
  BY DEF IInv, Tasks, Crash
<1>3. Alive'
  BY DEF IInv, Alive, Crash
<1>4. Holder'
  BY DEF IInv, Rows, Tasks, Holder, Crash
<1>5. Bodies'
  BY DEF IInv, Rows, Tasks, Holder, Bodies, Crash
<1>6. Scopes'
  BY DEF IInv, Rows, Tasks, Holder, Scopes, Crash
<1>7. Previews'
  BY DEF IInv, Rows, Tasks, Holder, Bodies, Previews, Contents, Crash
<1>8. Claims'
  BY DEF IInv, Rows, Tasks, Holder, Bodies, Claims, ChangesAreUndoneOnce, Crash
<1>9. Compared'
  BY DEF IInv, Rows, Tasks, Holder, Compared, Crash
<1> QED
  BY <1>1, <1>2, <1>3, <1>4, <1>5, <1>6, <1>7, <1>8, <1>9 DEF IInv

LEMMA RecoverKeeps ==
  ASSUME IInv, Recover
  PROVE  IInv'
<1>1. Rows'
  BY DEF IInv, Rows, Recover, Interrupted
<1>2. Tasks'
  BY DEF IInv, Tasks, Recover, Interrupted
<1>3. Alive'
  BY DEF IInv, Alive, Recover, Interrupted
<1>4. Holder'
  BY DEF IInv, Holder, Recover, Interrupted
<1>5. Bodies'
  <2>1. \A c \in Calls : pc[c] \in {"idle", "asked", "done"}
    BY DEF IInv, Tasks, Holder, Scopes, Recover
  <2>2. \A c \in Calls :
          op'[c] = IF op[c] = "dispatched" THEN "outcome_unknown"
                   ELSE IF op[c] \in {"intent", "approved"} THEN "cancelled_before_effect"
                   ELSE op[c]
    BY DEF Recover, Interrupted
  <2> QED
    BY <2>1, <2>2 DEF IInv, Bodies, Recover
<1>6. Scopes'
  BY DEF IInv, Rows, Tasks, Holder, Scopes, Recover, Interrupted
<1>7. Previews'
  BY DEF IInv, Rows, Tasks, Holder, Bodies, Previews, Contents, Recover, Interrupted
<1>8. Claims'
  <2>1. \A u \in Undos : upc[u] \in {"idle", "done"}
    BY DEF IInv, Tasks, Holder, Scopes, Recover
  <2>2. \A c \in Calls : op[c] = "succeeded" => op'[c] = "succeeded"
    BY DEF Recover, Interrupted
  <2>3. \A u \in Undos :
          undo'[u] = IF undo[u] = "dispatched" THEN "outcome_unknown" ELSE undo[u]
    BY DEF Recover
  <2>4. target' = target /\ undone' = undone /\ upc' = upc
    BY DEF Recover
  <2>5. /\ undo \in [Undos -> {"none", "dispatched"} \cup Outcomes]
        /\ target \in [Undos -> Calls \cup {None}]
        /\ undone \in [Calls -> Undos \cup {None}]
    BY DEF IInv, Rows
  <2> QED
    BY <2>1, <2>2, <2>3, <2>4, <2>5 DEF IInv, Claims, ChangesAreUndoneOnce
<1>9. Compared'
  BY DEF IInv, Rows, Tasks, Holder, Compared, Recover, Interrupted
<1> QED
  BY <1>1, <1>2, <1>3, <1>4, <1>5, <1>6, <1>7, <1>8, <1>9 DEF IInv

LEMMA NextPreserves == IInv /\ [Next]_vars => IInv'
<1> SUFFICES ASSUME IInv, [Next]_vars PROVE IInv'
  OBVIOUS
<1>1. ASSUME NEW c \in Calls, Body(c)  PROVE IInv'
  BY <1>1, CreateKeeps, RejectKeeps, DeferKeeps, ExpireKeeps, GiveUpKeeps, ResumeKeeps,
     AbandonKeeps, DispatchKeeps, CompareKeeps, ReplaceKeeps, FileErrorKeeps, SpawnKeeps, ExitKeeps, SettleKeeps DEF Body
<1>2. ASSUME NEW u \in Undos, SettleUndo(u)  PROVE IInv'
  <2>1. upc[u] \in Undone /\ upc[u] \in Outcomes /\ used' = used
    BY <1>2 DEF SettleUndo
  <2> QED
    BY <1>2, <2>1, EndUndoKeeps DEF SettleUndo, IInv, Tasks
<1>3. ASSUME NEW u \in Undos, FailUndo(u)  PROVE IInv'
  <2>1. upc[u] \in Undone /\ used' \in [edits : Nat, crashes : Nat, faults : Nat]
    BY <1>3 DEF FailUndo, IInv, Tasks
  <2> QED
    BY <1>3, <2>1, EndUndoKeeps DEF FailUndo
<1>4. ASSUME UNCHANGED vars  PROVE IInv'
  BY <1>4 DEF vars, IInv, Rows, Tasks, Alive, Holder, Bodies, Scopes, Previews, Claims,
              ChangesAreUndoneOnce, Compared
<1> QED
  BY <1>1, <1>2, <1>3, <1>4, LoseSettlementKeeps, RespondKeeps, StartTurnKeeps, EndTurnKeeps,
     StartChildKeeps, EndChildKeeps, StopKeeps, LoseEndKeeps, BeginUndoKeeps, InspectKeeps,
     CompareUndoKeeps, RestoreKeeps, EditKeeps, CrashKeeps, RecoverKeeps DEF Next

LEMMA Invariance == Spec => []IInv
  BY Starts, NextPreserves, PTL DEF Spec

-----------------------------------------------------------------------------
(* The safety properties.                                                  *)

LEMMA Typed == IInv => TypeOK
<1> SUFFICES ASSUME IInv PROVE TypeOK
  OBVIOUS
<1>1. up \in BOOLEAN /\ raced \in BOOLEAN
  BY DEF IInv, Alive
<1>2. times \in [Calls -> Nat]
  BY DEF IInv, Tasks
<1>3. /\ lock \in Calls => pc[lock] \notin {"idle", "asked", "done"}
      /\ lock \in Undos => upc[lock] \notin {"idle", "done"}
  BY DEF IInv, Holder
<1>4. /\ agent \in [Agents -> {"idle", "live", "ending"}]
      /\ pc \in [Calls -> {"idle", "created", "asking", "invalid", "asked", "dispatched",
                           "checked", "running", "done"} \cup Outcomes]
      /\ upc \in [Undos -> {"idle", "begun", "inspected", "checked", "done"} \cup Outcomes]
      /\ lock \in Calls \cup Undos \cup {None}
  BY DEF IInv, Tasks
<1> QED
  BY <1>1, <1>2, <1>3, <1>4, Zenon DEF IInv, Rows, Previews, TypeOK

(* Rows, bodies, agents and the file take only the values the code gives   *)
(* them, and the lock is held only by a body that will release it.         *)
THEOREM TypeCorrect == Spec => []TypeOK
  BY Invariance, Typed, PTL

(* A turn or helper that has ended leaves no operation open, however it    *)
(* ended: store/actions.py _interrupt_operations runs with every end.      *)
THEOREM ScopesSettled == Spec => []EndedScopesAreSettled
<1>1. IInv => EndedScopesAreSettled
  BY DEF IInv, Rows, Scopes, EndedScopesAreSettled
<1> QED
  BY <1>1, Invariance, PTL

(* An undo and the change it may have restored name each other, and no     *)
(* other undo names that change: begin_undo claims it in one transaction.  *)
THEOREM UndoneOnce == Spec => []ChangesAreUndoneOnce
<1>1. IInv => ChangesAreUndoneOnce
  BY DEF IInv, Claims
<1> QED
  BY <1>1, Invariance, PTL

(* Somebody else's contents are replaced only by a call whose preview was  *)
(* made from them, or if they were written between the comparison of       *)
(* replace_image and its rename: what _undo compares with is a call's own. *)
THEOREM EditsKept == Spec => ForeignEditsAreKept
<1> DEFINE Kept == (file \in Foreign /\ file' # file /\ used' = used) =>
                      raced \/ (lock \in FileCalls /\ pre[lock] = file)
<1>1. ASSUME IInv, [Next]_vars, file \in Foreign, file' # file, used' = used, ~raced
      PROVE  lock \in FileCalls /\ pre[lock] = file
  <2>1. ASSUME NEW u \in Undos, Restore(u)  PROVE FALSE
    <3>1. file = After[target[u]] /\ target[u] \in FileCalls
      BY <1>1, <2>1 DEF Restore, IInv, Claims, Compared
    <3> QED
      BY <1>1, <3>1, ForeignAssumption
  <2>2. ASSUME NEW f \in Nat, f + 1 = f  PROVE FALSE
    BY <2>2
  <2>3. ASSUME NEW c \in Calls, FileError(c)  PROVE FALSE
    <3>1. used \in [edits : Nat, crashes : Nat, faults : Nat]
      BY <1>1 DEF IInv, Tasks
    <3>2. used.faults \in Nat /\ used'.faults = used.faults + 1
      BY <2>3, <3>1 DEF FileError
    <3> QED
      BY <1>1, <2>2, <3>2
  <2>4. ASSUME NEW c \in Calls, Body(c)  PROVE lock \in FileCalls /\ pre[lock] = file
    <3>1. Replace(c)
      BY <1>1, <2>3, <2>4 DEF Body, Create, Reject, Defer, Expire, Decided, GiveUp, Resume, Abandon,
                              Dispatch, Compare, Spawn, Exit, Settle
    <3>2. pc[c] = "checked" /\ c \in FileCalls /\ lock = c
      BY <1>1, <3>1 DEF Replace, IInv, Bodies, Holder
    <3> QED
      BY <1>1, <3>2 DEF IInv, Compared
  <2>5. ASSUME NEW v \in Foreign, Edit(v)  PROVE FALSE
    <3>1. used \in [edits : Nat, crashes : Nat, faults : Nat]
      BY <1>1 DEF IInv, Tasks
    <3>2. used.edits \in Nat /\ used'.edits = used.edits + 1
      BY <2>5, <3>1 DEF Edit
    <3> QED
      BY <1>1, <2>2, <3>2
  <2> QED
    BY <1>1, <2>1, <2>4, <2>5 DEF Next, vars, LoseSettlement, Respond, Decided, StartTurn, EndTurn,
       StartChild, EndChild, Stop, LoseEnd, BeginUndo, Inspect, CompareUndo, SettleUndo, FailUndo,
       EndUndo, Crash, Recover
<1>2. IInv /\ [Next]_vars => [Kept]_vars
  BY <1>1
<1> QED
  BY <1>2, Invariance, PTL DEF Spec, ForeignEditsAreKept

-----------------------------------------------------------------------------
(* ActionLedger implements EffectLedger: each step moves one entry, acts   *)
(* once, closes a set of open entries, or is invisible.                    *)

Visible == [c \in Calls |-> PhaseOf(op[c])]

(* A row that changes alone is an entry that changes alone.                *)
LEMMA OneEntry ==
  ASSUME op \in [Calls -> States], NEW c \in Calls, NEW state \in States,
         op' = [op EXCEPT ![c] = state]
  PROVE  Visible' = [Visible EXCEPT ![c] = PhaseOf(state)] /\ Visible[c] = PhaseOf(op[c])
  BY DEF Visible

(* An entry moves along the ledger when its row does.                      *)
LEMMA Moves ==
  ASSUME op \in [Calls -> States], NEW c \in Calls, NEW state \in States,
         op' = [op EXCEPT ![c] = state], times' = times,
         \/ op[c] = "none" /\ state \in {"intent", "approved"}
         \/ op[c] = "intent" /\ state = "approved"
         \/ op[c] = "approved" /\ state = "dispatched"
  PROVE  Effects!Next
<1>1. /\ [x \in Calls |-> PhaseOf(op[x])]' = [[x \in Calls |-> PhaseOf(op[x])] EXCEPT ![c] = PhaseOf(state)]
      /\ [x \in Calls |-> PhaseOf(op[x])][c] = PhaseOf(op[c])
  BY OneEntry DEF Visible
<1>2. Effects!Propose(c) \/ Effects!Permit(c) \/ Effects!Commit(c)
  BY <1>1 DEF Effects!Propose, Effects!Permit, Effects!Commit, Effects!Move, PhaseOf
<1> QED
  BY <1>2 DEF Effects!Next

(* The end of a set of operations closes their entries.                    *)
LEMMA Closes ==
  ASSUME op \in [Calls -> States], NEW S \in SUBSET Calls, op' = Interrupted(S), times' = times
  PROVE  Effects!Next
<1>1. Effects!Close(S)
  BY DEF Effects!Close, Interrupted, PhaseOf
<1> QED
  BY <1>1 DEF Effects!Next

(* So does the end of one operation that was not dispatched.               *)
LEMMA Refuses ==
  ASSUME op \in [Calls -> States], NEW c \in Calls, op[c] \in {"intent", "approved"},
         NEW state \in {"denied", "cancelled_before_effect"},
         op' = [op EXCEPT ![c] = state], times' = times
  PROVE  Effects!Next
<1>1. Effects!Close({c})
  BY DEF Effects!Close, PhaseOf
<1> QED
  BY <1>1 DEF Effects!Next

(* A dispatched call is settled with what was seen of it.                  *)
LEMMA Settles ==
  ASSUME op \in [Calls -> States], NEW c \in Calls, op[c] = "dispatched", NEW state \in Outcomes,
         state # "outcome_unknown" => times[c] = 1,
         op' = [op EXCEPT ![c] = state], times' = times
  PROVE  Effects!Next
<1>1. /\ [x \in Calls |-> PhaseOf(op[x])]' = [[x \in Calls |-> PhaseOf(op[x])] EXCEPT ![c] = PhaseOf(state)]
      /\ [x \in Calls |-> PhaseOf(op[x])][c] = "committed"
      /\ PhaseOf(state) \in Effects!Settled
      /\ PhaseOf(state) # "unknown" => times[c] = 1
  BY OneEntry DEF Visible, PhaseOf, Effects!Settled
<1>2. Effects!Settle(c, PhaseOf(state))
  BY <1>1 DEF Effects!Settle, Effects!Move
<1> QED
  BY <1>1, <1>2 DEF Effects!Next

(* The effect itself changes no entry.                                     *)
LEMMA Acts ==
  ASSUME op \in [Calls -> States], NEW c \in Calls, op[c] = "dispatched", times[c] = 0,
         op' = op, times' = [times EXCEPT ![c] = 1]
  PROVE  Effects!Next
<1>1. Effects!Act(c)
  BY DEF Effects!Act, PhaseOf
<1> QED
  BY <1>1 DEF Effects!Next

LEMMA Invisible ==
  ASSUME op' = op, times' = times
  PROVE  UNCHANGED Effects!vars
  BY DEF Effects!vars

LEMMA InitMaps == Init => Effects!Init
  BY DEF Init, Effects!Init, PhaseOf

(* A body's step.                                                          *)
LEMMA BodyMaps ==
  ASSUME IInv, NEW c \in Calls, Body(c)
  PROVE  [Effects!Next]_Effects!vars
<1> USE DEF IInv, Rows
<1>1. ASSUME NEW valid \in BOOLEAN, Create(c, valid)  PROVE Effects!Next
  <2>1. PICK state \in {"intent", "approved"} : op' = [op EXCEPT ![c] = state]
    BY <1>1 DEF Create
  <2>2. op[c] = "none" /\ times' = times
    BY <1>1 DEF Create, Bodies
  <2> QED
    BY <2>1, <2>2, Moves
<1>2. ASSUME Reject(c)  PROVE [Effects!Next]_Effects!vars
  <2>1. CASE op[c] = "intent"
    BY <1>2, <2>1, Refuses DEF Reject
  <2>2. CASE op[c] # "intent"
    BY <1>2, <2>2, Invisible DEF Reject
  <2> QED
    BY <2>1, <2>2
<1>3. ASSUME \/ Defer(c) \/ GiveUp(c) \/ Resume(c) \/ Compare(c)
             \/ \E outcome \in Outcomes : Exit(c, outcome)
      PROVE  UNCHANGED Effects!vars
  BY <1>3, Invisible DEF Defer, GiveUp, Resume, Compare, Exit
<1>4. ASSUME Expire(c)  PROVE Effects!Next
  BY <1>4, Refuses DEF Expire, Decided
<1>5. ASSUME Abandon(c)  PROVE Effects!Next
  BY <1>5, Refuses DEF Abandon
<1>6. ASSUME Dispatch(c)  PROVE Effects!Next
  BY <1>6, Moves DEF Dispatch
<1>7. ASSUME Replace(c) \/ FileError(c) \/ Spawn(c)  PROVE [Effects!Next]_Effects!vars
  <2>1. op[c] = "dispatched" /\ times[c] = 0 /\ op' = op
    BY <1>7 DEF Replace, FileError, Spawn, Bodies
  <2>2. times' = times \/ times' = [times EXCEPT ![c] = 1]
    BY <1>7, <2>1 DEF Replace, FileError, Spawn, Tasks
  <2> QED
    BY <2>1, <2>2, Acts, Invisible
<1>8. ASSUME Settle(c)  PROVE Effects!Next
  <2>1. PICK state \in {pc[c], "outcome_unknown"} : op' = [op EXCEPT ![c] = state]
    BY <1>8 DEF Settle
  <2>2. /\ op[c] = "dispatched" /\ times' = times /\ state \in Outcomes
        /\ state # "outcome_unknown" => times[c] = 1
    BY <1>8, <2>1 DEF Settle, Bodies
  <2> QED
    BY <2>1, <2>2, Settles
<1> QED
  BY <1>1, <1>2, <1>3, <1>4, <1>5, <1>6, <1>7, <1>8 DEF Body

(* At most one settlement is due: its body holds the lock.                 *)
LEMMA StopMaps ==
  ASSUME IInv, NEW a \in Agents, Stop(a)
  PROVE  [Effects!Next]_Effects!vars
<1> USE DEF IInv, Rows
<1>1. op' = [c \in Calls |-> IF AgentOf[c] = a /\ pc[c] \in Outcomes THEN pc[c] ELSE op[c]]
      /\ times' = times
  BY DEF Stop
<1>2. CASE \E c \in Calls : AgentOf[c] = a /\ pc[c] \in Outcomes
  <2>1. PICK c \in Calls : AgentOf[c] = a /\ pc[c] \in Outcomes
    BY <1>2
  <2>2. \A d \in Calls : d # c => pc[d] \notin Outcomes
    BY <2>1 DEF Holder
  <2>3. op' = [op EXCEPT ![c] = pc[c]]
    BY <1>1, <2>1, <2>2
  <2>4. op[c] = "dispatched" /\ (pc[c] # "outcome_unknown" => times[c] = 1)
    BY <2>1 DEF Bodies
  <2> QED
    BY <1>1, <2>1, <2>3, <2>4, Settles
<1>3. CASE ~ \E c \in Calls : AgentOf[c] = a /\ pc[c] \in Outcomes
  BY <1>1, <1>3, Invisible
<1> QED
  BY <1>2, <1>3

LEMMA StepMaps == IInv /\ [Next]_vars => [Effects!Next]_Effects!vars
<1> SUFFICES ASSUME IInv, [Next]_vars PROVE [Effects!Next]_Effects!vars
  OBVIOUS
<1>0. op \in [Calls -> States]
  BY DEF IInv, Rows
<1>1. ASSUME (\E c \in Calls : LoseSettlement(c)) \/ (\E a \in Agents : LoseEnd(a))
      PROVE  UNCHANGED Effects!vars
  BY <1>1, Invisible DEF LoseSettlement, LoseEnd
<1>2. ASSUME NEW c \in Calls, NEW verdict \in {"approved", "denied"}, Respond(c, verdict)
      PROVE  Effects!Next
  BY <1>0, <1>2, Moves, Refuses DEF Respond, Decided
<1>3. ASSUME NEW t \in Turns, StartTurn(t) \/ EndTurn(t)  PROVE [Effects!Next]_Effects!vars
  <2>1. {c \in Calls : TurnOf[AgentOf[c]] = t} \in SUBSET Calls
    OBVIOUS
  <2> QED
    BY <1>0, <1>3, <2>1, Closes, Invisible DEF StartTurn, EndTurn
<1>4. ASSUME NEW k \in Children, StartChild(k) \/ EndChild(k)
      PROVE  [Effects!Next]_Effects!vars
  BY <1>0, <1>4, Closes, Invisible DEF StartChild, EndChild
<1>5. ASSUME NEW u \in Undos, \/ BeginUndo(u) \/ Inspect(u) \/ CompareUndo(u) \/ Restore(u)
                               \/ SettleUndo(u) \/ FailUndo(u)
      PROVE  UNCHANGED Effects!vars
  BY <1>5, Invisible DEF BeginUndo, Inspect, CompareUndo, Restore, SettleUndo, FailUndo, EndUndo
<1>6. ASSUME (\E v \in Foreign : Edit(v)) \/ Crash  PROVE UNCHANGED Effects!vars
  BY <1>6, Invisible DEF Edit, Crash
<1>7. ASSUME Recover  PROVE Effects!Next
  BY <1>0, <1>7, Closes DEF Recover
<1>8. ASSUME UNCHANGED vars  PROVE UNCHANGED Effects!vars
  BY <1>8, Invisible DEF vars
<1> QED
  BY <1>1, <1>2, <1>3, <1>4, <1>5, <1>6, <1>7, <1>8, BodyMaps, StopMaps DEF Next

(* The journal keeps the promise of EffectLedger for any calls, agents,    *)
(* kills, faults and edits: an effect is made at most once and only after  *)
(* its commitment, a refusal is final and no settled row is rewritten.     *)
THEOREM Refinement == Spec => ImplementsEffects
<1>1. Spec => Effects!Spec
  BY InitMaps, StepMaps, Invariance, PTL DEF Spec, Effects!Spec
<1> QED
  BY <1>1 DEF ImplementsEffects

=============================================================================
