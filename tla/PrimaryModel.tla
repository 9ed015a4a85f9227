----------------------------- MODULE PrimaryModel -----------------------------
(***************************************************************************)
(* PrimaryModelLifecycle of rapid_mlx/runtime/primary_lifecycle.py: the    *)
(* configured model is loaded on demand, by one load that all requests     *)
(* share, and unloaded when idle, under one FIFO asyncio lock.  All of it  *)
(* runs on the event loop, so a step is the code between two awaits; the   *)
(* awaits that matter are the lock, the shared load, the hooks, and the    *)
(* engine's start, stop and pause_generation (resume_generation has none). *)
(***************************************************************************)
EXTENDS Naturals, Sequences, SequencesExt

CONSTANTS Requests,   \* requests, each with one route token at a time
          None,       \* the holder of a free lock
          Faults,     \* what may fail, see FaultKinds
          MaxFaults   \* bound: failures in a behaviour

FaultKinds == {"start", "hook", "stop", "pause", "resume"}

Tasks == {"load", "evict"}

ASSUME PrimaryAssumption ==
  /\ Tasks \cap Requests = {} /\ None \notin Requests \cup Tasks
  /\ Faults \subseteq FaultKinds /\ MaxFaults \in Nat

VARIABLES req,      \* per request: where it is
          lock,     \* holder of _transition_lock
          waitq,    \* its waiters, in order
          load,     \* where _load_task is, "none" when done or absent
          evict,    \* where the idle monitor is
          state,    \* the published state
          loaded,   \* engine._loaded
          paused,   \* the engine's admission is closed
          resume,   \* _resume_required
          quiet,    \* idle_unload_seconds have passed since the last touch
          whole,    \* history: no stop has begun since the engine started
          down,     \* how far the lifespan is in tearing down
          faults    \* failures that may still happen

engine == <<loaded, paused, resume, whole>>

vars == <<req, lock, waitq, load, evict, state, engine, quiet, down, faults>>

Init == /\ req = [r \in Requests |-> "idle"]
        /\ lock = None /\ waitq = <<>>
        /\ load = "none" /\ evict = "sleeping"
        /\ loaded \in BOOLEAN
        /\ state = IF loaded THEN "ready" ELSE "standby"
        /\ paused = FALSE /\ resume = FALSE
        /\ quiet = FALSE /\ whole = loaded
        /\ down = "up" /\ faults = MaxFaults

(* _request_tokens: from acquire_request until the route lets go or, once  *)
(* it has handed its response to a stream, until the stream ends.          *)
OwnersUntransferred == {r \in Requests : req[r] \notin {"idle", "leftover", "streaming"}}

Owners == {r \in Requests : req[r] \notin {"idle", "leftover"}}

(* Requests with the engine: "leftover" ones are gone, and the scheduler   *)
(* still has work for them.                                                *)
Working == {r \in Requests : req[r] \in {"serving", "streaming", "leftover"}}

(* What lifecycle_status is sure to count: an owner may be on its way into *)
(* the scheduler or out of it.                                             *)
Active == {r \in Requests : req[r] = "leftover"}

LockFree == lock = None /\ waitq = <<>>

Granted(x) == lock = None /\ waitq # <<>> /\ Head(waitq) = x

Fault(kind) == kind \in Faults /\ faults > 0 /\ faults' = faults - 1

Steady == UNCHANGED <<down, faults>>

-----------------------------------------------------------------------------
(* Requests.  Decide: ensure_loaded with the lock in its hands, q being    *)
(* the waiters behind it; only the reset of a partial load awaits inside.  *)
Serve(r) == /\ req' = [req EXCEPT ![r] = "serving"]
            /\ UNCHANGED <<lock, load, state, engine>>

Reset(r) == /\ req' = [req EXCEPT ![r] = "resetting"]
            /\ lock' = r /\ whole' = FALSE
            /\ UNCHANGED <<load, state, loaded, paused, resume>>

Share(r) == /\ req' = [req EXCEPT ![r] = "sharing"]
            /\ load' = IF load = "none" THEN "pending" ELSE load
            /\ UNCHANGED <<lock, state, engine>>

Decide(r, q) ==
  /\ waitq' = q
  /\ \/ loaded /\ state = "ready" /\ Serve(r)
     \/ loaded /\ state = "error" /\ Reset(r)
     \/ ~(loaded /\ state \in {"ready", "error"}) /\ Share(r)

(* ensure_engine_ready: acquire_request, then ensure_loaded to its first   *)
(* await.  A closed coordinator refuses, which changes nothing.            *)
Arrive(r) ==
  /\ down = "up" /\ req[r] = "idle"
  /\ quiet' = FALSE
  /\ \/ loaded /\ state = "ready" /\ Serve(r) /\ UNCHANGED waitq
     \/ ~(loaded /\ state = "ready") /\ LockFree /\ Decide(r, waitq)
     \/ /\ ~(loaded /\ state = "ready") /\ ~LockFree
        /\ req' = [req EXCEPT ![r] = "queued"] /\ waitq' = Append(waitq, r)
        /\ UNCHANGED <<lock, load, state, engine>>
  /\ UNCHANGED evict /\ Steady

Enter(r) == /\ Granted(r) /\ Decide(r, Tail(waitq))
            /\ UNCHANGED <<evict, quiet>> /\ Steady

(* _reset_partial_load in ensure_loaded: a stop that fails, or that the    *)
(* request's cancellation interrupts, or a hook after it that fails,       *)
(* leaves the engine to the next one.                                      *)
ResetDone(r) ==
  /\ req[r] = "resetting"
  /\ loaded' = FALSE /\ load' = "pending" /\ lock' = None
  /\ req' = [req EXCEPT ![r] = "sharing"]
  /\ UNCHANGED <<waitq, evict, state, paused, resume, whole, quiet>> /\ Steady

ResetFails(r) ==
  /\ req[r] = "resetting" /\ Fault("stop")
  /\ loaded' = FALSE \/ loaded' = loaded
  /\ lock' = None /\ req' = [req EXCEPT ![r] = "refused"]
  /\ UNCHANGED <<waitq, load, evict, state, paused, resume, whole, quiet, down>>

(* A request is cancelled while it waits: its token goes, the load stays.  *)
CancelQueued(r) ==  \* slip: the cancelled waiter keeps its place
  /\ req[r] \in {"queued", "sharing"}
  /\ req' = [req EXCEPT ![r] = "idle"] /\ quiet' = FALSE
  /\ UNCHANGED <<lock, waitq, load, evict, state, engine>> /\ Steady

Cancel(r) ==
  /\ \/ \E i \in DOMAIN waitq : waitq[i] = r /\ waitq' = RemoveAt(waitq, i)
     \/ req[r] = "sharing" /\ UNCHANGED waitq
  /\ req' = [req EXCEPT ![r] = "idle"] /\ quiet' = FALSE
  /\ UNCHANGED <<lock, load, evict, state, engine>> /\ Steady

(* The shared load raised: the request is answered 503.                    *)
Refuse(r) ==
  /\ req[r] = "refused" /\ req' = [req EXCEPT ![r] = "idle"] /\ quiet' = FALSE
  /\ UNCHANGED <<lock, waitq, load, evict, state, engine>> /\ Steady

(* The route or the stream ends, or the route hands over to a stream.      *)
Release(r) ==
  /\ req[r] \in {"serving", "streaming"}
  /\ \E next \in {"idle", "leftover"} : req' = [req EXCEPT ![r] = next]
  /\ quiet' = FALSE
  /\ UNCHANGED <<lock, waitq, load, evict, state, engine>> /\ Steady

Transfer(r) ==
  /\ req[r] = "serving" /\ req' = [req EXCEPT ![r] = "streaming"]
  /\ UNCHANGED <<lock, waitq, load, evict, state, engine, quiet>> /\ Steady

Drained(r) ==
  /\ req[r] = "leftover" /\ req' = [req EXCEPT ![r] = "idle"]
  /\ UNCHANGED <<lock, waitq, load, evict, state, engine, quiet>> /\ Steady

-----------------------------------------------------------------------------
(* The load task.  It finds the engine unloaded: only it starts the engine.*)
LoadBegin == /\ lock' = "load" /\ load' = "starting" /\ state' = "loading"
             /\ UNCHANGED <<req, evict, engine, quiet>> /\ Steady

LoadEnter ==
  /\ load = "pending"
  /\ \/ LockFree /\ LoadBegin /\ UNCHANGED waitq
     \/ /\ ~LockFree /\ load' = "queued" /\ waitq' = Append(waitq, "load")
        /\ UNCHANGED <<req, lock, evict, state, engine, quiet>> /\ Steady

LoadGranted == Granted("load") /\ waitq' = Tail(waitq) /\ LoadBegin

(* The task ends, the lock is released, and who shared it goes on.         *)
LoadEndLocked(outcome) ==  \* slip: a failed load forgets to release the lock
  /\ load' = "none" /\ lock' = (IF outcome = "refused" THEN lock ELSE None)
  /\ req' = [r \in Requests |-> IF req[r] = "sharing" THEN outcome ELSE req[r]]
  /\ UNCHANGED <<waitq, evict, down>>

LoadEnd(outcome) ==
  /\ load' = "none" /\ lock' = None
  /\ req' = [r \in Requests |-> IF req[r] = "sharing" THEN outcome ELSE req[r]]
  /\ UNCHANGED <<waitq, evict, down>>

Started == load = "starting" /\ loaded' = TRUE /\ whole' = TRUE

LoadStarted ==
  /\ Started /\ load' = "hooking"
  /\ paused' = (paused /\ ~resume) /\ resume' = FALSE
  /\ UNCHANGED <<req, lock, waitq, evict, state, quiet>> /\ Steady

StartFails ==
  /\ load = "starting" /\ Fault("start")
  /\ state' = "error" /\ LoadEnd("refused")
  /\ UNCHANGED <<engine, quiet>>

(* Whatever fails once the engine is loaded has the engine stopped again.  *)
ResumeFails ==
  /\ Started /\ resume /\ Fault("resume")
  /\ state' = "error" /\ load' = "undoing"
  /\ UNCHANGED <<req, lock, waitq, evict, paused, resume, quiet, down>>

HookFails ==
  /\ load = "hooking" /\ Fault("hook")
  /\ state' = "error" /\ load' = "undoing"
  /\ UNCHANGED <<req, lock, waitq, evict, engine, quiet, down>>

Undone ==
  /\ load = "undoing" /\ whole' = FALSE
  /\ \/ loaded' = FALSE /\ UNCHANGED faults
     \/ Fault("stop") /\ loaded' = loaded
  /\ LoadEnd("refused")
  /\ UNCHANGED <<state, paused, resume, quiet>>

LoadDone ==
  /\ load = "hooking"
  /\ state' = "ready" /\ quiet' = FALSE /\ LoadEnd("serving")
  /\ UNCHANGED <<engine, faults>>

-----------------------------------------------------------------------------
(* The idle monitor.  evict_if_idle's first check already implies that the *)
(* lock is free (see StateIsTruthful), so it is taken at once.             *)
Tick == /\ ~quiet /\ quiet' = TRUE
        /\ UNCHANGED <<req, lock, waitq, load, evict, state, engine>> /\ Steady

Idle == evict = "sleeping" /\ Owners = {} /\ state = "ready" /\ loaded /\ quiet

StillBusy == /\ Idle /\ Active # {} /\ quiet' = FALSE
             /\ UNCHANGED <<req, lock, waitq, load, evict, state, engine>> /\ Steady

(* The state closes ensure_loaded's fast path before pause_generation      *)
(* closes the engine's admission and, in general, yields.                  *)
EvictBegin ==
  /\ Idle /\ Active = {}
  /\ lock' = "evict" /\ evict' = "pausing" /\ state' = "unloading" /\ paused' = TRUE
  /\ UNCHANGED <<req, waitq, load, loaded, resume, whole, quiet>> /\ Steady

(* _resume_admission, then the end of the eviction: s when admission is    *)
(* open again, error (and it stays closed) when the engine cannot; n is    *)
(* what is left of the failures.                                           *)
EvictEndFalsely(s, n) ==  \* slip: a failed resume still publishes s
  /\ lock' = None /\ evict' = "sleeping" /\ state' = s
  /\ \/ paused' = FALSE /\ resume' = FALSE /\ faults' = n
     \/ "resume" \in Faults /\ n > 0 /\ faults' = n - 1 /\ resume' = TRUE /\ UNCHANGED paused
  /\ UNCHANGED <<req, waitq, load, down>>

EvictEnd(s, n) ==
  /\ lock' = None /\ evict' = "sleeping"
  /\ \/ state' = s /\ paused' = FALSE /\ resume' = FALSE /\ faults' = n
     \/ /\ "resume" \in Faults /\ n > 0 /\ faults' = n - 1
        /\ state' = "error" /\ resume' = TRUE /\ UNCHANGED paused
  /\ UNCHANGED <<req, waitq, load, down>>

(* A request that arrived while generation paused is waiting for the lock. *)
PauseDone ==
  /\ evict = "pausing" /\ Owners = {}
  /\ evict' = "saving" /\ resume' = TRUE
  /\ UNCHANGED <<req, lock, waitq, load, state, loaded, paused, whole, quiet>> /\ Steady

PauseLost ==
  /\ evict = "pausing" /\ Owners # {}
  /\ EvictEnd("ready", faults)
  /\ quiet' = (quiet /\ state' = "error") /\ UNCHANGED <<loaded, whole>>

PauseFails ==
  /\ evict = "pausing" /\ "pause" \in Faults /\ faults > 0
  /\ EvictEnd("ready", faults - 1)
  /\ quiet' = FALSE /\ UNCHANGED <<loaded, whole>>

(* The cache is saved, or not: the unload goes on, whoever has arrived.    *)
SaveDone ==
  /\ evict = "saving" /\ evict' = "stopping" /\ whole' = FALSE
  /\ UNCHANGED <<req, lock, waitq, load, state, loaded, paused, resume, quiet>> /\ Steady

StopDone ==
  /\ evict = "stopping" /\ evict' = "clearing" /\ loaded' = FALSE
  /\ UNCHANGED <<req, lock, waitq, load, state, paused, resume, whole, quiet>> /\ Steady

(* A stop that raised may have left the engine loaded or not; the monitor  *)
(* logs the exception and goes on.                                         *)
StopEndsMonitor ==  \* slip: the exception ends the monitor's loop
  /\ evict = "stopping" /\ "stop" \in Faults /\ faults > 0
  /\ faults' = faults - 1
  /\ lock' = None /\ evict' = "gone" /\ state' = "ready" /\ paused' = FALSE /\ resume' = FALSE
  /\ quiet' = FALSE /\ UNCHANGED <<req, waitq, load, loaded, whole, down>>

StopFails ==
  /\ evict = "stopping" /\ "stop" \in Faults /\ faults > 0
  /\ \E stays \in BOOLEAN : /\ loaded' = stays /\ quiet' = (quiet /\ ~stays)
                            /\ EvictEnd(IF stays THEN "ready" ELSE "error", faults - 1)
  /\ UNCHANGED whole

(* The allocator's cache is released, or not.                              *)
ClearDone ==
  /\ evict = "clearing" /\ EvictEnd("standby", faults)
  /\ UNCHANGED <<loaded, whole, quiet>>

-----------------------------------------------------------------------------
(* The lifespan ends, the requests before it: shutdown closes the          *)
(* coordinator and cancels the monitor, which reopens admission from       *)
(* wherever it is; a stop cut short has dropped the model or not, and      *)
(* leaves what remains of the engine to the lifespan.                      *)
Shutdown ==
  /\ down = "up" /\ Owners = {}
  /\ down' = "draining" /\ evict' = "gone"
  /\ lock' = (IF lock = "evict" THEN None ELSE lock)
  /\ \E stays \in IF evict = "stopping" THEN BOOLEAN ELSE {TRUE} :
       /\ loaded' = (loaded /\ stays)
       /\ state' = CASE evict \in {"pausing", "saving", "stopping"} /\ stays -> "ready"
                     [] ~stays -> "error"
                     [] OTHER -> state
       /\ quiet' = (quiet /\ (evict \in {"sleeping", "clearing"} \/ ~stays))
  /\ paused' = (paused /\ evict = "sleeping") /\ resume' = (resume /\ evict = "sleeping")
  /\ UNCHANGED <<req, waitq, load, whole, faults>>

(* detach, for the handoff to a replacement: refused during a transition.  *)
Transitioning == \/ lock # None \/ Owners # {}
                 \/ state \in {"loading", "unloading"} \/ load # "none"

Detach ==
  /\ down = "up" /\ ~Transitioning
  /\ down' = "draining" /\ evict' = "gone"
  /\ UNCHANGED <<req, lock, waitq, load, state, engine, quiet, faults>>

(* shutdown drains the load; then its caller stops the engine.             *)
TeardownAtOnce ==  \* slip: the engine is stopped while a load is under way
  /\ down = "draining"
  /\ down' = "stopping" /\ whole' = FALSE
  /\ UNCHANGED <<req, lock, waitq, load, evict, state, loaded, paused, resume, quiet, faults>>

Teardown ==
  /\ down = "draining" /\ load = "none"
  /\ down' = "stopping" /\ whole' = FALSE
  /\ UNCHANGED <<req, lock, waitq, load, evict, state, loaded, paused, resume, quiet, faults>>

Stopped ==
  /\ down = "stopping" /\ down' = "stopped" /\ loaded' = FALSE
  /\ UNCHANGED <<req, lock, waitq, load, evict, state, paused, resume, whole, quiet, faults>>

-----------------------------------------------------------------------------
Waiter(r) == Enter(r) \/ ResetDone(r) \/ ResetFails(r) \/ Refuse(r)

Loader == \/ LoadEnter \/ LoadGranted \/ LoadStarted \/ StartFails \/ ResumeFails
          \/ HookFails \/ Undone \/ LoadDone

Monitor == \/ StillBusy \/ EvictBegin \/ PauseDone \/ PauseLost \/ PauseFails
           \/ SaveDone \/ StopDone \/ StopFails \/ ClearDone

Lifespan == Shutdown \/ Detach \/ Teardown \/ Stopped

Next == \/ \E r \in Requests : \/ Arrive(r) \/ Cancel(r) \/ Release(r) \/ Transfer(r)
                               \/ Drained(r) \/ Waiter(r)
        \/ Loader \/ Monitor \/ Tick \/ Lifespan

Spec == Init /\ [][Next]_vars

(* The event loop runs every ready task, the engine's calls and the hooks  *)
(* return, the scheduler drops work nobody waits for, and time passes.     *)
FairSpec == /\ Spec /\ WF_vars(Loader) /\ WF_vars(Monitor) /\ WF_vars(Tick)
            /\ \A r \in Requests : WF_vars(Waiter(r)) /\ WF_vars(Drained(r))

-----------------------------------------------------------------------------
(* Who waits for the lock: requests that are queued and a load that has    *)
(* been created, each once.                                                *)
WellQueued ==
  /\ waitq \in Seq(Requests \cup {"load"})
  /\ \A i \in DOMAIN waitq : \/ waitq[i] \in Requests /\ req[waitq[i]] = "queued"
                             \/ waitq[i] = "load" /\ load = "queued"
  /\ \A i, j \in DOMAIN waitq : waitq[i] = waitq[j] => i = j

TypeOK ==
  /\ req \in [Requests -> {"idle", "queued", "resetting", "sharing", "refused",
                           "serving", "streaming", "leftover"}]
  /\ lock \in Requests \cup Tasks \cup {None}
  /\ WellQueued
  /\ load \in {"none", "pending", "queued", "starting", "hooking", "undoing"}
  /\ evict \in {"sleeping", "pausing", "saving", "stopping", "clearing", "gone"}
  /\ state \in {"ready", "standby", "loading", "unloading", "error"}
  /\ loaded \in BOOLEAN /\ paused \in BOOLEAN /\ resume \in BOOLEAN
  /\ quiet \in BOOLEAN /\ whole \in BOOLEAN
  /\ down \in {"up", "draining", "stopping", "stopped"} /\ faults \in 0..MaxFaults

Stopping == evict = "stopping" \/ down = "stopping" \/ load = "undoing"
            \/ \E r \in Requests : req[r] = "resetting"

(* A request that got past ensure_loaded, its stream, and the work it      *)
(* leaves in the scheduler have a loaded model that nobody is stopping,    *)
(* and whose admission is open, until they let go of it.                   *)
UsersAreServed ==
  down = "up" /\ Working # {} => loaded /\ ~paused /\ ~Stopping

(* The engine is never started and stopped at once: by the load and the    *)
(* monitor, a request that resets a partial load, or the lifespan.         *)
OneTransition == ~(load \in {"starting", "hooking"} /\ Stopping)

(* What is published is true: a ready model is loaded, admits requests and *)
(* is in nobody's hands (so an idle one can be unloaded without waiting),  *)
(* and a standby one is unloaded, open for the request that reloads it.    *)
Published ==
  /\ state = "ready" => loaded /\ ~paused /\ lock = None /\ load = "none"
  /\ state = "standby" => ~loaded /\ ~paused

StateIsTruthful ==
  down = "up" => /\ Published
                 /\ state = "ready" /\ Owners = {} => waitq = <<>>

(* Whoever fails, is cancelled or resets, a request that waits for the     *)
(* model is answered.                                                      *)
Waiting(r) == req[r] \in {"queued", "resetting", "sharing", "refused"}

EveryRequestIsAnswered == \A r \in Requests : Waiting(r) ~> ~Waiting(r)

(* A model nobody asks for any more does not keep its memory, unless an    *)
(* error is left for the next request to clear.                            *)
IdleIsUnloaded == <>[](Owners = {}) => <>[](~loaded \/ state = "error" \/ down # "up")

-----------------------------------------------------------------------------
(* A claim the behaviour contradicts: a stop that failed is retried before *)
(* requests are served again, so that it cannot wedge the endpoint.        *)
ServedWhole == down = "up" /\ Working # {} => whole
=============================================================================
