-------------------------- MODULE RequestLifecycle --------------------------
(***************************************************************************)
(* A request from submission to its last output: EngineCore (the event     *)
(* loop: clients, the engine loop, output distribution) and Scheduler (the *)
(* single mlx-step worker: admission, steps, aborts, failures).  The two   *)
(* meet in the executor's queue of jobs, in step outputs, and in the       *)
(* scheduler state that abort_request and remove_finished_request change   *)
(* from the event loop while a step is running.                            *)
(***************************************************************************)
EXTENDS Integers, Sequences, SequencesExt, FiniteSets, StreamOutputs

CONSTANTS Ids,         \* request ids
          Generating,  \* ids awaited by generate(); the rest stream
          MaxLife,     \* bound: requests submitted under one id
          MaxRunning,  \* max_num_seqs
          MaxTokens,   \* max_tokens of every request
          Interval,    \* stream_interval
          FatalAfter,  \* consecutive shared failures that fail everything
          Faults       \* what the environment may do, see FaultKinds

FaultKinds == {"withdraw", "disconnect", "guard", "cancel", "refuse", "pause", "own", "shared",
               "insertCorrupt", "decodeCorrupt", "raise", "recovery", "repeat"}

ASSUME BoundsAssumption ==
  /\ IsFiniteSet(Ids) /\ Generating \subseteq Ids /\ Faults \subseteq FaultKinds
  /\ {MaxLife, MaxRunning, MaxTokens, Interval, FatalAfter} \subseteq Nat \ {0}

Objects == Ids \X (1..MaxLife)   \* Request objects: an id and its lifetime

ASSUME NoneAssumption ==
  None \notin Ids \cup Objects \cup [n : Nat, total : Nat, fin : Reasons, err : Errors]

VARIABLES client,    \* per id: where its client is, lifetime, tokens, end
          stream,    \* per id: collector, interval buffer, sent, event
          sched,     \* the Scheduler
          jobs,      \* the executor's queue: "add" an object, "step", "fail"
          step,      \* what the worker is in the middle of (its `ghosts' is a
                     \* history: the untracked requests when the step began)
          loop,      \* where the engine loop is
          produced,  \* outputs of the last step, per id, not yet distributed
          paused     \* _generation_paused

vars == <<client, stream, sched, jobs, step, loop, produced, paused>>

Unfinished == {"waiting", "running"}

Statuses == Unfinished \cup {"stopped", "capped", "aborted", "cancelled", "repeated"}

Fresh == [out |-> None, buf |-> None, sent |-> 0, event |-> FALSE]

Free == [at |-> "free", adding |-> None, admitting |-> None, attempt |-> 0, ghosts |-> {}]

Nothing == [r \in Ids |-> None]

Zeros == [r \in Ids |-> 0]

Init == /\ client = [r \in Ids |-> [at |-> "idle", life |-> 0, got |-> 0, fate |-> "none"]]
        /\ stream = [r \in Ids |-> Fresh]
        /\ sched = [requests |-> Nothing, waiting |-> <<>>, running |-> Nothing,
                    status |-> [o \in Objects |-> "waiting"],
                    made |-> [o \in Objects |-> 0], row |-> [o \in Objects |-> 0],
                    prefilling |-> {}, pending |-> {}, orphans |-> Nothing,
                    lease |-> [r \in Ids |-> "none"], failures |-> 0,
                    counted |-> {}, attributed |-> {}, commits |-> Zeros,
                    cancels |-> Zeros, via |-> Zeros, processed |-> Zeros]
        /\ jobs = <<>>
        /\ step = Free
        /\ loop = "idle"
        /\ produced = Nothing
        /\ paused = FALSE

Running(s) == {r \in Ids : s.running[r] # None}

Tracked(r) == client[r].at \notin {"idle", "gone"}

-----------------------------------------------------------------------------
(* abort_request, for each id of R the scheduler knows: one locked section *)
(* that queues the abort and counts a cancellation once per lifetime.      *)
AbortKnown(s, r) == s.requests[r] # None \/ s.running[r] # None \/ r \in s.pending

Enqueue(s, R) ==
  LET known == {r \in R : AbortKnown(s, r)}
  IN  [s EXCEPT !.pending = @ \cup known,
                !.counted = @ \cup known,
                !.cancels = [r \in Ids |-> @[r] + IF r \in known \ s.counted THEN 1 ELSE 0]]

(* record_disconnect_abort: only a counted abort, once.                    *)
AttributeTwice(s, r) == [s EXCEPT !.via[r] = @ + 1]

Attribute(s, r) ==
  IF r \in s.counted \ s.attributed
  THEN [s EXCEPT !.attributed = @ \cup {r}, !.via[r] = @ + 1]
  ELSE s

(* remove_finished_request keeps the ledgers; its mutant forgets them.     *)
RemoveForgetting(s, r) ==
  [s EXCEPT !.orphans[r] = IF s.requests[r] # None /\ s.running[r] = s.requests[r]
                           THEN s.requests[r] ELSE @,
            !.requests[r] = None,
            !.counted = @ \ {r}, !.attributed = @ \ {r}]

RemoveRequest(s, r) ==
  [s EXCEPT !.orphans[r] = IF s.requests[r] # None /\ s.running[r] = s.requests[r]
                           THEN s.requests[r] ELSE @,
            !.requests[r] = None]

(* _do_abort_request_impl, of the object o (None when the engine already   *)
(* removed it).  Requests compare equal by id, so the queue loses its      *)
(* first entry of that id.                                                 *)
DropFirst(q, r) == RemoveFirstMatch(q, LAMBDA o : o[1] = r)

(* The same for every id of R.                                             *)
DropFirsts(q, R) ==
  LET kept == {i \in DOMAIN q : q[i][1] \in R => \E j \in 1..i-1 : q[j][1] = q[i][1]}
  IN  [k \in 1..Cardinality(kept) |->
         q[CHOOSE i \in kept : Cardinality({j \in kept : j <= i}) = k]]

(* A mutant that leaves untracked ids alone, as if the scan were missing.  *)
AbortTracked(s, r, o) ==
  IF o = None THEN s
  ELSE [s EXCEPT !.waiting = IF s.status[o] = "waiting" THEN DropFirst(@, r) ELSE @,
                 !.prefilling = @ \ {s.running[r]}, !.running[r] = None,
                 !.status[o] = "cancelled", !.lease[r] = "none"]

AbortObject(s, r, o) ==
  [s EXCEPT !.waiting = IF o = None \/ s.status[o] = "waiting" THEN DropFirst(@, r) ELSE @,
            !.prefilling = @ \ {s.running[r]},
            !.running[r] = None,
            !.status = IF o = None THEN @ ELSE [@ EXCEPT ![o] = "cancelled"],
            !.lease[r] = "none"]

(* _commit_request: one locked section publishes the request.              *)
Commit(s, o) ==
  [s EXCEPT !.counted = @ \ {o[1]}, !.attributed = @ \ {o[1]},
            !.orphans[o[1]] = None, !.commits[o[1]] = @ + 1,
            !.requests[o[1]] = o, !.waiting = Append(@, o)]

-----------------------------------------------------------------------------
(* fail_step.  Its shared branch closes the batch (_recover_from_          *)
(* generation_error), adds the request being admitted and, after           *)
(* FatalAfter failures in a row, every unfinished one.                     *)
CloseKeepingLeases(s) ==
  [s EXCEPT !.status = [o \in Objects |-> IF s.running[o[1]] = o THEN "aborted" ELSE @[o]],
            !.running = Nothing,
            !.prefilling = {}]

CloseBatch(s) ==
  [s EXCEPT !.status = [o \in Objects |-> IF s.running[o[1]] = o THEN "aborted" ELSE @[o]],
            !.lease = [r \in Ids |-> IF s.running[r] # None THEN "none" ELSE @[r]],
            !.running = Nothing,
            !.prefilling = {}]

UnfinishedIds(s) == {r \in Ids : s.requests[r] # None /\ s.status[s.requests[r]] \in Unfinished}

AbortAll(s, R) ==
  LET ids == R \cap UnfinishedIds(s)
      failed == {s.requests[r] : r \in ids}
      queued == {r \in ids : s.status[s.requests[r]] = "waiting"}
  IN  [s EXCEPT !.waiting = DropFirsts(@, queued),
                !.prefilling = @ \ {s.running[r] : r \in ids},
                !.running = [r \in Ids |-> IF r \in ids THEN None ELSE @[r]],
                !.status = [o \in Objects |-> IF o \in failed THEN "aborted" ELSE @[o]],
                !.lease = [r \in Ids |-> IF r \in ids THEN "none" ELSE @[r]]]

ErrorOutputs(s, R) ==
  [r \in Ids |-> IF r \in R
                 THEN Out(0, IF s.requests[r] = None THEN 0 ELSE s.made[s.requests[r]],
                          "abort", "failure")
                 ELSE None]

Counted(s) == IF s.failures + 1 > FatalAfter THEN FatalAfter ELSE s.failures + 1

(* Mutant: the admitted one is forgotten.                                  *)
FailingBatch(s, admitting) ==
  Running(s) \cup (IF Counted(s) = FatalAfter THEN UnfinishedIds(s) ELSE {})

Failing(s, admitting) ==
  Running(s) \cup (IF admitting = None THEN {} ELSE {admitting[1]})
             \cup (IF Counted(s) = FatalAfter THEN UnfinishedIds(s) ELSE {})

FailShared(s, admitting) ==
  [AbortAll(CloseBatch(s), Failing(s, admitting)) EXCEPT !.failures = Counted(s)]

(* _recover_from_cache_error and _reschedule_running_requests: the caches  *)
(* are emptied and the running requests go back to the front of the queue. *)
Reschedule(s, back) ==
  [s EXCEPT !.lease = [r \in Ids |-> "none"],
            !.status = [o \in Objects |-> IF s.running[o[1]] = o THEN "waiting" ELSE @[o]],
            !.waiting = back \o @,
            !.running = Nothing,
            !.prefilling = {}]

Rescheduled(s) ==
  {Reschedule(s, back) : back \in SetToSeqs({s.running[r] : r \in Running(s)})}

-----------------------------------------------------------------------------
(* The client side, on the event loop.                                     *)
(* engine.add_request: fresh collector, stream state and event, then the   *)
(* scheduler's add_request is submitted to the worker.                     *)
Submit(r) ==
  /\ client[r].at \in {"idle", "gone"} /\ client[r].life < MaxLife
  /\ LET o == <<r, client[r].life + 1>> IN
     /\ client' = [client EXCEPT ![r] = [at |-> "adding", life |-> o[2], got |-> 0, fate |-> "none"]]
     /\ jobs' = Append(jobs, [do |-> "add", obj |-> o])
  /\ stream' = [stream EXCEPT ![r] = Fresh]
  /\ UNCHANGED <<sched, step, loop, produced, paused>>

(* The task awaiting the admission is cancelled.  A job that has not       *)
(* started is dropped and there is nothing to abort; a running one is      *)
(* aborted when it returns (_on_executor_done).                            *)
Withdraw(r) ==
  /\ "withdraw" \in Faults /\ client[r].at = "adding"
  /\ \/ \E i \in DOMAIN jobs : /\ jobs[i].do = "add" /\ jobs[i].obj[1] = r
                               /\ jobs' = RemoveAt(jobs, i)
                               /\ client' = [client EXCEPT ![r].at = "leaving", ![r].fate = "cancelled"]
     \/ /\ step.adding # None /\ step.adding[1] = r
        /\ client' = [client EXCEPT ![r].at = "cancelled", ![r].fate = "cancelled"]
        /\ UNCHANGED jobs
  /\ UNCHANGED <<stream, sched, step, loop, produced, paused>>

(* One iteration of stream_outputs: an error other than the repetition     *)
(* stop raises, and the finally clause aborts; the last output ends it.    *)
Raises(o) == o.err \notin {"none", "repetition"}

EndOf(o) == IF o.fin = "cancelled" THEN "cancelled" ELSE "done"

Read(r) ==
  /\ r \notin Generating /\ client[r].at = "reading" /\ stream[r].out # None
  /\ LET o == stream[r].out
         c == client[r]
     IN  client' = [client EXCEPT ![r] =
           IF Raises(o) THEN [c EXCEPT !.at = "closing", !.fate = "failed"]
           ELSE IF Finished(o)
           THEN [c EXCEPT !.at = "leaving", !.got = c.got + o.n, !.fate = EndOf(o)]
           ELSE [c EXCEPT !.got = c.got + o.n]]
  /\ stream' = [stream EXCEPT ![r].out = None]
  /\ UNCHANGED <<sched, jobs, step, loop, produced, paused>>

(* generate: once the event is set the merged output is the result.        *)
Return(r) ==
  /\ r \in Generating /\ client[r].at = "reading" /\ stream[r].event
  /\ LET o == stream[r].out IN
     client' = [client EXCEPT ![r] =
       IF o = None \/ Raises(o) THEN [@ EXCEPT !.at = "leaving", !.fate = "failed"]
       ELSE [@ EXCEPT !.at = "leaving", !.got = o.total, !.fate = EndOf(o)]]
  /\ stream' = [stream EXCEPT ![r].out = None]
  /\ UNCHANGED <<sched, jobs, step, loop, produced, paused>>

Disconnect(r) ==
  /\ "disconnect" \in Faults /\ client[r].at = "reading"
  /\ client' = [client EXCEPT ![r].at = "closing", ![r].fate = "left"]
  /\ UNCHANGED <<stream, sched, jobs, step, loop, produced, paused>>

(* _force_abort_request: the disconnect guard calls it from up to three    *)
(* branches, before or after the stream's own cleanup.  The attribution is *)
(* a locked section of its own; that it follows an accepted abort only     *)
(* narrows when it runs.                                                   *)
ForceAbort(r) ==
  /\ "guard" \in Faults /\ client[r].fate = "left" /\ AbortKnown(sched, r)
  /\ sched' = Enqueue(sched, {r})
  /\ UNCHANGED <<client, stream, jobs, step, loop, produced, paused>>

RecordDisconnect(r) ==
  /\ "guard" \in Faults /\ client[r].fate = "left"
  /\ sched' = Attribute(sched, r)
  /\ UNCHANGED <<client, stream, jobs, step, loop, produced, paused>>

(* The finally clause of a stream that did not end normally, and the       *)
(* cleanup of a refused admission: abort first, then _cleanup_request.     *)
FinallyUnaborted(r) ==
  /\ client[r].at = "closing"
  /\ client' = [client EXCEPT ![r].at = "leaving"]
  /\ UNCHANGED <<stream, sched, jobs, step, loop, produced, paused>>

Finally(r) ==
  /\ client[r].at = "closing"
  /\ sched' = Enqueue(sched, {r})
  /\ client' = [client EXCEPT ![r].at = "leaving"]
  /\ UNCHANGED <<stream, jobs, step, loop, produced, paused>>

Cleanup(r) ==
  /\ client[r].at = "leaving"
  /\ sched' = RemoveRequest(sched, r)
  /\ stream' = [stream EXCEPT ![r] = Fresh]
  /\ client' = [client EXCEPT ![r].at = "gone"]
  /\ UNCHANGED <<jobs, step, loop, produced, paused>>

(* engine.abort_request, called by the cancel route and by a model change: *)
(* the client's terminal output does not wait for the scheduler.           *)
CancelRequest(r) ==
  /\ "cancel" \in Faults /\ AbortKnown(sched, r)
  /\ sched' = Enqueue(sched, {r})
  /\ \/ /\ Tracked(r) /\ ~stream[r].event
        /\ \E e \in {"none", "failure"} :
             stream' = [stream EXCEPT ![r].out = Put(@, Out(0, 0, "cancelled", e)),
                                      ![r].event = TRUE]
     \/ (~Tracked(r) \/ stream[r].event) /\ UNCHANGED stream
  /\ UNCHANGED <<client, jobs, step, loop, produced, paused>>

(* set_generation_paused, pause_generation_admission without reservations. *)
Pause == /\ "pause" \in Faults
         /\ paused' = ~paused
         /\ UNCHANGED <<client, stream, sched, jobs, step, loop, produced>>

-----------------------------------------------------------------------------
(* The engine loop, on the event loop.                                     *)
Dispatch ==
  /\ loop = "idle" /\ (sched.waiting # <<>> \/ Running(sched) # {})
  /\ jobs' = Append(jobs, [do |-> "step", obj |-> None])
  /\ loop' = "awaiting"
  /\ UNCHANGED <<client, stream, sched, step, produced, paused>>

(* The outputs of one step reach the collectors between two awaits.        *)
Delivered(s, o) ==
  LET merged == IF Interval = 1 THEN o ELSE MergeStreamBuffer(s.buf, o)
      event == s.event \/ Finished(o)
  IN  IF Interval = 1 \/ ShouldSend(s.sent, o.total, Finished(o), Interval)
      THEN [out |-> Put(s.out, merged), buf |-> None, event |-> event,
            sent |-> IF Interval = 1 THEN 0 ELSE o.total]
      ELSE [s EXCEPT !.buf = merged, !.event = event]

Deliver ==
  /\ loop = "delivering"
  /\ stream' = [r \in Ids |-> IF produced[r] # None /\ Tracked(r)
                              THEN Delivered(stream[r], produced[r]) ELSE stream[r]]
  /\ produced' = Nothing
  /\ loop' = "idle"
  /\ UNCHANGED <<client, sched, jobs, step, paused>>

(* A step that raised: fail_step is run on the worker, and its outputs     *)
(* bypass the interval buffer.                                             *)
Recover ==
  /\ loop = "raised"
  /\ jobs' = Append(jobs, [do |-> "fail", obj |-> None])
  /\ loop' = "awaiting"
  /\ UNCHANGED <<client, stream, sched, step, produced, paused>>

Answered(s, o) == [s EXCEPT !.buf = None, !.event = TRUE, !.out = Put(@, o)]

DeliverFailures ==
  /\ loop = "failed"
  /\ stream' = [r \in Ids |-> IF produced[r] # None /\ Tracked(r)
                              THEN Answered(stream[r], produced[r]) ELSE stream[r]]
  /\ produced' = Nothing
  /\ loop' = "idle"
  /\ UNCHANGED <<client, sched, jobs, step, paused>>

(* fail_step raised as well: the engine fails every client still waiting   *)
(* for its event and enqueues their aborts.                                *)
Synthesise ==
  /\ loop = "unrecovered"
  /\ LET R == {r \in Ids : Tracked(r) /\ ~stream[r].event} IN
     /\ sched' = Enqueue(sched, R)
     /\ stream' = [r \in Ids |-> IF r \in R
                                 THEN Answered(stream[r], Out(0, 0, "length", "failure"))
                                 ELSE stream[r]]
  /\ loop' = "idle"
  /\ UNCHANGED <<client, jobs, step, produced, paused>>

-----------------------------------------------------------------------------
(* The worker: Scheduler.add_request.                                      *)
Taking(kind) == step.at = "free" /\ jobs # <<>> /\ jobs[1].do = kind /\ jobs' = Tail(jobs)

Turned(r) == client' = [client EXCEPT ![r].at = "closing",
                                      ![r].fate = IF @ = "none" THEN "failed" ELSE @]

(* Paused, or BackpressureError from the caps, before anything is taken.   *)
AddRefused ==
  /\ Taking("add") /\ (paused \/ "refuse" \in Faults)
  /\ Turned(jobs[1].obj[1])
  /\ UNCHANGED <<stream, sched, step, loop, produced, paused>>

(* The prefix cache is consulted: a hit holds blocks under the request id. *)
AddStart ==
  /\ Taking("add") /\ ~paused
  /\ \E hit \in {"none", "held"} : sched' = [sched EXCEPT !.lease[jobs[1].obj[1]] = hit]
  /\ step' = [step EXCEPT !.at = "add", !.adding = jobs[1].obj]
  /\ UNCHANGED <<client, stream, loop, produced, paused>>

AddCommit ==
  /\ step.at = "add" /\ ~paused
  /\ LET r == step.adding[1]
         withdrawn == client[r].at = "cancelled"
         added == Commit(sched, step.adding)
     IN  /\ sched' = IF withdrawn THEN Enqueue(added, {r}) ELSE added
         /\ client' = [client EXCEPT ![r].at = IF withdrawn THEN "leaving" ELSE "reading"]
  /\ step' = [step EXCEPT !.at = "free", !.adding = None]
  /\ UNCHANGED <<stream, jobs, loop, produced, paused>>

(* Paused since the first check: BackpressureError out of _commit_request. *)
AddRaises ==
  /\ step.at = "add" /\ paused
  /\ Turned(step.adding[1])
  /\ step' = [step EXCEPT !.at = "free", !.adding = None]
  /\ UNCHANGED <<stream, sched, jobs, loop, produced, paused>>

-----------------------------------------------------------------------------
(* The worker: Scheduler.step.  Pending aborts are popped one at a time,   *)
(* then the orphans engine cleanup left running are reaped; aborts may     *)
(* arrive between the two.                                                 *)
InBatch == {sched.running[r] : r \in Running(sched)}

Untracked == {o \in ToSet(sched.waiting) \cup InBatch : sched.requests[o[1]] # o}

StepStart ==
  /\ Taking("step")
  /\ step' = [Free EXCEPT !.at = "drain", !.ghosts = Untracked]
  /\ UNCHANGED <<client, stream, sched, loop, produced, paused>>

Drain(r) ==
  /\ step.at = "drain" /\ r \in sched.pending
  /\ sched' = AbortObject([sched EXCEPT !.pending = @ \ {r}], r, sched.requests[r])
  /\ UNCHANGED <<client, stream, jobs, step, loop, produced, paused>>

DrainEnd ==
  /\ step.at = "drain" /\ sched.pending = {}
  /\ step' = [step EXCEPT !.at = "reconcile"]
  /\ UNCHANGED <<client, stream, sched, jobs, loop, produced, paused>>

Reaped(s) == {r \in Ids : /\ s.orphans[r] # None
                          /\ s.running[r] = s.orphans[r] /\ s.requests[r] = None}

Reconcile ==
  /\ step.at = "reconcile"
  /\ LET reaped == Reaped(sched)
         objects == {sched.orphans[r] : r \in reaped}
     IN  sched' = [sched EXCEPT !.orphans = Nothing,
                     !.prefilling = @ \ objects,
                     !.running = [r \in Ids |-> IF r \in reaped THEN None ELSE @[r]],
                     !.status = [o \in Objects |-> IF o \in objects THEN "cancelled" ELSE @[o]],
                     !.lease = [r \in Ids |-> IF r \in reaped THEN "none" ELSE @[r]]]
  /\ step' = [step EXCEPT !.at = "admit"]
  /\ UNCHANGED <<client, stream, jobs, loop, produced, paused>>

(* _schedule_waiting.  In arrival order, except that a request may be held *)
(* behind a running prompt it shares a prefix with until that prompt has   *)
(* produced a token.                                                       *)
Held == \E r \in Running(sched) : sched.made[sched.running[r]] = 0

Next1(i) == i \in DOMAIN sched.waiting /\ (i = 1 \/ Held)

Room == Cardinality(Running(sched)) < MaxRunning

Admit(i) ==
  /\ step.at = "admit" /\ Room /\ Next1(i)
  /\ step' = [step EXCEPT !.at = "insert", !.admitting = sched.waiting[i]]
  /\ sched' = [sched EXCEPT !.waiting = DropFirst(@, @[i][1])]
  /\ UNCHANGED <<client, stream, jobs, loop, produced, paused>>

(* The candidate does not fit beside what is running, or needs another     *)
(* generator: it returns to its place or to the front, perhaps without its *)
(* cached prefix, and admission ends.                                      *)
Defer(i) ==
  /\ step.at = "admit" /\ Room /\ Next1(i) /\ Running(sched) # {}
  /\ \E q \in {sched.waiting, <<sched.waiting[i]>> \o RemoveAt(sched.waiting, i)},
        keep \in BOOLEAN :
       sched' = [sched EXCEPT !.waiting = q,
                   !.lease[sched.waiting[i][1]] = IF keep THEN @ ELSE "none"]
  /\ step' = [step EXCEPT !.at = "decode", !.admitting = None]
  /\ UNCHANGED <<client, stream, jobs, loop, produced, paused>>

AdmitEnd ==
  /\ step.at = "admit" /\ (sched.waiting = <<>> \/ ~Room \/ Held)
  /\ step' = [step EXCEPT !.at = "decode", !.admitting = None]
  /\ UNCHANGED <<client, stream, sched, jobs, loop, produced, paused>>

(* Inserted, with its cached prefix or, when that fails, without it; a     *)
(* long prompt takes one more step before its first token.                 *)
Insert ==
  /\ step.at = "insert"
  /\ LET o == step.admitting IN
     \E long, keep \in BOOLEAN :
       sched' = [sched EXCEPT !.running[o[1]] = o, !.status[o] = "running", !.row[o] = 0,
                   !.lease[o[1]] = IF keep THEN @ ELSE "none",
                   !.prefilling = IF long THEN @ \cup {o} ELSE @]
  /\ step' = [step EXCEPT !.at = "admit", !.admitting = None]
  /\ UNCHANGED <<client, stream, jobs, loop, produced, paused>>

-----------------------------------------------------------------------------
(* The worker: how a step ends.                                            *)
EndStep(s, outs) ==
  /\ sched' = s /\ produced' = outs
  /\ step' = Free /\ loop' = "delivering"
  /\ UNCHANGED <<client, stream, jobs, paused>>

(* batch_generator.next and _process_batch_responses, _cleanup_finished:   *)
(* rows past their prompt get a token; `ends' is how each finishes, if it  *)
(* does, and `stored' the finished ones whose blocks the cache keeps.      *)
EndStatus == [stop |-> "stopped", length |-> "capped", repetition |-> "repeated"]

Ending(o) == {e \in {"no", "stop", "length", "repetition"} :
                /\ sched.row[o] + 1 = MaxTokens => e \in {"stop", "length"}
                /\ e = "length" => sched.row[o] + 1 = MaxTokens
                /\ e = "repetition" => "repeat" \in Faults}

Rows == {sched.running[r] : r \in Running(sched)} \ sched.prefilling

TokenOutput(o, e) ==
  IF e = "repetition" THEN Out(1, sched.made[o] + 1, "abort", "repetition")
                      ELSE Out(1, sched.made[o] + 1, e, "none")

(* _process_batch_responses: every row got a token and some rows ended.    *)
Processed(s, ends, done) ==
  [s EXCEPT !.made = [o \in Objects |-> @[o] + IF o \in Rows THEN 1 ELSE 0],
            !.row = [o \in Objects |-> IF o \in Rows \ done THEN @[o] + 1 ELSE
                                       IF o \in done THEN 0 ELSE @[o]],
            !.prefilling = {},
            !.status = [o \in Objects |-> IF o \in done THEN EndStatus[ends[o]] ELSE @[o]],
            !.processed = [r \in Ids |-> @[r] + IF s.running[r] \in done THEN 1 ELSE 0]]

(* _cleanup_finished: a finished row leaves the batch, its blocks stored.  *)
CleanedUp(s, done, stored) ==
  [s EXCEPT !.lease = [r \in Ids |-> IF s.running[r] \in stored THEN "stored"
                                     ELSE IF s.running[r] \in done THEN "none" ELSE @[r]],
            !.running = [r \in Ids |-> IF @[r] \in done THEN None ELSE @[r]]]

Decode ==
  /\ step.at = "decode" /\ Running(sched) # {}
  /\ \E ends \in [Rows -> {"no", "stop", "length", "repetition"}] :
       /\ \A o \in Rows : ends[o] \in Ending(o)
       /\ LET done == {o \in Rows : ends[o] # "no"} IN
          \E stored \in SUBSET done :
            EndStep([CleanedUp(Processed(sched, ends, done), done, stored) EXCEPT !.failures = 0],
                    [r \in Ids |-> IF sched.running[r] \in Rows
                                   THEN TokenOutput(sched.running[r], ends[sched.running[r]])
                                   ELSE None])

DecodeNothing ==
  /\ step.at = "decode" /\ Running(sched) = {}
  /\ EndStep([sched EXCEPT !.failures = 0], Nothing)

(* A failure while _step_request_id names the request being admitted.      *)
FailOwn ==
  /\ "own" \in Faults /\ step.at = "insert"
  /\ LET r == step.admitting[1] IN
     EndStep(AbortAll(sched, {r}), ErrorOutputs(sched, {r}))

(* Any other failure of admission, insertion or decoding inside the step.  *)
FailStep ==
  /\ "shared" \in Faults /\ step.at \in {"admit", "insert", "decode"}
  /\ EndStep(FailShared(sched, step.admitting), ErrorOutputs(sched, Failing(sched, step.admitting)))

(* A TypeError that reads as cache corruption: the first time in a step    *)
(* the caches are reset and admission starts over.                         *)
Corrupt ==
  /\ \/ "insertCorrupt" \in Faults /\ step.at = "insert"
     \/ "decodeCorrupt" \in Faults /\ step.at = "decode" /\ Running(sched) # {}
  /\ step.attempt = 0
  /\ \A r \in Running(sched) : sched.made[sched.running[r]] < MaxTokens  \* bound
  /\ sched' \in Rescheduled(sched)
  /\ step' = [step EXCEPT !.at = "admit", !.attempt = 1]
  /\ UNCHANGED <<client, stream, jobs, loop, produced, paused>>

(* Any other TypeError, and corruption met again, leaves the step.         *)
StepRaises ==
  /\ "raise" \in Faults
  /\ step.at = "insert" \/ (step.at = "decode" /\ Running(sched) # {})
  /\ step' = [step EXCEPT !.at = "free", !.attempt = 0, !.ghosts = {}]
  /\ loop' = "raised"
  /\ UNCHANGED <<client, stream, sched, jobs, produced, paused>>

(* fail_step as a job of its own; closing the batch may raise in it.       *)
FailJob ==
  /\ Taking("fail")
  /\ \/ /\ sched' = FailShared(sched, step.admitting)
        /\ produced' = ErrorOutputs(sched, Failing(sched, step.admitting))
        /\ loop' = "failed"
        /\ step' = [step EXCEPT !.admitting = None]
     \/ /\ "recovery" \in Faults
        /\ sched' = [sched EXCEPT !.failures = Counted(sched)]
        /\ loop' = "unrecovered"
        /\ UNCHANGED <<produced, step>>
  /\ UNCHANGED <<client, stream, paused>>

-----------------------------------------------------------------------------
Client(r) == Read(r) \/ Return(r) \/ Finally(r) \/ Cleanup(r)

Outside(r) == Submit(r) \/ Withdraw(r) \/ Disconnect(r) \/ ForceAbort(r) \/ RecordDisconnect(r)
              \/ CancelRequest(r)

Loop == Dispatch \/ Deliver \/ Recover \/ DeliverFailures \/ Synthesise

Worker == \/ AddRefused \/ AddStart \/ AddCommit \/ AddRaises
          \/ StepStart \/ DrainEnd \/ Reconcile \/ AdmitEnd \/ Insert
          \/ Decode \/ DecodeNothing \/ FailOwn \/ FailStep \/ Corrupt \/ StepRaises \/ FailJob
          \/ \E r \in Ids : Drain(r)
          \/ \E i \in DOMAIN sched.waiting : Admit(i) \/ Defer(i)

Next == Pause \/ Loop \/ Worker \/ \E r \in Ids : Client(r) \/ Outside(r)

Spec == Init /\ [][Next]_vars

(* The event loop runs every ready task, the worker every queued job to    *)
(* its end; clients, cancellations and faults come or do not.              *)
FairSpec == /\ Spec /\ WF_vars(Loop) /\ WF_vars(Worker)
            /\ \A r \in Ids : WF_vars(Client(r))

-----------------------------------------------------------------------------
Current(r) == <<r, client[r].life>>

Raised == loop \in {"raised", "unrecovered"} \/ \E i \in DOMAIN jobs : jobs[i].do = "fail"

Admitting == IF step.at = "insert" \/ Raised THEN {step.admitting} \ {None} ELSE {}

Live == ToSet(sched.waiting) \cup InBatch \cup Admitting

ObjectOrNone == Objects \cup {None}

OutputOrNone == Outputs(2 * MaxTokens) \cup {None}

(* Types: the scheduler's maps relate ids to their own objects, a request  *)
(* makes at most twice its cap (it is retried before it reaches it), and   *)
(* the per-lifetime counters stay within the lifetimes of an id.           *)
TypeOK ==
  /\ \A r \in Ids : /\ client[r].at \in {"idle", "adding", "cancelled", "reading",
                                         "closing", "leaving", "gone"}
                    /\ client[r].life \in 0..MaxLife /\ client[r].got \in 0..2 * MaxTokens
                    /\ client[r].fate \in {"none", "done", "failed", "left", "cancelled"}
                    /\ stream[r].out \in OutputOrNone /\ stream[r].buf \in OutputOrNone
                    /\ stream[r].sent \in 0..2 * MaxTokens /\ stream[r].event \in BOOLEAN
                    /\ produced[r] \in OutputOrNone
                    /\ sched.requests[r] \in ObjectOrNone /\ sched.running[r] \in ObjectOrNone
                    /\ sched.orphans[r] \in ObjectOrNone
                    /\ \A o \in {sched.requests[r], sched.running[r], sched.orphans[r]} :
                         o # None => o[1] = r
                    /\ sched.lease[r] \in {"none", "held", "stored"}
                    /\ {sched.commits[r], sched.cancels[r], sched.via[r], sched.processed[r]}
                         \subseteq 0..MaxLife
  /\ \A o \in Objects : /\ sched.status[o] \in Statuses
                        /\ sched.made[o] \in 0..2 * MaxTokens /\ sched.row[o] \in 0..MaxTokens
  /\ ToSet(sched.waiting) \cup sched.prefilling \subseteq Objects
  /\ sched.pending \cup sched.counted \cup sched.attributed \subseteq Ids
  /\ sched.failures \in 0..FatalAfter
  /\ \A i \in DOMAIN jobs : jobs[i].do \in {"add", "step", "fail"} /\ jobs[i].obj \in ObjectOrNone
  /\ step.at \in {"free", "add", "drain", "reconcile", "admit", "insert", "decode"}
  /\ {step.adding, step.admitting} \subseteq ObjectOrNone /\ step.ghosts \subseteq Objects /\ step.attempt \in 0..1
  /\ loop \in {"idle", "awaiting", "delivering", "raised", "failed", "unrecovered"}
  /\ paused \in BOOLEAN

(* No request occupies the queue or the batch behind the back of the       *)
(* engine: one whose client has been cleaned up has its abort queued or is *)
(* a candidate for reaping, however the cancellation met the admission.    *)
NoZombie ==
  \A o \in Live : \/ sched.requests[o[1]] = o
                  \/ o[1] \in sched.pending
                  \/ sched.orphans[o[1]] = o

(* A request that has been aborted and cleaned up when a step begins is    *)
(* out of the queue and of the batch before the step admits or decodes     *)
(* anything: no ghost is decoded for a client that is gone.                *)
GhostsAreReaped ==
  step.at \in {"admit", "insert", "decode"} => step.ghosts \cap Live = {}

(* A client that waits is waited for: its request is queued, being         *)
(* admitted or in the batch, or its last output is on the way.             *)
Terminal(o) == o # None /\ Finished(o)

NoRequestStranded ==
  \A r \in Ids : client[r].at = "reading" =>
     Current(r) \in Live \/ Terminal(produced[r]) \/ Terminal(stream[r].out)

(* A cancellation is counted at most once per admitted lifetime of an id,  *)
(* and attributed to a disconnect only if it was counted.                  *)
CountedOnce ==
  \A r \in Ids : sched.via[r] <= sched.cancels[r] /\ sched.cancels[r] <= sched.commits[r]

(* Blocks held for a cache hit have somebody to release them: the request  *)
(* is on its way through the scheduler or its abort is queued.             *)
LeasesHaveOwners ==
  \A r \in Ids : sched.lease[r] = "held" =>
     \/ step.adding # None /\ step.adding[1] = r
     \/ \E o \in Live : o[1] = r
     \/ r \in sched.pending

(* A client of the engine receives every token once, and a stream that     *)
(* ends normally has delivered all of them.                                *)
MadeOf(r) == IF client[r].life = 0 THEN 0 ELSE sched.made[Current(r)]

Abstract == INSTANCE TokenStream
              WITH made <- [r \in Ids |-> MadeOf(r)],
                   got <- [r \in Ids |-> client[r].got],
                   fate <- [r \in Ids |-> client[r].fate],
                   Ends <- {"failed", "left", "cancelled"}

ImplementsTokenStream == Abstract!Spec

(* Every submitted request ends for its client, even if every step fails.  *)
EveryClientEnds == \A r \in Ids : client[r].at = "adding" ~> client[r].at = "gone"

-----------------------------------------------------------------------------
(* Claims of the code's comments and docs that its behaviour contradicts.  *)
(* A terminal output in a collector survives aggregation.                  *)
TerminalSurvivesAggregation ==
  [][\A r \in Ids : Terminal(stream[r].out) /\ stream'[r].out # None
                      => Terminal(stream'[r].out)]_vars

(* A request ended by the repetition guard returns its partial output.     *)
RepetitionStopIsGraceful ==
  \A r \in Ids : client[r].fate = "failed" => sched.status[Current(r)] # "repeated"

(* max_tokens caps the whole response.                                     *)
LengthCapHolds == \A o \in Objects : sched.made[o] <= MaxTokens

(* The stored entry owns its blocks until memory pressure evicts it: only  *)
(* a cache reset or a new request under the id takes them.                 *)
StoredEntryIsKept ==
  [][\A r \in Ids : sched.lease[r] = "stored" /\ sched'.lease[r] # "stored"
                      => step'.adding # None \/ step'.attempt = 1]_vars

(* The cancelled and the processed counter are disjoint.                   *)
CancelledNotProcessed ==
  \A r \in Ids : sched.cancels[r] + sched.processed[r] <= sched.commits[r]

=============================================================================
