------------------------------ MODULE ChatTurns ------------------------------
(***************************************************************************)
(* Turns of the chat owner process: admission, the task that runs a turn,  *)
(* helpers it delegates to, cancellation, shutdown, kill and recovery, the *)
(* durable event log of each turn and the readers that follow it.          *)
(*                                                                         *)
(* Each action is one segment of a coroutine between awaits, together with *)
(* the store write it enqueues; the store applies writes and reads in one  *)
(* FIFO, so a write takes its place when it is enqueued.  A task that is   *)
(* cancelled goes on in its handlers, which may be cancelled again.        *)
(***************************************************************************)
EXTENDS Naturals, Sequences, SequencesExt

CONSTANTS
  Turns,      \* turn ids
  Helpers,    \* child runs
  Readers,    \* event streams
  Branches,
  BranchOf,   \* the branch of a turn
  ParentOf,   \* the turn that delegates to a helper
  Followed,   \* the turn a reader follows
  MaxTexts,   \* bound on text events of a log
  MaxRev,     \* bound on the revision of a branch
  MaxCrashes, \* bound on kills of the owner
  MaxFaults   \* bound on failing writes of handlers

ASSUME ConstantsAssumption ==
  /\ BranchOf \in [Turns -> Branches]
  /\ IsFiniteSet(Helpers) /\ ParentOf \in [Helpers -> Turns]
  /\ Followed \in [Readers -> Turns]
  /\ {"started", "text", "terminal"} \cap Helpers = {}
  /\ MaxTexts \in Nat /\ MaxRev \in Nat /\ MaxCrashes \in Nat /\ MaxFaults \in Nat

VARIABLES
  \* rows of the store
  status,    \* of each turn: "none", "running", "completed", "cancelled", "error"
  rev,       \* the branch revision a turn holds
  branchRev, \* the revision of each branch
  child,     \* of each helper's subrun: "none", "live", "ended"
  log,       \* events of each turn; h stands for "subagent.finished" of h
  \* the owner process
  owner,     \* "serving", "closing", "draining", "exited", "killed"
  admission, \* of each turn: "none", "queued", "admitting", "committed"
  expected,  \* the branch revision the client submitted
  task,      \* where each turn's task is
  helper,    \* where each helper's task is
  stop,      \* turns whose cancellation is gathering the task
  sweep,     \* turns a closing owner finishes
  signal,    \* the event readers of a turn wait for
  reader,    \* where each reader is
  cursor,    \* how many events each reader has passed on
  used       \* kills and faults so far

rows == <<status, rev, branchRev, child, log>>
live == <<task, helper, stop, sweep>>
readers == <<signal, reader, cursor>>
vars == <<rows, owner, admission, expected, live, readers, used>>

Init ==
  /\ status = [t \in Turns |-> "none"]
  /\ rev = [t \in Turns |-> 0]
  /\ branchRev = [b \in Branches |-> 0]
  /\ child = [h \in Helpers |-> "none"]
  /\ log = [t \in Turns |-> <<>>]
  /\ owner = "serving"
  /\ admission = [t \in Turns |-> "none"]
  /\ expected = [t \in Turns |-> 0]
  /\ task = [t \in Turns |-> "none"]
  /\ helper = [h \in Helpers |-> "none"]
  /\ stop = {}
  /\ sweep = {}
  /\ signal = [t \in Turns |-> FALSE]
  /\ reader = [r \in Readers |-> "away"]
  /\ cursor = [r \in Readers |-> 0]
  /\ used = [crashes |-> 0, faults |-> 0]

Up == owner \in {"serving", "closing", "draining"}
Ended(t) == status[t] \in {"completed", "cancelled", "error"}
HelpersOf(t) == {h \in Helpers : ParentOf[h] = t}
Busy(b) == \E t \in Turns : BranchOf[t] = b /\ status[t] = "running"

\* asyncio.Event.set: who waits is woken, whoever clears it afterwards.
Wake(t) ==
  /\ signal' = [signal EXCEPT ![t] = TRUE]
  /\ reader' = [r \in Readers |->
       IF Followed[r] = t /\ reader[r] = "wait" THEN "replay" ELSE reader[r]]
  /\ UNCHANGED cursor

Faulty ==
  /\ used.faults < MaxFaults
  /\ used' = [used EXCEPT !.faults = @ + 1]

-----------------------------------------------------------------------------
(* Store operations                                                        *)

Append1(t, event) == log' = [log EXCEPT ![t] = Append(@, event)]

UnpublishedLive(t) == {h \in HelpersOf(t) : child[h] = "live"}  \* slip: ended rows are taken as published

Unpublished(t) ==
  {h \in HelpersOf(t) : child[h] # "none" /\ h \notin Range(log[t])}

\* _finish and _finish_subruns for the turns of S still running: an ended turn
\* keeps its outcome; helpers whose end was not published are published first.
Finish(S, outcome) ==
  LET ending == {t \in S : status[t] = "running"}
  IN  /\ status' = [t \in Turns |-> IF t \in ending THEN outcome ELSE status[t]]
      /\ child' = [h \in Helpers |->
           IF ParentOf[h] \in ending /\ child[h] = "live" THEN "ended" ELSE child[h]]
      /\ log' = [t \in Turns |->
           IF t \in ending
             THEN log[t] \o SetToSeq(Unpublished(t)) \o <<"terminal">>
             ELSE log[t]]

\* A completed turn and one that failed after some messages advance the branch.
FinishWithMessages(t, outcome) ==
  /\ Finish({t}, outcome)
  /\ branchRev' = [branchRev EXCEPT ![BranchOf[t]] = @ + (IF status[t] = "running" THEN 1 ELSE 0)]
  /\ UNCHANGED rev

FinishBare(S, outcome) == Finish(S, outcome) /\ UNCHANGED <<branchRev, rev>>

-----------------------------------------------------------------------------
(* Admission                                                               *)

\* The request names the revision the client saw last.  Its admission is a
\* shielded task: a client that disconnects does not cancel it.
Submit(t) ==
  /\ owner = "serving" /\ admission[t] = "none" /\ status[t] = "none"
  /\ admission' = [admission EXCEPT ![t] = "queued"]
  /\ expected' = [expected EXCEPT ![t] = branchRev[BranchOf[t]]]
  /\ UNCHANGED <<rows, owner, live, readers, used>>

\* One admission at a time holds the submit lock; only when it gets the lock
\* does it see that the owner is closing.
Enter(t) ==
  /\ admission[t] = "queued" /\ owner = "serving"
  /\ \A u \in Turns : admission[u] \in {"none", "queued"}
  /\ admission' = [admission EXCEPT ![t] = "admitting"]
  /\ UNCHANGED <<rows, owner, expected, live, readers, used>>

CommitBeside(t, added) ==  \* slip: a turn that runs on the branch is not looked for
  /\ admission[t] = "admitting"
  /\ expected[t] = branchRev[BranchOf[t]]
  /\ admission' = [admission EXCEPT ![t] = "committed"]
  /\ status' = [status EXCEPT ![t] = "running"]
  /\ branchRev' = [branchRev EXCEPT ![BranchOf[t]] = @ + added]
  /\ rev' = [rev EXCEPT ![t] = branchRev[BranchOf[t]] + added]
  /\ Append1(t, "started")
  /\ expected' = [expected EXCEPT ![t] = 0]
  /\ UNCHANGED <<child, owner, live, readers, used>>

\* begin_turn; a regenerated turn adds no message.
Commit(t, added) ==
  /\ admission[t] = "admitting"
  /\ expected[t] = branchRev[BranchOf[t]] /\ ~Busy(BranchOf[t])
  /\ admission' = [admission EXCEPT ![t] = "committed"]
  /\ status' = [status EXCEPT ![t] = "running"]
  /\ branchRev' = [branchRev EXCEPT ![BranchOf[t]] = @ + added]
  /\ rev' = [rev EXCEPT ![t] = branchRev[BranchOf[t]] + added]
  /\ Append1(t, "started")
  /\ expected' = [expected EXCEPT ![t] = 0]
  /\ UNCHANGED <<child, owner, live, readers, used>>

\* Closed, a stale revision, a busy branch, attachments the model cannot read.
Refuse(t) ==
  /\ \/ admission[t] = "admitting"
     \/ admission[t] = "queued" /\ owner # "serving"
  /\ admission' = [admission EXCEPT ![t] = "none"]
  /\ expected' = [expected EXCEPT ![t] = 0]
  /\ UNCHANGED <<rows, owner, live, readers, used>>

StartEarly(t) ==  \* slip: the task is made before the turn is durable
  /\ admission[t] # "none"
  /\ admission' = [admission EXCEPT ![t] = "none"]
  /\ task' = [task EXCEPT ![t] = "new"]
  /\ signal' = [signal EXCEPT ![t] = FALSE]
  /\ UNCHANGED <<rows, owner, expected, helper, stop, sweep, reader, cursor, used>>

\* The acknowledged turn gets its task.
Start(t) ==
  /\ admission[t] = "committed"
  /\ admission' = [admission EXCEPT ![t] = "none"]
  /\ task' = [task EXCEPT ![t] = "new"]
  /\ signal' = [signal EXCEPT ![t] = FALSE]
  /\ UNCHANGED <<rows, owner, expected, helper, stop, sweep, reader, cursor, used>>

-----------------------------------------------------------------------------
(* The task of a turn                                                      *)

UnderWay(h) == helper[h] \in {"new", "live", "publish"}
Quiet(t) == \A h \in HelpersOf(t) : ~UnderWay(h)

Goto(t, at) == task' = [task EXCEPT ![t] = at] /\ UNCHANGED <<helper, stop, sweep>>

Begin(t) ==
  /\ task[t] = "new"
  /\ Goto(t, "work")
  /\ UNCHANGED <<rows, owner, admission, expected, readers, used>>

\* _emit: append, then wake the readers.
Emit(t) ==
  /\ task[t] = "work" /\ status[t] = "running"
  /\ Cardinality({i \in DOMAIN log[t] : log[t][i] = "text"}) < MaxTexts
  /\ Append1(t, "text")
  /\ Wake(t)
  /\ UNCHANGED <<status, rev, branchRev, child, owner, admission, expected, live, used>>

\* save_summary: the running turn, or a client of an idle branch, checkpoints it.
Compact(b) ==
  /\ Up /\ branchRev[b] < MaxRev
  /\ \A t \in Turns : BranchOf[t] = b /\ status[t] = "running" => task[t] = "work"
  /\ branchRev' = [branchRev EXCEPT ![b] = @ + 1]
  /\ rev' = [t \in Turns |->
       IF BranchOf[t] = b /\ status[t] = "running" THEN branchRev[b] + 1 ELSE rev[t]]
  /\ UNCHANGED <<status, child, log, owner, admission, expected, live, readers, used>>

\* create_subrun; the helper's try and finally begin once it is acknowledged.
Delegate(h) ==
  /\ task[ParentOf[h]] = "work" /\ child[h] = "none"
  /\ status[ParentOf[h]] = "running"
  /\ child' = [child EXCEPT ![h] = "live"]
  /\ helper' = [helper EXCEPT ![h] = "new"]
  /\ UNCHANGED <<status, rev, branchRev, log, owner, admission, expected,
                 task, stop, sweep, readers, used>>

HelperBegins(h) ==
  /\ helper[h] = "new"
  /\ helper' = [helper EXCEPT ![h] = "live"]
  /\ UNCHANGED <<rows, owner, admission, expected, task, stop, sweep, readers, used>>

\* However a helper ends, its finally closes the row; a row that has an end keeps it.
HelperEnds(h) ==
  /\ helper[h] = "live"
  /\ helper' = [helper EXCEPT ![h] = "publish"]
  /\ child' = [child EXCEPT ![h] = "ended"]
  /\ UNCHANGED <<status, rev, branchRev, log, owner, admission, expected,
                 task, stop, sweep, readers, used>>

\* It publishes its end in the log of the turn, when that still runs.
Publish(h) ==
  /\ helper[h] = "publish"
  /\ helper' = [helper EXCEPT ![h] = "done"]
  /\ IF status[ParentOf[h]] = "running"
       THEN Append1(ParentOf[h], h) /\ Wake(ParentOf[h])
       ELSE UNCHANGED <<log, readers>>
  /\ UNCHANGED <<status, rev, branchRev, child, owner, admission, expected,
                 task, stop, sweep, used>>

\* A helper ends without publishing: cancelled by a turn that is ending before
\* its try, when nobody but the turn will close its row, or before it could
\* publish; or after a failed write.
Vanish(h) ==
  /\ \/ /\ helper[h] \in {"new", "publish"} /\ task[ParentOf[h]] # "work"
        /\ UNCHANGED used
     \/ helper[h] \in {"live", "publish"} /\ Faulty
  /\ helper' = [helper EXCEPT ![h] = "done"]
  /\ UNCHANGED <<rows, owner, admission, expected, task, stop, sweep, readers>>

Complete(t) ==
  /\ task[t] = "work" /\ Quiet(t) /\ status[t] = "running"
  /\ FinishWithMessages(t, "completed")
  /\ Goto(t, "leaving")
  /\ UNCHANGED <<owner, admission, expected, readers, used>>

\* Any exception of the work; the handler first gathers the helpers.
Fail(t) ==
  /\ task[t] = "work"
  /\ Goto(t, "failing")
  /\ UNCHANGED <<rows, owner, admission, expected, readers, used>>

FailFinish(t) ==
  /\ task[t] = "failing" /\ Quiet(t)
  /\ FinishWithMessages(t, "error")
  /\ Goto(t, "leaving")
  /\ UNCHANGED <<owner, admission, expected, readers, used>>

CancelFinish(t) ==
  /\ task[t] = "cancelling" /\ Quiet(t)
  /\ FinishBare({t}, "cancelled")
  /\ Goto(t, "leaving")
  /\ UNCHANGED <<owner, admission, expected, readers, used>>

\* The handler's own write fails (the apology, or the terminal event itself).
HandlerFails(t) ==
  /\ task[t] \in {"failing", "cancelling"} /\ Quiet(t)
  /\ Faulty
  /\ Goto(t, "leaving")
  /\ UNCHANGED <<rows, owner, admission, expected, readers>>

LeaveSilently(t) ==  \* slip: nobody is woken
  /\ \/ task[t] = "leaving" /\ Quiet(t)
     \/ task[t] = "dropped"
  /\ Goto(t, "done")
  /\ UNCHANGED <<rows, owner, admission, expected, readers, used>>

\* The finally gathers helpers again; the task's end wakes the readers.
Leave(t) ==
  /\ \/ task[t] = "leaving" /\ Quiet(t)
     \/ task[t] = "dropped"
  /\ Goto(t, "done")
  /\ Wake(t)
  /\ UNCHANGED <<rows, owner, admission, expected, used>>

-----------------------------------------------------------------------------
(* Cancellation and shutdown                                               *)

Running(t) == task[t] \notin {"none", "done"}

AfterCancelSwallowed(at) ==  \* slip: a broad except in the work swallows it
  CASE at = "work" -> "work"
    [] at \in {"failing", "cancelling"} -> "leaving"
    [] OTHER -> "dropped"

\* Where task.cancel() takes a task: its work enters the handler, a handler goes
\* straight to the finally; before its first instruction and in its finally the
\* task just ends.
AfterCancel(at) ==
  CASE at = "work" -> "cancelling"
    [] at \in {"failing", "cancelling"} -> "leaving"
    [] OTHER -> "dropped"

Cancel(t) ==
  /\ Up /\ t \notin stop /\ Running(t)
  /\ stop' = stop \cup {t}
  /\ task' = [task EXCEPT ![t] = AfterCancel(@)]
  /\ UNCHANGED <<rows, owner, admission, expected, helper, sweep, readers, used>>

StopTrusting(t) ==  \* slip: the task's own handler is trusted to finish the turn
  /\ t \in stop /\ ~Running(t)
  /\ stop' = stop \ {t}
  /\ Wake(t)
  /\ UNCHANGED <<rows, owner, admission, expected, task, helper, sweep, used>>

\* The task was gathered; a turn it left running is finished.
StopFinish(t) ==
  /\ t \in stop /\ ~Running(t)
  /\ stop' = stop \ {t}
  /\ FinishBare({t}, "cancelled")
  /\ Wake(t)
  /\ UNCHANGED <<owner, admission, expected, task, helper, sweep, used>>

StopFails(t) ==
  /\ t \in stop /\ ~Running(t) /\ Faulty
  /\ stop' = stop \ {t}
  /\ UNCHANGED <<rows, owner, admission, expected, task, helper, sweep, readers>>

Close ==
  /\ owner = "serving"
  /\ owner' = "closing"
  /\ UNCHANGED <<rows, admission, expected, live, readers, used>>

\* close() gathers admissions and cancellations, then cancels the tasks; a
\* cancellation that came while it gathered may still wait for its task.
Drain ==
  /\ owner = "closing" /\ \A t \in stop : Running(t)
  /\ \A t \in Turns : admission[t] = "none"
  /\ owner' = "draining"
  /\ sweep' = {t \in Turns : Running(t)}
  /\ task' = [t \in Turns |-> IF Running(t) THEN AfterCancel(task[t]) ELSE task[t]]
  /\ UNCHANGED <<rows, admission, expected, helper, stop, readers, used>>

\* Nothing of the process is left; streams break and clients keep their cursor.
Gone ==
  /\ admission' = [t \in Turns |-> "none"]
  /\ expected' = [t \in Turns |-> 0]
  /\ task' = [t \in Turns |-> "none"]
  /\ helper' = [h \in Helpers |-> "none"]
  /\ stop' = {} /\ sweep' = {}
  /\ signal' = [t \in Turns |-> FALSE]
  /\ reader' = [r \in Readers |-> IF reader[r] = "over" THEN "over" ELSE "away"]
  /\ UNCHANGED cursor

Exit ==
  /\ owner = "draining" /\ \A t \in Turns : ~Running(t)
  /\ \A h \in Helpers : ~UnderWay(h)
  /\ owner' = "exited"
  /\ FinishBare(sweep, "cancelled")
  /\ Gone
  /\ UNCHANGED used

Crash ==
  /\ Up /\ used.crashes < MaxCrashes
  /\ used' = [used EXCEPT !.crashes = @ + 1]
  /\ owner' = "killed"
  /\ Gone
  /\ UNCHANGED rows

\* The next owner closes what was left, then serves.
Recover ==
  /\ ~Up
  /\ owner' = "serving"
  /\ FinishBare(Turns, "error")
  /\ UNCHANGED <<admission, expected, live, readers, used>>

-----------------------------------------------------------------------------
(* Readers                                                                 *)

Move(r, at) == reader' = [reader EXCEPT ![r] = at]

\* The stream reads the turn first; that read is answered after the admission.
Attach(r) ==
  /\ Up /\ reader[r] = "away"
  /\ status[Followed[r]] # "none" /\ admission[Followed[r]] # "committed"
  /\ Move(r, "replay")
  /\ UNCHANGED <<rows, owner, admission, expected, live, signal, cursor, used>>

\* Clear the signal, pass on what the log holds beyond the cursor.
Replay(r) ==
  LET t == Followed[r]
  IN  /\ reader[r] = "replay"
      /\ signal' = [signal EXCEPT ![t] = FALSE]
      /\ cursor' = [cursor EXCEPT ![r] = Len(log[t])]
      /\ Move(r, IF \E i \in cursor[r] + 1 .. Len(log[t]) : log[t][i] = "terminal"
                   THEN "over" ELSE "check")
      /\ UNCHANGED <<rows, owner, admission, expected, live, used>>

CheckOnce(r) ==  \* slip: an ended status ends the stream at once
  /\ reader[r] = "check"
  /\ Move(r, CASE status[Followed[r]] # "running" -> "over"
               [] signal[Followed[r]] -> "replay"
               [] OTHER -> "wait")
  /\ UNCHANGED <<rows, owner, admission, expected, live, signal, cursor, used>>

\* The status read is answered before any later write is, so the reader waits
\* before whoever ends the turn afterwards sets the signal.
Check(r) ==
  /\ reader[r] = "check"
  /\ Move(r, CASE status[Followed[r]] # "running" -> "tail"
               [] signal[Followed[r]] -> "replay"
               [] OTHER -> "wait")
  /\ UNCHANGED <<rows, owner, admission, expected, live, signal, cursor, used>>

\* A terminal may have committed between the replay and the status read.
LastReplay(r) ==
  /\ reader[r] = "tail"
  /\ cursor' = [cursor EXCEPT ![r] = Len(log[Followed[r]])]
  /\ Move(r, "over")
  /\ UNCHANGED <<rows, owner, admission, expected, live, signal, used>>

\* Ten seconds without a signal.
Heartbeat(r) ==
  /\ reader[r] = "wait"
  /\ Move(r, "replay")
  /\ UNCHANGED <<rows, owner, admission, expected, live, signal, cursor, used>>

-----------------------------------------------------------------------------

Turn(t) ==
  \/ Submit(t) \/ Enter(t) \/ (\E added \in {0, 1} : Commit(t, added)) \/ Refuse(t) \/ Start(t)
  \/ Begin(t) \/ Emit(t) \/ Complete(t) \/ Fail(t)
  \/ FailFinish(t) \/ CancelFinish(t) \/ HandlerFails(t) \/ Leave(t)
  \/ Cancel(t) \/ StopFinish(t) \/ StopFails(t)

Next ==
  \/ \E t \in Turns : Turn(t)
  \/ \E h \in Helpers : Delegate(h) \/ HelperBegins(h) \/ HelperEnds(h) \/ Publish(h) \/ Vanish(h)
  \/ \E b \in Branches : Compact(b)
  \/ Close \/ Drain \/ Exit \/ Crash \/ Recover
  \/ \E r \in Readers :
       Attach(r) \/ Replay(r) \/ Check(r) \/ LastReplay(r) \/ Heartbeat(r)

Spec == Init /\ [][Next]_vars

-----------------------------------------------------------------------------
(* Properties                                                              *)

TypeOK ==
  /\ status \in [Turns -> {"none", "running", "completed", "cancelled", "error"}]
  /\ rev \in [Turns -> Nat] /\ branchRev \in [Branches -> Nat]
  /\ child \in [Helpers -> {"none", "live", "ended"}]
  /\ log \in [Turns -> Seq({"started", "text", "terminal"} \cup Helpers)]
  /\ owner \in {"serving", "closing", "draining", "exited", "killed"}
  /\ admission \in [Turns -> {"none", "queued", "admitting", "committed"}]
  /\ expected \in [Turns -> Nat]
  /\ task \in [Turns -> {"none", "new", "work", "failing", "cancelling",
                         "leaving", "dropped", "done"}]
  /\ helper \in [Helpers -> {"none", "new", "live", "publish", "done"}]
  /\ stop \subseteq Turns /\ sweep \subseteq Turns
  /\ \A t \in Turns : task[t] # "none" => status[t] # "none"
  /\ signal \in [Turns -> BOOLEAN]
  /\ reader \in [Readers -> {"away", "replay", "check", "tail", "wait", "over"}]
  /\ cursor \in [Readers -> Nat]
  /\ used \in [crashes : Nat, faults : Nat]

\* While the owner lives, every durable running turn has someone who will end
\* it: its admission, its task, a cancellation or the closing owner ("must never
\* leave a durable running turn without an owner").
NoTurnIsOrphaned ==
  Up => \A t \in Turns : status[t] = "running" =>
    admission[t] = "committed" \/ Running(t) \/ t \in stop \cup sweep

\* An owner that has closed left no turn and no helper open.
CleanExit ==
  owner = "exited" =>
    /\ \A t \in Turns : status[t] # "running"
    /\ \A h \in Helpers : child[h] # "live"

\* Both hold through every order of admission, cancellation, failure and
\* shutdown, as long as no write of a handler fails.
TurnsHaveOwners == used.faults = 0 => NoTurnIsOrphaned /\ CleanExit

\* Two turns never run on one branch, and the running one holds its revision:
\* the fence that dispatches its actions does not trip on its own checkpoints.
RunningTurnOwnsBranch ==
  \A t \in Turns : status[t] = "running" =>
    /\ rev[t] = branchRev[BranchOf[t]]
    /\ \A u \in Turns \ {t} : status[u] = "running" => BranchOf[u] # BranchOf[t]

\* The log of a turn has one terminal event exactly when the turn has ended, as
\* its last event, and then one end of each of its helpers before it.
Count(t, event) == Cardinality({i \in DOMAIN log[t] : log[t][i] = event})
LogsEndOnce ==
  \A t \in Turns :
    /\ Count(t, "terminal") = (IF Ended(t) THEN 1 ELSE 0)
    /\ Ended(t) => Last(log[t]) = "terminal"
    /\ \A h \in HelpersOf(t) :
         /\ Count(t, h) <= 1
         /\ Ended(t) /\ child[h] # "none" => Count(t, h) = 1 /\ child[h] = "ended"

\* A reader whose stream ended by itself has passed on the whole log, terminal
\* event included, wherever the end of the turn fell between its reads.
ReadersSeeTheEnd ==
  \A r \in Readers :
    /\ cursor[r] <= Len(log[Followed[r]])
    /\ reader[r] = "over" =>
         Ended(Followed[r]) /\ cursor[r] = Len(log[Followed[r]])

-----------------------------------------------------------------------------
(* Fairness: a ready coroutine is run; the model, the user, new turns and the *)
(* next owner owe nothing.                                                   *)

Fairness ==
  /\ \A t \in Turns :
       /\ WF_vars(Start(t) \/ Begin(t))
       /\ WF_vars(Enter(t) \/ Refuse(t))
       /\ WF_vars(FailFinish(t) \/ CancelFinish(t) \/ Leave(t))
       /\ WF_vars(StopFinish(t))
  /\ \A h \in Helpers :
       /\ WF_vars(task[ParentOf[h]] # "work" /\ HelperEnds(h))
       /\ WF_vars(HelperBegins(h) \/ Publish(h))
  /\ WF_vars(Drain) /\ WF_vars(Exit)
  /\ \A r \in Readers :
       WF_vars(Replay(r) \/ Check(r) \/ LastReplay(r))

FairSpec == Spec /\ Fairness

\* A cancellation ends its turn, and a closing owner exits, also when they meet
\* each other, a failing turn or a helper on its way out.
CancellationsEnd ==
  /\ \A t \in Turns : t \in stop ~> (status[t] # "running" \/ ~Up \/ used.faults > 0)
  /\ owner = "closing" ~> ~Up

\* A reader that stays attached to an ended turn gets to the end of its stream by
\* its signal, without the heartbeat, although readers share one signal and
\* clear each other's.
ReadersEnd ==
  \A r \in Readers :
    Ended(Followed[r]) /\ reader[r] # "away" ~> reader[r] \in {"over", "away"}

=============================================================================
