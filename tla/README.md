# Rapid-MLX: TLA+ models and proofs

Rapid-MLX is an inference server for Apple silicon: an OpenAI-compatible HTTP
front end over a continuous-batching scheduler and several prefix caches, with a
chat runtime beside it that runs conversations and their tool actions. This
directory holds TLA+ modules for both, the TLC configurations that model-check
them, and TLAPS proofs. `PROJECT.json` maps every definition that
models code to the source lines it translates, and lists the runs, the hazards
they are aimed at, the theorems, and the disagreements between the code and its
own documentation that were met on the way.

Paths below are relative to `src/`. To repeat a run: `tlc -config X.cfg M`, with
the module and configuration of `PROJECT.json` "runs". To repeat a proof:
`tlapm M.tla`.

## 1. The system

One asyncio event loop serves HTTP, streams outputs and runs the *engine loop*;
one worker thread, `mlx-step`, runs everything that touches the model or the
scheduler's caches (`engine_core.py`, the single-thread executor). Most of what
is hard in this code sits on that line: the event loop changes scheduler state
(aborts, cleanup) while the worker is in the middle of a step that read it
earlier.

```
 HTTP route ── ensure_engine_ready ──► PrimaryModelLifecycle ── start/stop ──► engine
     │                                   (tokens, lock, load task, idle monitor)
     ▼
 EngineCore (event loop)  ──jobs: add, step, fail──►  mlx-step worker
   stream_outputs / generate                            Scheduler.step
   abort_request, cleanup   ──deferred aborts──►         waiting, running, ledgers
   collectors, buffers      ◄──outputs of a step──       │ fetch / store / release
                                                         ▼
                                              BlockAwarePrefixCache (entries, index)
                                                         ▼
                                              PagedCacheManager (blocks, refs, hashes)
                                                         ▼
                                              FreeKVCacheBlockQueue (linked list)

 chat owner process (one per profile, one event loop)
   ChatRuntime: admission ─► task of a turn ─► helpers      readers (event streams)
        │  start, cancel, close        │ tool calls              ▲ signal + cursor
        │                              ▼                         │
        │                       ActionTools (one lock per conversation, undo)
        ▼                              ▼                         │
   ChatStore: one writer thread, one FIFO of transactions ───────┘
     turns, branches, events, subruns, action_operations, action_checkpoints
```

The chat owner is a process of its own: it talks to the server by HTTP like any
client, and to its own SQLite store through one writer thread. Everything durable
about a conversation is a row; everything that will change a row is a task of the
owner, and the owner may be killed between any two of its steps.

### Inventory

The components of the serving path, with the state each keeps, its operations,
how it meets the others, what is hard about it, and what makes it correct.

**Free block queue** (`paged_cache.py`, `FreeKVCacheBlockQueue`). State: a doubly
linked list threaded through the blocks, a counter, pins. Operations: `popleft`,
`popleft_lfu`, `popleft_n`, `remove`, `append`, `append_n`. Called by the block
manager under its lock. Hard: pointer surgery, skipping pinned blocks, a bulk pop
that fails half way. Correct when the two directions agree, nothing is lost or
doubled, and it behaves as a queue.

**Paged KV block manager** (`paged_cache.py`, `PagedCacheManager`). State: blocks
with reference counts, a chain-hash and a legacy hash index, block tables per
request, pins, the allocation map. Operations: allocate one or many, cache full
blocks, adopt computed blocks, fork, copy-on-write, evict, release under pressure,
pin, reset, clear. Hard: every operation moves references between tables, queue and
two indexes, and several fail in the middle. Correct when every block is in one
place, references count holders, and a hash never names a block with other KV.

**Block-aware prefix cache** (`prefix_cache.py`, and its callers in `scheduler.py`).
State: entries in LRU order, a prefix index that outlives its blocks, tables of
live requests. Operations: transactional fetch, store block by block, release,
fork, pressure eviction in three stages, pins, clear. Hard: an entry's blocks are
evicted while a live request shares them; a store shares blocks, fills new ones,
runs out, or raises half way; an index entry outlives its blocks and is revived or
pruned. Correct when references balance, every table has an owner that will
release it, tables hold the KV of their own text, and what is stored is found.

**Scheduler** (`scheduler.py`). State: `requests`, `waiting`, `running`, batch rows,
deferred aborts, orphan candidates, cancel ledgers, consecutive failures.
Operations: `add_request`, `step` (drain aborts, reap orphans, admit, insert,
decode, finish), `abort_request`, `remove_finished_request`, `fail_step`, cache
corruption retry. Hard: the event loop mutates `requests` and the abort queue
during a step; a request is known by an id that may be reused; a dozen ways out.
Correct when no request is forgotten, none is decoded for a client that has gone,
cached blocks are released by exactly one path, and a cancellation is counted once.

**Engine core** (`engine_core.py`, `service/helpers.py`). State: collectors, stream
buffers, finished events, request lifetimes, loop state. Operations: admission with
cancellation, the loop's dispatch and distribution, failure recovery,
`stream_outputs`, `generate`, abort, cleanup, the disconnect guard. Hard: a client
may be cancelled at every await; outputs of a step arrive after an abort; the
recovery may itself fail. Correct when every client gets every token once and ends.

**Output collector** (`output_collector.py`). State: one merged output. Operations:
put (merge), get, clear. Hard: a terminal output must survive merging.

**Primary model lifecycle** (`runtime/primary_lifecycle.py`, with `engine/batched.py`
and `service/helpers.py`). State: published state, route tokens, a FIFO transition
lock, the shared load task, the idle monitor, `_resume_required`. Operations:
`ensure_loaded`, `_load`, `_reset_partial_load`, `evict_if_idle`, token acquire,
transfer and release, `detach`, `shutdown`. Hard: requests arrive at every await of
an unload; start, hooks, stop, pause and resume fail; waiters are cancelled; the
lifespan tears the engine down under a shielded load. Correct when no request loses
the model under it, start and stop exclude each other, every waiter is answered and
idle memory is given back.

**Chat turns and their event log** (`chat_runtime/runtime.py`, `store/`). State: turns
and branches with revisions, the event log of each turn, subruns, the owner's tasks, the
cancellations under way, the signal readers wait for. Operations: `submit`, the task of a
turn with its handlers, delegation, `cancel`, `close`, recovery, the event stream. Hard: a
turn becomes durable before it has a task; a handler may be cancelled, or its own write
fail; readers share one signal and clear each other's; shutdown meets admission and
cancellation. Correct when a running turn always has somebody who will end it, its log
ends once, every reader gets that end, and a branch has one running turn at its revision.

**Chat actions and undo** (`chat_runtime/tools/action_tools.py`, `store/actions.py`).
State: one row per operation, checkpoints of replaced files, the conversation's lock, and
the files themselves. Operations: create with the policy's verdict, ask, decide, expire,
dispatch, replace a file or run a process, settle, interrupt, undo. Hard: the file changes
while the user thinks; an approval races the end of its turn; a body is cancelled with an
effect made and not recorded; a kill falls between an effect and its row; two undos, or an
undo cut short, claim one change. Correct when an effect is made at most once and after
its row says so, a recorded outcome is true, nobody's edit is overwritten unseen, and
nothing is open under an ended turn.

**Not modelled yet** (reasons and plan in section 7): resident models and registry,
memory-aware prefix cache, hybrid state checkpoints, disk KV checkpoints, chat owner
discovery and leases, multimodal scheduler, MCP client manager, model downloads,
share tunnel, media lanes. **Left out for good**: HTTP parsing, tool-call parsers,
model architectures and kernels, speculative decoding, local search, telemetry,
command line, the macOS app, vendored pipelines. Each is listed with its reason in
`PROJECT.json` "components".

## 2. Modules

| Module | Models | Kind |
|---|---|---|
| `SeqKeep` | the elements a walk along a list keeps | pure operator |
| `FreeQueueSpec` | a queue whose pops skip pinned blocks | abstract |
| `FreeBlockQueue` | `FreeKVCacheBlockQueue`, pointer by pointer | implements `FreeQueueSpec` |
| `PagedPool` | the block manager's pool: operators on one record | pure operators |
| `PagedCache` | `PagedCacheManager`: the pool and the tables | uses `PagedPool` |
| `PrefixSharing` | `BlockAwarePrefixCache` with its pool and callers | composes `PagedPool` |
| `TokenStream` | what a client is promised: every token once, then an end | abstract |
| `StreamOutputs` | outputs, their merges, the interval buffer | pure operators |
| `RequestLifecycle` | `EngineCore` and `Scheduler` together | implements `TokenStream` |
| `PrimaryModel` | `PrimaryModelLifecycle`, its requests, engine and lifespan | |
| `ChatTurns` | turns, helpers, cancellation, shutdown and recovery, the log and its readers | |
| `EffectLedger` | what a journal of outside effects promises | abstract |
| `ActionLedger` | tool actions, their rows, the file, undo | implements `EffectLedger` |
| `FreeBlockQueueProofs`, `PagedCacheProofs`, `PrefixSharingProofs`, `PrimaryModelProofs`, `RequestLifecycleProofs`, `RequestStreamProofs`, `ChatTurnsProofs`, `ActionLedgerProofs` | theorems | proofs |
| `MC*` | constants for TLC | |

A definition whose comment says "slip" or "mutant" models no code: it is a
plausible bug, kept beside the definition it alters so that `PROJECT.json`
"mutants" can show that a property notices it.

### FreeBlockQueue
`links` is the pair of pointer maps with the sentinels `FakeHead` and `FakeTail`;
`num` is `num_free_blocks`; `lost` records blocks a failed `popleft_n` unlinked.
`Unlink` and `LinkAll` are the pointer assignments of `remove` and `append_n`, `UnlinkAll`
the loop of `popleft_n`. What a walk finds is written with `Keep`, a fold that says what
SelectSeq says and that a proof can expand.
`PopLeftLfu` may take any unpinned block of its window: access counts are abstracted.
`Pin` and `Unpin` are the manager's, since the queue reads `is_pinned`.

### PagedPool and PagedCache
The pool is a record: references, chain hash and legacy id per block with the maps
from them, KV, pins, the allocated blocks and the counter. The KV of a block is the
token prefix it was computed from, which is what its chain hash identifies: hashes
are taken to be injective. `kv` is what a reader of the block would decode on, so
"a hit is sound" can be said. `tables` are the block tables. The queue's order is
abstracted to "any unpinned free block" (its LFU window is the queue's business),
which the FreeBlockQueue model justifies. Operations under the manager's lock are
one action each; `outcome` keeps how the last one ended, including the
`AssertionError` and the lost blocks of a failed bulk allocation.

### PrefixSharing
A request's text is its prompt and what it will generate; `live` are requests under
way, `entries` the stored ones in LRU order, `index` the prefix index, `storing`
the place a `store_cache` has reached, since every block of it may be shared,
filled, or fail. Fetches (in `add_request`), stores (in `_cleanup_finished`),
releases and the memory-pressure tick all run on the `mlx-step` worker, so they
exclude each other and each is one action, the store one per block. A fetch tries
the hash index, then the prefix index, and is transactional: what it retained is
given back when the chain breaks. The pool is that of `PagedPool`, shared with
`PagedCache`. `fork_cache` and `pin_prefix` are included although the text path
reaches only the latter (through the pinned system prompt).

### RequestLifecycle
A request *object* is an id and a lifetime, because the code compares requests by
id and ids are reused. `client` is where the caller is (adding, reading, closing,
leaving), `stream` its collector, interval buffer and event, `sched` the scheduler,
`jobs` the executor's queue, `step` what the worker is in the middle of, `loop`
where the engine loop is, and `produced` the outputs of a step not yet distributed.
A step is cut where the event loop can observe or change what it uses: job start,
each drained abort, reconciliation, each admission, insertion, decode. Decoding,
processing and cleanup of a step's outputs are one action: they run on the worker
and nothing on the event loop reads their intermediate state. The environment's
moves are named in `Faults` so that a run can choose them: withdrawal during
admission, disconnects, the guard's forced abort, the cancel route, refusal, pause,
own and shared failures of a step, corruption while inserting or decoding,
exceptions in the step or in its recovery, repetition stops.

Abstractions: the order in which a retry reschedules running requests is left open;
a long prompt takes one extra step; attribution of a cancellation to a disconnect
is offered to every cleanup, more than the code does; corruption
strikes before `MaxTokens` tokens, so that a request makes at most twice its cap;
`FatalAfter` is 2 where the code has 10. Not modelled: several steps in one executor
call, the admission wave and hybrid throttle, lifecycle admission tokens, prompt
compression, a second submission under a live id, read timeouts.

### PrimaryModel
`req` is where each request is: waiting for the lock (`queued`), stopping a partial
load (`resetting`), awaiting the shared load (`sharing`), refused, served, handed to a
stream, or gone with work left in the scheduler (`leftover`). `lock` and `waitq` are
the asyncio lock and its FIFO waiters; a released lock is not granted to a newcomer
while somebody waits. `load` is the load task, `evict` the idle monitor, `state` what
is published, `loaded` and `paused` the engine, `resume` `_resume_required`, `quiet`
that the idle time has passed, `down` the lifespan. A step is the code between two
awaits. The first check of `evict_if_idle` and the check under its lock are one
action: `StateIsTruthful`, which is proved, says that a ready model's lock is free,
so nothing happens between them. The load finds the engine unloaded because only
the load starts it. Not modelled: the counters, the start-up call of `ensure_loaded`
(no token, nobody else is there), a shutdown with requests still waiting (the HTTP
server ends them first), and a resume that fails while shutdown cancels the monitor.
A stop that shutdown cancels publishes `ready` or, if the model is already dropped,
`error`, as a stop that raises does.

### ChatTurns
An action is one segment of a coroutine between two awaits, with the store write it
enqueues. The store applies writes and reads in one FIFO on one thread, so a write is
placed when it is enqueued, also when its caller is cancelled before the answer; a later
read sees it. `status`, `rev`, `branchRev`, `child` and `log` are the store; `admission`,
`task`, `helper`, `stop` (cancellations gathering their task) and `sweep` (turns a closing
owner finishes) are the owner's coroutines; `signal`, `reader` and `cursor` its event
streams. `Enter` is the submit lock, where an admission sees that the owner is closing;
`Commit` is `begin_turn`; `Start` makes the task. `AfterCancel` says where `task.cancel()`
takes a task: its work enters the cancellation handler, a handler goes to the `finally`,
and a task that never ran just ends. `Delegate` writes a helper's row; only when the write
is acknowledged (`HelperBegins`) does the helper stand in its `try`, so one cancelled before
ends without closing its row (`Vanish`) and leaves that to the turn. `Finish` is `_finish` with `_finish_subruns`: an ended
turn keeps its outcome, helpers whose end was not published are published first.
`Crash` removes every task and keeps every row; `Recover` is `recover_interrupted`.
`HandlerFails` and `StopFails` are failing writes of the handlers, bounded by `MaxFaults`.

Abstractions: what a turn does while it works (model stream, tools, context compaction) is
"emit", "delegate", "checkpoint", "complete" or "fail"; texts are counted, not read. The
attachment check of an admission is a refusal at any time. A reader's connection ends only
with the process, since a client that leaves changes nothing.

### ActionLedger
`op`, `by` and `order` are the rows of `action_operations` (state, who decided, creation
order), `undo`, `target` and `undone` those of undos with the checkpoints' claims, `scope`
the turn or subrun status that fences them. `agent` is the task of a turn or a helper, `pc`
where a call's body is, `lock` the conversation's lock, `pre` the contents its preview was
made from. `file` and `times` are the world: what the file holds, and how often a call has
acted. `Create` takes the lock, previews and journals; `asking` and `asked` separate the
row from the deferral, because the user may answer in between. `Dispatch` is the fenced
transition. `replace_image` compares the file (`Compare`), writes the new contents beside it and
renames them over it (`Replace`); it may raise before the rename or, with the file replaced,
after it (`FileError`). An undo reads the file (`Inspect`) and goes through the same two
(`CompareUndo`, `Restore`). No segment of this awaits, so the rest of the owner does not move
between comparison and rename (where the model lets another task move, that step touches
neither the file nor the call), but somebody else's `Edit` and a kill may fall there: `raced`
notes that such an edit is about to be overwritten. `Stop` is every way an agent's task ends,
with the bodies that unwind; `Interrupted` is `_interrupt_operations`. `EndChild` and `EndTurn`
are the writes that end a scope, of which the turn's also ends helpers it finds running;
`LoseEnd` is their failure, after which the scope is `Abandoned`: running, without a task.
`Crash` is a kill of the owner.

Abstractions: the text rules that classify a command are the sets `Reviewed` and `Fresh`;
arguments are a key; there is one file. `ForeignAssumption` says outside contents can be
told from those the calls write, as the comparison by hash needs. A grant for a whole
conversation is not modelled, nor processes that survive a second cancellation, nor an undo
whose "unknown" write fails as well. The turn itself (branch revision, helpers, shutdown) is
`ChatTurns`, whose `RunningTurnOwnsBranch` is why the revision fence needs no action here.

## 3. Runs

All runs finish within minutes on two workers. "Violation" runs check one claim of the
code's own text, against the code.

| Run | Instance | States | Question |
|---|---|---|---|
| `FreeBlockQueue` | 4 blocks, LFU window 2 | 2,688 | Do the pointers implement a queue that skips pinned blocks? |
| `PagedCache` | 3 blocks, 2 requests sharing a prefix, references up to 3, any pins | 243,511 | Do accounting, references, hashes and KV survive every operation and failure? |
| `PrefixSharing` | 3 blocks of 2 tokens; texts `x x x x` (asks 2) and `x x x x y` (asks 4); the first is the pinned system prompt | 370,166 | Do sharing, stores that fail, forks, evictions and pins keep owners, references and texts right? |
| `LifecycleAborts` | a streaming and an awaited request, one batch slot, one token, ten kinds of cancellation and failure | 1,778,000 | Does every abandoned request leave, with its blocks, counted once? |
| `LifecycleStreams` | two requests in one batch, three tokens, interval 2, withdrawals, failures of a step and of one request, failing recoveries, a pause, fair | 411,680 | Is every token delivered once, nobody forgotten, and does every client end? |
| `PrimaryModel` | three requests, up to two failures of any kind, fair | 6,978 | Does nobody lose the model, is everyone answered, is idle memory given back? |
| `ChatTurns` | a turn with a helper, two readers, a text, a checkpoint, a kill and a failing write, fair | 417,699 | Do readers reach the end of a log, and do cancellations and shutdowns end? |
| `ChatBranches` | two turns of one branch, two helpers of the first, a text, checkpoints up to revision 2, a kill and a failing write | 4,179,361 | Has every turn an owner, its branch for itself, and one end in its log? |
| `ActionLedger` | a turn, its helper and a later turn; two writes of the file and a command; two undos; an edit, a kill and a fault, fair | 867,523 | Are effects made once and truthfully recorded, and edits kept? |
| `LifecycleMerge` | one request, cancelled | violation | Does a terminal output survive aggregation? |
| `ChatOrphan` | one turn, one failing write | violation | Does a running turn always have an owner? |
| `ActionUnknown` | two helpers repeating a command | violation | Is an unknown outcome asked about before a repeat? |

### What each property says

`FreeBlockQueue`: `TypeOK` includes `LinksAgree` (both directions agree, and a block has
pointers exactly when it is reachable); `CountIsLengthPlusLost` (the counter that guards allocation is
the length plus what failed bulk pops lost), `ImplementsQueue` (refinement of
`FreeQueueSpec`). Four blocks give a first, a last and two inner ones, so each case of
unlinking, and a bulk pop that meets a pin in the middle, occurs.

`PagedCache`: `BlocksAccountedFor` (each block queued, allocated or lost, once),
`RefsAreHolders` (references are the tables that list the block), `ChainHitsAreSound`
(a chain hash resolves only to a block with that KV), `HeldKvIsStable` (nobody changes
the KV of a block somebody else's table lists, or of a pinned one). Three blocks are
enough for a fork, a copy-on-write that runs out, and a bulk allocation that fails
after taking one. `MaxRef` bounds adoption by repeated touches.

`PrefixSharing`: `ReferencesBalance` (references count holders, and every table belongs
to a request under way or an entry that pressure can evict, so nothing leaks for ever),
`TablesHoldTheirText`, `StoredOnce` (a full block of tokens is kept once),
`StoredIsFound` (a prompt is served at least as many blocks as some table still holds
of it, and the hash lookup never hides a longer match). The texts
share chunks, repeat one, and end on and beside a block boundary; three blocks make the
second store run out. Both failures of a store (no block, an exception) occur.

`RequestLifecycle`: `NoZombie` (whatever is in the queue or the batch without a client
has its abort queued or is an orphan candidate), `GhostsAreReaped` (what was untracked
when a step began is gone before the step admits or decodes), `NoRequestStranded` (a
waiting client's request is alive or its last output is on the way), `LeasesHaveOwners`
(blocks taken by a lookup have somebody to release them), `CountedOnce` (a cancelled
lifetime is counted once), `ImplementsTokenStream` (refinement of `TokenStream`: every
token once, an end that has delivered all when normal), `EveryClientEnds` (liveness). The
two passing runs divide the faults: those of single requests meet one batch slot, so that
a request waits behind another; those of whole steps meet two requests in one batch. There
the first of three tokens is sent at once, the second waits in the interval buffer, and the
third or a failure flushes it, so what `ImplementsTokenStream` says of held-back tokens is
exercised. Retries after corruption are not in that run, because with them its other two
properties fail: a retried request that meets a failing recovery may be stranded (section 5),
and corruption that never ends keeps a client for ever. `ImplementsTokenStream` alone was also
checked with three tokens under `Faults = {"disconnect", "raise", "recovery", "decodeCorrupt"}`
(6,575,940 states, more than a run should take), and is proved for all faults but a cancel. Each
id is used once in them (`MaxLife = 1`): across reuse of an id the code does not keep
`NoRequestStranded` (section 4), while `CountedOnce` is proved for any reuse (section 5).

`PrimaryModel`: `TypeOK` includes that the lock's queue holds exactly those who wait,
once; `UsersAreServed` (from `ensure_loaded` to the end of its stream, and while the
scheduler has work left for it, a request has a loaded, admitting model nobody is
stopping), `OneTransition` (start and stop never overlap), `StateIsTruthful` (a published
`ready` is loaded, admitting and in nobody's hands; a `standby` is unloaded and open),
`EveryRequestIsAnswered` and `IdleIsUnloaded` (liveness). Three requests let one wait,
one share and one come between; two failures let a recovery fail as well.

`ChatBranches`: `TurnsHaveOwners` (as long as no write of a handler fails: a running turn has
an admission, a task, a cancellation or the closing owner to end it, and a closed owner left
nothing open), `RunningTurnOwnsBranch`, `LogsEndOnce` (a terminal event exactly when the turn
has ended, last, and one end of each helper before it). Two turns are needed for an admission
that finds the branch busy, for one whose expected revision the other turn's end or a
checkpoint has made stale, and for a branch that passes from one to the other; two helpers,
for a turn that is finished with one published and one not. A branch is checkpointed while its
revision is below `MaxRev`, which is 2: idle with an admission waiting, and under a turn. Readers change nothing these invariants speak of and are
left out.

`ChatTurns`: `ReadersSeeTheEnd` (a stream that ended by itself passed on everything),
`CancellationsEnd` and `ReadersEnd` (liveness). Two readers are needed for one to clear the
signal the other waits for; a helper, for a cancellation that falls between its end and its
publication; one kill, for a recovery of every intermediate state. One turn is enough: turns
share no signal and no log.

`ActionLedger`: `ImplementsEffects` (refinement of `EffectLedger`: at most one effect per call
and only after its commitment, refusals final, known outcomes true, settled rows never
rewritten), `EndedScopesAreSettled`, `ForeignEditsAreKept` (an outside edit is overwritten only
by a call whose preview was made from it, or when it fell between comparison and rename, which
is section 4's `NoEditIsLost`), `ChangesAreUndoneOnce`, and `DispatchedCallsSettle` (liveness: a
dispatched call is settled while its owner lives, even if its own settlement or its helper's end
could not be written, unless the turn's own end could not: the state of `ChatOrphan`). Two calls
write one file, so a preview goes stale and an undo meets a later change; a later turn runs a
command beside them; two undos meet on one change; one kill, one edit and one fault may fall
anywhere.

### Fairness
`RequestLifecycle`: weak fairness of the engine loop, of the worker and of each client's
own coroutine. The event loop runs every ready task, the worker thread every queued job
to its end. Nothing is assumed of submissions, disconnects, cancellations or faults.
`PrimaryModel`: weak fairness of the load task, the monitor, each waiter, the clock, and
the scheduler's dropping of work nobody waits for (the property of
`RequestLifecycle`); it stands on `start`, `stop` and the hooks returning or raising.
Nothing is assumed of arrivals, cancellations, the ends of streams, or the lifespan.
`ChatTurns`: weak fairness of each ready coroutine: an admission that has the lock or finds
the owner closed, a task that begins, its handlers and its `finally`, a cancellation whose task is
done, a helper whose row is acknowledged or that is cancelled, the closing owner, and readers that are not waiting. The
ten-second heartbeat is not assumed, so `ReadersEnd` rests on the signal alone; the model,
the user and the next owner owe nothing.
`ActionLedger`: weak fairness of a dispatched call's body (a process ends at its timeout), of the
end of an agent's task, of helpers when their turn ends (`cancel_turn`), and of the end of a turn
whose helper could not write its own (the exception leaves the delegation and fails the turn);
nobody has to answer an approval, ask for an undo, or restart.

`CHECK_DEADLOCK FALSE` is used where the system may stop: all clients gone, all blocks
lost or pinned, the lifespan over.

### Bounds
`MaxLife` (requests per id), `MaxTokens`, `MaxRunning` (`max_num_seqs`), `Interval`
(`stream_interval`), `FatalAfter`, `MaxRef`, `Window` (the LFU window), `BlockSize` and
`MaxFaults` (failing hooks or writes), `MaxTexts`, `MaxRev`, `MaxCrashes`, `MaxEdits`. Every
one is a CONSTANT of its module; `Faults` chooses the environment.

## 4. Disagreements with the code's own text

Three are checked by violation runs; `PROJECT.json` "findings" quotes each line.

1. `LifecycleMerge`: a token output delivered after `engine.abort_request` merges over
   the terminal output and unfinishes it (`rapid_mlx/output_collector.py:161`).
2. `ChatOrphan`: when a write of the task's own handler fails, the turn stays `running`
   with nobody to end it until the owner restarts (`rapid_mlx/chat_runtime/runtime.py:720`).
3. `ActionUnknown`: a helper stopped inside a command frees the conversation's lock before
   its call is recorded as unknown; a sibling's repeat created in between is approved by
   policy and dispatched (`rapid_mlx/chat_runtime/store/actions.py:115`).

Others are stated as definitions no run finds violated. To see one, add it to a copy of the
configuration named, as an INVARIANT (a formula with `[][...]` as a PROPERTY).
`NoRequestStranded`, `LeasesHaveOwners` and `NoZombie` hold under the faults of the passing
runs and fail under those named here; "base" is `LifecycleMerge` without its property:

| Definition | Configuration | What happens |
|---|---|---|
| `NoRequestStranded` | base with `Faults = {"insertCorrupt"}` | Corruption met while inserting drops the request being admitted (`scheduler.py:11855`); its client waits for ever. |
| `NoRequestStranded` | base with `MaxLife = 2`, `Faults = {"disconnect"}` | A deferred abort is a bare id and may hit the next request under it (`scheduler.py:9270`). |
| `LeasesHaveOwners` | base with `Faults = {"pause"}` | A refusal at commit keeps the blocks of the prefix hit (`scheduler.py:8874`). |
| `StoredEntryIsKept` | base with `Ids = {a, b}`, `MaxTokens = 1`, `Faults = {"disconnect"}` | An abort drained after its request finished releases the blocks of the stored entry (`scheduler.py:9411`); the note at `scheduler.py:11371-11373` says "do NOT call release_cache — the stored entry owns the blocks". |
| `NoEditIsLost` | `ActionLedger` with `Spec` | An outside edit that falls between the comparison and the rename of `replace_image` (`chat_runtime/tools/action_tools.py:99-110` and `:114-128`, with a temporary file written and synced between), or in the same place of an undo (`:672-681`), is overwritten unseen; line 110 says "File changed since inspection; refusing to overwrite it". |
| `NoZombie` | base with `Ids = {a, b}`, `Generating = {b}`, `Faults = {"raise", "recovery"}` | When a step and its recovery both raise, the engine ends every tracked request itself (`engine_core.py:1075-1092`), also one whose admission is still on the worker: the abort finds nothing, the admission commits, and the request is decoded for nobody, as the comment at `engine_core.py:1243-1257` says must not happen. |
| `BulkFailureIsValueError` | `PagedCache` | With a pinned free block the guard of `get_new_blocks` passes and `popleft_n` asserts after unlinking blocks, which are then lost; `paged_cache.py:685-686` promises `ValueError`. |
| `AllocateNeverRaises` | `PagedCache` | With only pinned blocks free, `allocate_block` raises (`paged_cache.py:655-673`); its docstring (line 650) says it returns None. |
| `SharedPrefixIsSound` | `PagedCache` | `cache_full_blocks` registers a block under the legacy hash (`paged_cache.py:859-913`), and `find_shared_prefix` may serve it to another history, against lines 1096-1100. |
| `LengthCapHolds` | base with `Faults = {"decodeCorrupt"}` | A request retried after corruption restarts its cap but keeps its tokens (`scheduler.py:11593-11609`); `docs/guides/server.md:793` says the cap is per response. |
| `CancelledNotProcessed` | base with `Faults = {"disconnect"}` | A request may be counted as cancelled and then complete (`scheduler.py:8980`); `routes/metrics.py:2029-2030` says the two are disjoint. |
| `RepetitionStopIsGraceful` | base with `Interval = 2`, `Faults = {"repeat"}` | `_merge_stream_buffer` copies `error` without `error_kind` (`engine_core.py:1485`), so a repetition stop raises, unlike for an interval of 1 (`engine_core.py:1464-1465`). |
| `ServedWhole` | `PrimaryModel` | An idle stop that raises with `_loaded` still set publishes `ready` over a half-stopped engine (`runtime/primary_lifecycle.py:437-442`), which serves requests; for `error` the comment at lines 199-201 promises a clean-up on every later request. |

One more observation: an `error` state over a loaded model is cleared only by the next
request, so `IdleIsUnloaded` excepts it.

## 5. Proofs

TLC shows each property on a small instance; the theorems hold for every value of the
constants under the named assumptions.

**`FreeBlockQueueProofs`**, for any finite set of blocks and any window. `TypesHold`,
`CountIsKept` and `ListImplementsQueue` prove `TypeOK`, `CountIsLengthPlusLost` and
`ImplementsQueue`. The invariant, `QueueInv`, says that the pointers chain in both directions
exactly the blocks a walk from the head finds, each once, that the counter is their number
plus the lost ones, and that a lost block is not free (the run's properties do not say where
the pointers of a free block lead, so none is inductive alone). A chain is determined by its
sequence (`ListedChain`), so surgery on pointers becomes surgery on sequences: `UnlinkChains`
for one block, `UnlinkAllChains` for the loop of `popleft_n`, `LinkAllChains` for `append_n`.
What `Keep` selects is characterised by numberings of its indices, of which there is only one
(`OneNumbering`), so that removing and selecting commute (`KeepKeep`, `KeepOthers`). With these,
each operation on the pointers is its operation of `FreeQueueSpec` or leaves the queue alone.
Walks and folds are recursive functions: the proofs give the function they compute and show by
a least-number argument that no other satisfies the recursion (`SameFold`).
Assumed: `BlocksAssumption`, `SentinelAssumption`, `WindowAssumption`.

**`PagedCacheProofs`**, for any finite set of blocks, any prompts and any requests. `TypeCorrect`, `Accounting` and `RefCounts` prove `TypeOK`,
`BlocksAccountedFor` and `RefsAreHolders`. None is inductive alone: releasing a table is
safe only because references count holders, references can be counted only on blocks
that are accounted for, and the counter does not go below zero only because of the
accounting. The invariant is therefore their conjunction, `IInv`. The lemmas go from
the pool outwards: what each pool operator keeps (`ClaimKeeps`, `ReleaseKeeps`,
`RetainKeeps`, `TouchKeeps`, `ForgetKeeps`), what a changed table does to the holders of
a block (`HoldersStep`, `RefsFollow`, with cardinalities from `CardParts`), then one lemma
per operation, and `NextPreserves`. Assumed: finiteness of the blocks and of the requests,
prompts that are sequences in `Prefixes`, `None` no table (see the ASSUMEs).

Its second part, under the same assumptions, is about the KV itself:
`HitsAreSound` proves `ChainHitsAreSound` and `HeldIsStable` proves `HeldKvIsStable`. A hash
is registered for what a table says its block holds, and a table adopts what a hash
resolves to, so that the hashes are sound and that the tables hold their prompts
(`TablesHoldPrompts`) are inductive only together, and only over the accounting, which
keeps a listed block out of the reach of an allocation. Every operation but `clear` and
`reset_prefix_cache` loses or changes the KV of blocks a pop may return and of no other
(`Local`), from which both properties follow once (`LocalSound`, `LocalKeeps`).

**`PrefixSharingProofs`**, for any finite sets of blocks and requests, any texts, prompts and
block size. `TypeCorrect`, `ReferencesBalanced`, `TextsHeld`, `KeptOnce` and `FoundAgain` prove
the five invariants of the run. `IInv` joins `TypeOK`, the balance of references, the owners of
tables, `TablesHoldTheirText` and `BlocksAreSound` (a block in use is named for the text it
holds, begins at a block boundary, and when full is what its hash leads to), since each needs
another. The reference a store takes on a block it found counts only if its table does not list
the block yet; the blocks of a table get longer (`Ascending`), so one found under a longer text
is not among them; and a block keeps its text only while its references keep it out of the
reach of allocation and of `ForgetAll` (`FilledIs`, `Freed`). A full block is registered under
its hash, so a store that finds nothing is right to fill a new one: that is `KeptOnce`.
`FoundAgain` shows that the blocks of a table up to a boundary are all full (`FullBelow`), each
found under its hash while the table holds it, so that the match does not stop before
(`SharedReaches`); the length of a match is a least position that fails (`SharedLenIs`). Assumed:
`PoolAssumption`, `TextAssumption` (texts are sequences whose prefixes are in `Prefixes`, prompts
are not empty, `BlockSize` is positive) and `NoTableAssumption`.

**`PrimaryModelProofs`**, for any set of requests and any number of failures. `TypeCorrect`,
`Served`, `TransitionsExclude` and `Truthful` prove `TypeOK`, `UsersAreServed`,
`OneTransition` and `StateIsTruthful`. The invariant says what each holder of the lock
means (`Holders`: the lock is the monitor's exactly while it evicts, the load's while it
runs, a request's while it resets), what each phase has published and relies on
(`Phases`), and that admission is closed only by an eviction that will reopen it or has
left that to the next load, and requests are with a ready model (`Admission`).
`UsersAreServed` then follows: a request with the engine means `ready`, `ready` means a
free lock, and a free lock means nobody is stopping. Four lemmas say how the lock's queue
may change (`QueueStays`, `QueueGrows`, `QueueShifts`, `QueueLoses`); there is one lemma
per action. Assumed: requests, tasks and `None` are distinct.

**`RequestLifecycleProofs`**, for any finite set of ids and any batch. `CancellationsCountedOnce`
proves `CountedOnce` for any number of requests under an id and any faults. An abort counts only
an id the scheduler knows (`AbortKnown`), so requests have to be followed through the queue,
the batch and the hands of admission: whatever is there was committed, and a batch row is that
of its own id (`Knows`). Then `Ledger` is inductive: counted or fewer cancellations than
commits, attributions below cancellations. That removing requests from the queue leaves a
sequence of the others needs the k-th of a set of positions (`KthExists`), which rests on a
least-number argument from the well-foundedness of `<` (`LeastIndex`). Assumed everywhere:
`BoundsAssumption` and `NoneAssumption`.

The rest assumes that an id is used once (`OwnIds`, that is `MaxLife = 1`): the engine draws a
fresh `uuid4` for every request that comes without an id (`engine_core.py:1190-1191`, `:1753`). `Orderly`
says that the event loop and the worker take turns, that a request has one life, and that it is
in at most one of the queue, the batch and the hands of admission, with the status of that
place. `Owning` says that what occupies the scheduler is still in the engine's map or its abort
is queued, that a request whose last output is out, whose event is set or whose client is
leaving has its abort queued if anything of it is left, and that a request noted as gone when
the step began is aborted before anything is admitted. From it `NoRequestIsAZombie` proves `NoZombie` and
`NoGhostIsDecoded` proves `GhostsAreReaped`, under any faults unless a step and the recovery
after it both raise (`Recovers`): then the engine ends requests the worker is still admitting,
which is the `NoZombie` row of section 4, so the hypothesis cannot be dropped. `LeasesAreOwned`
proves `LeasesHaveOwners` from `Leased`; here admission is besides never paused between the
prefix hit and the commit (`NeverPaused`), again because TLC shows the contrary otherwise.

**`RequestStreamProofs`**, on top of it and under `OwnIds`, is about what clients get.
`StreamsAreDelivered` proves `ImplementsTokenStream` for any interval and any faults but the
cancel route, whose terminal output a later token may overwrite (finding 1). `Flowing` says that
tokens produced, buffered, in the collector and read are never more than were made, so none is
delivered twice; `Delivering` that they are exactly those until the client leaves or is failed, that a
last output that is no failure carries the whole count, and that after it nothing of the request
is decoded (`Closed`). Merging outputs keeps sums and ends (`Ready` and the lemmas on
`MergeStreamBuffer` and `Put`); each step is then a `Generate`, `Receive`, `Finish` or `Break` of the abstract stream, or
leaves it alone. `TypesHold` proves `TypeOK` under any faults: a request is admitted again only
below its cap, which bounds what a retried one makes and delivers by twice the cap (`Bounded`).
`NoClientIsStranded` proves `NoRequestStranded` from `Awaited`: while a client waits, its
request is in a place that a coming step, recovery or failure will answer, or its last output is
produced or collected; aborts of a waiting request are queued only once it is answered. The hypotheses
are that nobody cancels, that no corruption is met while inserting (section 4), and that there
is none while decoding once recoveries may raise: TLC finds a request, answered by the
engine while its admission ran, that a later token unfinishes, a retry requeues and a second failure loses.

**`ChatTurnsProofs`**, for any turns, branches and readers, finitely many helpers, and any
number of texts, checkpoints, kills and failing writes. `TypeCorrect`, `Owned`,
`BranchOwned`, `LogsEnd` and `ReadersComplete` prove the five invariants of the two runs. What
has to be carried along: which tasks belong to which statuses (a task exists only for a
durable turn, a turn whose task is done has ended or is in `stop` or `sweep`, unless a write
failed), that an admission holds its revision, that the log of a turn that runs has no
terminal event and names each published helper once, and that a reader past its replay has
passed on a prefix that ends before the terminal. One lemma per action.

**`ActionLedgerProofs`**, for any calls, agents, undos and contents, and any number of edits,
kills and faults. `TypeCorrect`, `ScopesSettled`, `UndoneOnce` and `EditsKept` prove the
invariants and the action property, and `Refinement` proves `Spec => ImplementsEffects`: each
step maps to a step of `EffectLedger` or leaves its variables alone. `IInv` says what a row
means to its body and the body to its row (`Rows`: a body past dispatch has a dispatched row,
`times` counts what it did), that the file is still what its replacer compared it with, unless
`raced` (`Compared`, on which `EditsKept` rests), that only a live owner has tasks and only a task has bodies
(`Tasks`, `Alive`), whose the lock is (`Holder`), that open rows have a scope that still runs
(`Scopes`), what a preview holds (`Previews`) and which undo owns a change (`Claims`). One
lemma `XKeeps` per action; then `OneEntry`, `Moves`, `Closes`, `Refuses`, `Settles` and
`Acts` turn a change of rows into a step of the ledger. Assumed: the constants are of the
right kinds and disjoint, and `ForeignAssumption`.

**Only model-checked.** Liveness (`EveryClientEnds`, `EveryRequestIsAnswered`,
`IdleIsUnloaded`, `CancellationsEnd`, `ReadersEnd`, `DispatchedCallsSettle`), which depends
on fairness and ENABLED and is out of the prover's reach. Every invariant, action property and
refinement that a passing run checks has a theorem; the hypotheses of those about
`RequestLifecycle` are the ones named above, which the constants of its runs satisfy. The library's induction theorems take an operator as a parameter and cannot be
instantiated with the installed provers; least-number arguments go through (`LeastIndex`,
`SameFold`) and stand in for them. No module proved about uses a RECURSIVE operator.

## 6. Reading order

`PagedPool`, `PagedCache`, then `PrefixSharing`; `TokenStream`, `StreamOutputs`, then
`RequestLifecycle`; `FreeBlockQueue` with `FreeQueueSpec`, and `PrimaryModel`, stand alone;
`EffectLedger`, `ActionLedger` and `ChatTurns` need nothing of the rest. Of the proofs,
`PrimaryModelProofs` is the easiest and `ActionLedgerProofs` the shortest with a refinement;
`RequestStreamProofs` comes after `RequestLifecycleProofs`, whose invariants it extends.

## 7. Plan

The order follows what a user of the server would lose first: the request path and its
KV, the model under it, and what persists of a conversation are done. Next:

1. *Resident models* (`runtime/resident_models.py`): admission of secondary models under
   request leases, eviction of idle ones, and the handoff of the primary role, composed
   with `PrimaryModel` through `Detach`. Properties: a leased model is not evicted, the
   memory bound holds through concurrent loads, a failed handoff restores the old primary.
2. *Memory-aware prefix cache and hybrid checkpoints* (`memory_cache.py`,
   `hybrid_state_checkpoints.py`): byte accounting, LRU eviction under borrowed entries,
   longest-prefix lookup against a reference definition over bounded inputs.
3. *Disk KV checkpoints* (`runtime/disk_kv_checkpoint.py`): publication by rename, crash at
   every step, eviction beside readers.
4. *Chat owner discovery and leases* (`chat_runtime/owner.py`): an owner that exits when its
   clients are gone beside one that is started by a client that just came.
5. *Request lifecycle, further*: several steps per executor call, a second submission under
   a live id, the ledger of prompt tokens.
6. *Multimodal scheduler*, *MCP manager*, *model downloads*, *share tunnel*, as room remains.

Of the proofs, next: weaker hypotheses for the theorems about `RequestLifecycle`, in
particular `NoClientIsStranded` with client cancellations and ids used again after their
request has ended, and theorems for each new module.

## 8. Not modelled, and why

Tensors and numerics (kernels, sampling, speculative acceptance) are beyond TLC and are
represented by the token prefix they were computed from. Text formats (tool-call and
reasoning parsers, HTTP bodies) keep no state across requests and are better served by
the repository's tests. Real time appears only as "the idle time has passed". Memory
pressure is the action it triggers, not a byte count. The vendored video pipelines, the
macOS app, telemetry, the command line and the benchmarks are not part of the serving
core. Within the modelled components, left out on purpose: reuse of an id in the passing
lifecycle runs (section 4), grants for a whole conversation, forks, deletion and attachments
of conversations, a child process that outlives a second cancellation, a cancellation that
meets shutdown after its task ended and before its next step, which finishes the turn, and volatile reasoning text. The remaining components
are in the plan above.
