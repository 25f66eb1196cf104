# A verification of LangGraph's execution core

These modules model how LangGraph runs a checkpointed graph, and the parts around
it in which order, failure and time decide what is correct: the channels, the
superstep algorithm, the loop that drives supersteps and saves checkpoints, the
runner that executes the tasks of one superstep, the retries and timeouts of a
node, `interrupt()` and its answers, delta channels and the savers that rebuild
them, the batching store, and the thread streams of the Python SDK. They are
written from the Python source under `src/libs/`; paths below are relative to
`src/libs/langgraph/langgraph/` unless they start with another package.

Run a check with `tlc -config LoopJoin.cfg MCPregelLoop.tla` and the proofs with
`tlapm PregelRunner_proofs.tla`. `PROJECT.json` lists the runs, the lines every
definition stands for, the findings, the hazards and the theorems.

## 1. Inventory

### 1.1 How the parts interact

A `StateGraph` compiles to a `Pregel`: nodes, channels, and for each node the
channels that trigger it. `Pregel.stream` (pregel/main.py) enters a
`SyncPregelLoop` (pregel/_loop.py), which loads the latest checkpoint of the
thread from a *saver*, rebuilds the channels and maps the input. It then
repeats: `loop.tick` asks `prepare_next_tasks` (pregel/_algo.py) for the tasks,
`PregelRunner.tick` (pregel/_runner.py) runs them on a `BackgroundExecutor`, each
through `run_with_retry` (pregel/_retry.py), and `loop.after_tick` has
`apply_writes` write the channels and submits the save of a new checkpoint. Tasks
report through done callbacks, which call `loop.put_writes` from the thread of
the task; the main thread, the threads of the tasks and the threads of the saves
share the loop's state. Everything that survives a crash is in the saver:
checkpoints, and *pending writes*, the output, errors, interrupts and answers of
tasks of a step that has not been applied yet. Of a `DeltaChannel` the
checkpoints hold nothing: it is rebuilt from the pending writes of the ancestors.

The store and the SDK stand beside this. A node reads and writes the *store*
through a queue that one background task empties in batches. A client of a server
reads the events of a thread through one shared stream that serves all of its
iterators.

### 1.2 Components

| Component | State | Operations | What is hard | What makes it correct |
|---|---|---|---|---|
| Channels (`channels/`) | one value, set, list or MISSING per channel | update, consume, finish, is_available, checkpoint, from_checkpoint, replay_writes | values shared with a queued checkpoint, finish flags, replay in another order | a checkpoint restores what was there; updates are reported whenever a value changes |
| Superstep algorithm (`pregel/_algo.py`) | none (versions and seen versions of a checkpoint) | prepare_next_tasks, apply_writes, should_interrupt, `_scratchpad` | two ways to find candidates, order of phases | a scan finds the same tasks; a version names one value |
| Loop (`pregel/_loop.py`, `_checkpoint.py`, `_io.py`) | status, step, checkpoint, channels, tasks, pending writes, counters, futures | `__enter__`, `_first`, tick, after_tick, put_writes, `_put_checkpoint`, `_put_exit_delta_writes`, `_suppress_interrupt` | saves in the background, failures, crashes, Commands, pauses, interrupts | supersteps take effect whole and once; answers reach their questions |
| Stream driver (`pregel/main.py`) | the loop and the runner of an invocation | stream, invoke, update_state, get_state | waits for saves (`sync`), drains | every invocation ends |
| Runner (`pregel/_runner.py`) | FuturesDict: futures, counter, event, done | tick, commit, on_done, `__setitem__`, `_call`, `_panic_or_proceed` | callbacks racing the main thread, calls, error handlers, timeouts | a step that returns is complete and committed |
| Executors (`pregel/_executor.py`, `_internal/_future.py`) | submitted futures | submit, done, `__exit__` | submissions during shutdown, cancellation | nothing submitted is lost |
| Retry, node timeouts (`pregel/_retry.py`) | attempts, the scope of an attempt, its writes, watchdogs | run_with_retry, arun_with_retry, guarded send, heartbeat | a timeout racing the result, an abandoned attempt that goes on writing, cancellation | only the last attempt's writes count; the task ends |
| Saver interface, InMemorySaver (`checkpoint/`) | checkpoints, blobs, writes | put, put_writes, get_tuple, list, delta history | repeated and partial writes | what is stored is found again |
| SQLite and Postgres savers | tables | the same | the same, slots replaced or ignored, where a delta snapshot is kept | they agree with the interface and with each other |
| Store (`checkpoint/langgraph/store`, `checkpoint-sqlite`) | items with a time to live, queued operations, a connection | batch, get, put, search, sweep | merging operations of several callers, cancelled callers, partial batches | each caller gets what it would get alone |
| Task cache | entries with a time to live | get, set, clear | expiry while in use | no stale or foreign result |
| Streaming (`stream/`) | subscribers, buffered events | subscribe, push, close, fail | a subscriber arriving late, close racing push | every subscriber sees every event once, in order |
| Run control (`runtime.py`) | drain flag | request_drain | a request in the middle of a step | the step is finished and saved |
| StateGraph compilation (`graph/`) | builder | add_node, add_edge, compile, attach_* | joins, deferred nodes, branches | the compiled triggers mean the drawn edges |
| Functional API (`func/`, `pregel/_call.py`) | none | task, entrypoint | calls of a retried caller | a call runs once |
| Subgraphs, time travel (`_internal/_replay.py`) | replay cursors, namespaces | fork, replay | a resume inside a subgraph | a fork leaves the original alone |
| Message reducer (`graph/message.py`) | none | add_messages | removal and replacement by id | a pure law on lists |
| Prebuilt agents and tools (`prebuilt/`) | none of its own | ToolNode, create_react_agent | parallel tool calls | one answer per call |
| SDK: thread streams (`sdk-py`, `_async/stream.py`) | shared stream, its filter, cursor, seen ids, subscriptions, watcher | subscribe, rotate, reconnect, fan out, run.start, run.respond, close | a rotation or a reconnect with replay while events arrive | every iterator gets each matching event once, in order, and ends with the run |
| SDK: subscription filters | none | match, union, cover | namespaces, depths, wildcards | a filter that covers another carries all of its events |
| Remote graph, SDK resources, CLI, serialisation, drawing, debug, callbacks, configuration | none to speak of | I/O and conversion | | |

`PROJECT.json` gives the status of each component.

## 2. Modules

| Module | Models | Uses |
|---|---|---|
| `Channels` | the channel classes, as operators on `[vals, fin]` | |
| `PregelAlgo` | `_algo.py`: candidates, triggers, tasks, `apply_writes` in its four phases | `Channels` |
| `DurableThread` | abstract: a history of runs that grows by whole supersteps | |
| `PregelLoop` | one thread: invocations, steps, saves, pauses, crashes | `PregelAlgo`; implements `DurableThread` |
| `PregelLoop_proofs` | theorems about `PregelLoop`, and the lemmas about a superstep they rest on | `PregelLoop`, `Facts` |
| `PregelRunner` | one superstep on a thread pool | |
| `PregelRunner_proofs` | theorems about `PregelRunner` | `PregelRunner`, `TLAPS` |
| `Interrupts` | `interrupt()`, its answers, put_writes on threads | |
| `Interrupts_proofs` | theorems about `Interrupts` | `Interrupts`, `Facts` |
| `DeltaThread` | one delta channel: loop, update_state, three savers | |
| `DeltaThread_proofs` | that writes are stored before their checkpoint, that replays are bounded | `DeltaThread`, `Facts` |
| `NodeRetry` | one task under retry policies and timeouts | |
| `NodeRetry_proofs` | theorems about `NodeRetry` | `NodeRetry`, `TLAPS` |
| `AtomicStore` | abstract: a store in which calls take effect at one instant | |
| `StoreBatch` | the batching store over SQLite | implements `AtomicStore` |
| `StoreBatch_proofs` | theorems about `StoreBatch`, the refinement among them | `StoreBatch`, `Facts` |
| `Subscriptions` | filters: match, union, cover | |
| `ThreadStream` | the thread stream of the SDK | `Subscriptions` |
| `ThreadStream_proofs` | theorems about filters and about the thread stream | `ThreadStream`, `Facts` |
| `Facts` | lemmas about numbers and sequences that the proofs share | `TLAPS`, the library's theorems |
| `MC...` | small instances | |

`PregelLoop`, `PregelRunner`, `NodeRetry` and `Interrupts` meet at one step.
`PregelLoop` runs and commits a task in one action (`RunTask`, `FailTask`) and
leaves the step in `Panic` or `AfterTick`. `PregelRunner` shows what the
interleavings inside that step may do, with the loop reduced to what the runner
sees of it. `NodeRetry` is the body of one of the runner's tasks; what it hands
over is the result and `task.writes`. `Interrupts` takes one step through many
invocations, with the slots of the pending writes that `PregelLoop` does not use.
`DeltaThread` has the same loop around one channel, with the branches and the
parts of the savers that only that channel needs.

### 2.1 PregelLoop and the code

| Action | Code |
|---|---|
| `Invoke(req, d)` | `__enter__`, `_first`: load, Command writes, NULL writes, resume or input, the input checkpoint |
| `Tick` | `tick`: step limit, tasks, end, drain, re-applied writes, pause before |
| `RunTask(k)`, `FailTask(k)` | the task, `commit`, `put_writes` |
| `Panic` | `_panic_or_proceed` raising |
| `AfterTick` | `after_tick`: `apply_writes`, `_put_checkpoint`, pause after; or InvalidUpdateError |
| `Flushed` | `_put_checkpoint_fut.result()` with durability `sync` |
| `SaveCheckpoint`, `SaveWrites` | the executor performing a save |
| `LeaveLoop`, `Close` | `_suppress_interrupt`, `BackgroundExecutor.__exit__` |
| `Crash` | the process dies; what was not performed is gone |
| `RequestDrain` | `RunControl.request_drain` |

The thread of checkpoints is `ckpts`, the pending writes `stored`, keyed as in
the saver by checkpoint, task and slot. `made` and `ran` are observers: what
each checkpoint held when it was created, and which tasks ran to completion.
Every node writes its task id to a reducer `LOG` and every Command its client
id to `COMMAND`, so that properties can say which runs and updates took effect.

Data abstracted: values are task ids; a checkpoint id is a counter (uuid6 is
monotone); `_xxhash_str` of checkpoint, namespace, step, name and index is
injective; the order of tasks in `apply_writes` is that of their paths. A
reducer starts from its type's default. An input is never empty, so
EmptyInputError does not occur; a resume is sent only to a thread that exists.
`put_writes` is atomic here (see 2.3). `With` is the assignment of one key of a
dict. A step is taken on a single top-level graph
without managed values, subgraphs or task cache.

### 2.2 PregelRunner and the code

`pc` is the main thread inside `PregelRunner.tick`: `Start`, the fast path for a
single task (`InlineEnds`, `InlineHandler`), `Submit`, the loop (`Wait`, `React`,
`Reacted`), `EventWait` (`futures.event.wait`) and `PanicOrProceed`. Each task has
a thread: `Call` and `Register` are `_call` with the two halves of
`FuturesDict.__setitem__` (the insertion, and the lock with event and counter),
`Finish` the end of the body, `Commit` and `OnDone` the two halves of the done
callback. The gap between `Finish` and `Commit` is the one `concurrent.futures`
has: it wakes waiters before it calls callbacks. `StoreError` is the saver
performing the put of an error. `TimeUp` may happen at any moment, which covers
every value of `step_timeout`; `late` says that it has. `WaiterFires` is the
stream waiter.

Abstracted: the futures that `_should_stop_others` cancels are left running (a
Python thread cannot be stopped; cancelling a future still in the queue of the
pool is not modelled), the reraise flags are in `skip`, and what a task writes
is of no concern here. The asyncio runner is not modelled.

### 2.3 Interrupts and the code

The module follows the tasks of one superstep through the invocations of a
thread. `stored` is the saver's pending writes of the checkpoint, per task a
record of the slots `INTERRUPT`, `RESUME` and output; `pending` is
`checkpoint_pending_writes`; `run[t]` is the attempt of a task with its
`PregelScratchpad` (`list` is `resume`, `count` is `interrupt_counter`).

| Action | Code |
|---|---|
| `GoOn`, `ResumeByIds(S)`, `ResumeBare(t)` | `_first` for None or input, a Command with a map of ids, a Command with one value; then `prepare_next_tasks` with `_scratchpad` |
| `RefuseBare` | the RuntimeError that asks for ids, after `_pending_interrupts` |
| `Recall(t)`, `Take(t)`, `Interrupt(t)` | the three ways through `interrupt()`: an answer of the list, `get_null_resume(True)`, GraphInterrupt |
| `Finish(t)`, `Fail(t)` | the node ends; `commit` with `task.writes` |
| `Put(p)` | the second half of `put_writes`: the list read before is replaced |
| `Retry(t)` | `run_with_retry` clears the writes and invokes the node again with the same config, hence the same scratchpad |
| `Save(w)` | a `put_writes` of the saver: special slots are replaced, the others kept |
| `Leave` | the step ends; `_put_pending_writes` with durability `exit` |
| `Crash` | the process dies |

The answers of a task are one list object: `_scratchpad` takes it out of the
pending writes (`_algo.py:1300-1314`) and `interrupt()` appends to it. So `Take`
makes the list longer wherever it is held (`Longer`): in the scratchpad, in the
pending writes, and in what a thread inside `put_writes` has read.

The list a scratchpad closes over and `checkpoint_pending_writes` are the same
object only until the first `put_writes`, which builds a new one: `same` says so,
and `offer` is what the old one still holds of the null task. With a durability in
`Races` tasks run on threads and `put_writes` is two actions: it reads the list
and replaces it, without a lock in between (`_loop.py:432`).

An answer carries the question it is meant for, which only the properties and the
guards of the client read. Not modelled: tasks called by tasks (they share the
parent's null answer), answers in a subgraph, time travel (which drops RESUME
writes), node output beside an interrupt.

### 2.4 DeltaThread and the code

`ckpts`, `blobs` and `written` are the saver's tables, with what each of the three
savers keeps of a delta channel: InMemorySaver and Postgres a blob per version,
SQLite the value in the row, Postgres also a flag there. `History(s, id)` is
`get_delta_channel_history` of saver `s`: the walk over the ancestors to the
nearest snapshot and the writes on the way; `ValueOf` replays them. `Input`,
`Resume`, `UpdateState` and `Copy` are the requests; `Commit(t)` a task's end;
`AfterTick` with `Snapshots` and the counters is `_put_checkpoint`,
`create_checkpoint` and `delta_counters`; `LeaveLoop` is `_suppress_interrupt` with
`_put_exit_delta_writes` for durability `exit`. `Drain(q)` is the moment a submitted
save takes `_delta_write_futs`, `SaveCheckpoint` the moment it is performed,
`SaveWrites` a `put_writes`. A value is the sequence of the items written, each
named by its task and checkpoint, so a lost, repeated, foreign or misplaced write
shows. `made` records the live value of each checkpoint.

### 2.5 NodeRetry and the code

`pc` is the coroutine `arun_with_retry`; `body[a]` is the background task of attempt
`a`, `active` and `locked` are its `_TimedAttemptScope`. `Start`, `BodyDone`, `TimeOut`,
`Settle` and `Retry` are the stretches of the coroutine between its awaits;
`Finish`, `SendBegin`, `SendEnd` and `Heartbeat` the node, which may write from
threads and go on after its attempt was abandoned; `RunWatchdog` and `IdleWatchdog`
the two timers; `Cancel` the runner. Time is in ticks that pass only while an
attempt runs; a timer that is over may be noticed late by any amount. `quiet` is the time
since `_last_progress`, which `guarded_send` stamps before it writes (`SendBegin`): a
thread that spends `idle_timeout` in its send is stopped as soon as it lets go of the
lock. Progress between the moment the watchdog raises and the moment the coroutine
looks is ignored. `kept` is an observer.
The synchronous `run_with_retry` has neither timeouts nor scopes: its behaviours
are the ones without them.

### 2.6 StoreBatch and the code

`Enqueue` and `CallDirect` are the callers; `Take` is `_run` collecting the queue and
`_dedupe_ops`; `Lock`, `Begin`, `Read`, `Delete`, `Insert`, `Commit` and `Finish` are
`abatch` of `AsyncSqliteStore` between its awaits, for `_run` (name 0) or a direct
caller; `CancelQueued`, `CancelDirect` cancel a caller where it stands; `RunOut` lets a
time to live expire; `Crash` loses the process and its transaction. `disk` is what
is committed, `work` what the connection sees. `Log` and `disk` are the refinement
mapping to `AtomicStore`. Vector search, filters, `list_namespaces` and the
Postgres store are left out; values are the numbers of the puts.

### 2.7 ThreadStream and the code

`streams` lists every SSE stream opened, `shared` is `_shared_stream`. The fan-out
task is `FanStart`, `FanRead`, `FanEnd`, `FanReopened`, `FanBackoff`, `FanDone`; an
iterator is `Subscribe` (with `Reconcile`, which rotates when `filter_covers` says
so), `GateOpens`, `Rotated`, `Leave`; `StartRun`/`Respond` and their answers are the
`RunModule`; `WatchRead`, `WatchEnd`, `WatchOpens`, `WatchStarts`, `WatchReopens` the
lifecycle watcher; `CloseBegins`, `CloseEnds` are `close()`. The server emits `Script`
event by event and replays from any cursor; connections fail and drop. An event
is its position, which is its seq and id. The projections that assemble messages
and tool calls, and queue limits, are not modelled.

## 3. Runs

| Run | Checks | Shows |
|---|---|---|
| `LoopJoin` | `TypeOK`, `OnlyCompletedRuns`, `NoRerunOfDurable`, `ImplementsThread` | with a join, failures, Commands and a crash, each step takes effect whole and once, durable output is not produced again, and the store implements `DurableThread` |
| `LoopGraph` | `CommandsOnce`, `OrderedSaves`, `OptimizedEqualsScan`, `VersionsIdentifyValues`, `DeferredLast`, `PausesHonoured`, `SnapshotExact` | on a cycle with a deferred node, pauses before and after, Commands and the step limit, three invocations: updates once, saves in order and exact, the trigger index misses no node, versions name values, deferred nodes last, pauses neither skipped nor passed |
| `LoopSends` | `StepsComplete`, `ComesToRest` | each Send is one run; invocations end, with failures, a rejected step and the limit |
| `RunnerSteps` | `EndsSettled`, `NothingForgotten`, `RaisedHasCause`, `Terminates` | a step that returns is complete, handlers included; a step raises only when the error of a task without a handler was committed; the step ends |
| `RunnerTimeout` | `IInv`, `CounterExact`, `EventSound` | the inductive invariant, with nested calls and a timeout at any time |
| `DeltaThread` | `Rebuilt`, `ReplayBounded`, `WritesFirst` | three savers rebuild every stored checkpoint to the value it had, from a bounded number of ancestors that have the channel; no checkpoint is stored before its writes |
| `RetryTimeouts` | `OwnWritesOnly`, `AttemptsPaired`, `AttemptsBounded`, `IdleOnTime`, `Terminates` | only the last attempt's writes leave a task; attempts are paired and bounded; the idle watchdog is awake in time whatever progress was made while it slept; the task ends |
| `StoreBatch` | `LaterPutWins`, `LockFindsNoTransaction`, `LooksAtomic`, `NoneAbandoned` | merged, failing, cancelled and crashed batches look atomic to each caller (the refinement of `AtomicStore`), the later put wins, no caller waits for ever |
| `ThreadStream` | `ChannelOrder`, `Served`, `RunEndReleases`, `OutputResolves` | with a rotation, a dropped connection, a failed start or a close, events arrive in order, once, completely; iterators and `thread.output` end |
| `Interrupts` | `AnswersReachTarget`, `OpenIsShown`, `NotAskedAgain`, `AnsweredStepEnds` | with failures, a retry, a crash and both durabilities, answers reach their questions and, once durable, are not asked for again; the open questions are shown; the step ends |
| `FindPartialWrites`, `FindStaleAnswer` | one property each | the findings of section 5 |

The properties are stated, with the code they are about, at the end of each
module. Every module also has a `TypeOK`, which documents its state; `LoopJoin`
checks that of `PregelLoop`, and `IInv` holds that of `PregelRunner`.

`ImplementsThread` is a refinement: the latest stored checkpoint, its log and the
tasks it calls for behave like `DurableThread`, in which a superstep adds exactly
the tasks that were due and anything that fails or crashes is a stutter.
`LooksAtomic` is another: every answered call took effect at one instant between
its start and its answer.

### Bounds

- *Graphs.* Two to four nodes: a join whose sides arrive in different steps, a
  cycle with a deferred node, and Sends beside an edge and to itself. A node that
  fails does so at each of its runs if TLC chooses.
- *Invocations* (`MaxInvocations`) two or three, *crashes* (`MaxCrashes`) at most
  one: enough for fail, resume, fail again and resume. The hazards need one
  interruption and one invocation that picks up; the Commands need a second
  Command on one checkpoint and a third invocation to see the result.
- *Step limit* (`RECURSION_LIMIT`) 1 or 4 where a graph cycles, so that the
  limit is hit; larger than any run elsewhere.
- *Durability* is chosen for each invocation from the set of the run, since it
  is an argument of `stream`. `sync` needs one wait, `async` two saves in flight.
- *Runner.* Two tasks, a handler and a call, or a chain of two calls with a
  handler: the fast path and the general path, and each pair of threads. The
  proofs remove these bounds for what they cover.
- *DeltaThread.* Two tasks whose ids sort against their paths, one of which may
  overwrite; `Freq` 2 and `MaxSupersteps` 3, so that both limits are met within six
  checkpoints (`MaxId`); two requests, one crash, one save behind (`MaxBehind`).
  `Threads` is FALSE: saves begin in their order, as on asyncio. `CleanOnly` excludes
  an input, update or copy on a checkpoint under which writes of the channel are
  stored, and a crash on the way out of an `exit` run: there `Rebuilt` does not
  hold (section 5).
- *NodeRetry.* Two policies with two and three attempts that overlap on one error, a
  run timeout of three ticks and an idle timeout of two, so that either may come
  first; one write per attempt is enough to be lost, late or foreign.
- *StoreBatch.* Three calls on two keys of one namespace: two that merge and one
  that competes. Callers are cancelled in the queue and in `abatch`, except while
  BEGIN is on its way (section 5). One crash.
- *ThreadStream.* Two iterators whose filters differ so that the second rotates the
  stream, once (with three, `Served` fails: section 5), a run of four events with one interrupt, one fault, one reconnect.
  `Overlap` is FALSE (iterators are set up one after the other) and connections
  do not drop before they deliver ("early"): both are section 5.
- *Interrupts.* Tasks with two, one and no questions; two failures, one retry per
  invocation and one crash within nine invocations, which always suffice to
  end. `Careful` restricts the client and the nodes to what the code supports: ids
  only of interrupts that are current, a bare answer only for the last question
  left in the step, None only when there is nothing to answer or the answer has
  been sent, and a retried failure only before the first question of a node.
  Without it the properties fail (section 5). `Races` is {"async"}: with
  `exit` tasks end one after the other, as on asyncio.
- Deadlock is checked where the system has an end of its own (`Over`, `Done`,
  `Stop`). A thread at rest with no invocation left to make may stop, so the loops'
  configurations turn the check off; `ComesToRest` says that it does not stop
  anywhere else. A stream session may be over, likewise.

### Fairness

`PregelRunner`: weak fairness of `Main` and of each `Worker(t)` (registration,
the end of the body, commit, callback, store): the operating system runs the
threads, and nodes return. Nothing is assumed of `Call` (a node may call or
not), `TimeUp` or `WaiterFires`. `PregelLoop`: `Fairness` is weak fairness of
`Step`, with ENABLED written out as `CanStep`; clients, crashes and drain
requests are not forced. Fairness of the one action `Step` suffices for
`ComesToRest` since every step of an invocation lowers what is left to do.

`NodeRetry`: the event loop runs the coroutine and the watchdogs, time passes,
and a thread that holds the lock of a scope goes on. The node need not end nor
react to its cancellation: `Terminates` rests on the run timeout. `StoreBatch`: the
loop runs `_run` and SQLite answers (`Take`, `Transaction`); nobody has to call.
`ThreadStream`: the server emits and connects, the tasks of the event loop run, the
application starts the run and answers; nothing has to fail, subscribe or close.
`Interrupts`: nodes run and return from `put_writes`, saves are performed, a step
that can be left is left, and the client goes on while the step is not over.
`DeltaThread` has safety properties only.

## 4. What is proved

**PregelRunner.** For every finite set of tasks, every assignment of handlers,
every nesting of calls and every choice of outcomes (`RunnerAssumption`,
`NestedCalls`), with or without a timeout and a waiter, `PregelRunner_proofs` proves

- `Inductive`: `Spec => []IInv`;
- `CounterIsExact`: `FuturesDict.counter` is the number of registered tasks whose
  callback has not returned;
- `EventIsSound`: the event is set only when nothing is pending or a fatal error
  has been counted;
- `StepSettles`: when `tick` returns or pauses and its time is not up, every task
  that was started has ended, is committed and has no unhandled error. It covers
  runs that have a timeout which has not run out.

The assumptions: handlers are distinct tasks that nobody calls and that are not
given to `tick`, and the calling relation has no cycle (a called task's path
holds its caller's).

`StepSettles` is the aim and needs the rest. When the main thread passes the
event, nothing may be pending; that holds because the event is cleared with
every registration and set only at counter zero (`CounterExact`, `EventSound`).
But the counter does not know tasks being registered: a task in the middle of
`__setitem__` is not counted. `Running` says its caller is still running, hence
registered itself, and by `NestedCalls` some caller in that chain is fully
registered and so pending: the counter is not zero. `HookOrder` ties callbacks
to registration, `Routing` says that an error of a routed task is known as
handled before it is counted, so that a fatal error stays fatal, `NotStarted`
and `FastPath` that no task is registered twice, and `Woken` carries the
conclusion from the event to the verdict; it, too, speaks of a main thread that
is not `late`. Each part has a lemma that every action preserves it.

Two more theorems are about errors, also of a main thread that is not `late` (section 5
shows why):

- `NothingIsForgotten`: when `tick` returns, the handler of every routed task that
  failed has run, and no task it was given is left to submit;
- `RaisedForCause`: `tick` raises only when the error of a task without a handler was
  committed. So the failure of a node that has a handler does not end the step by
  itself, and a later invocation finds an error of the step. Which error is raised is
  another matter: section 5.

They rest on `EndsInductive`, `Spec => []CInv`. A routed task that failed is still among
the futures or its handler is seen to (`Remembered`), whatever runs is among the
futures, and what was committed is in `done` (`Kept`). The main thread leaves the
loop only when no routed task is in flight or for a fatal error (`LookedAt`), and a
future not to be raised again is that of a call or of a routed task (`Skipped`).

**NodeRetry.** For any policies, timeouts and endings of a node, `Inductive` proves
`IInv`, and from it follow `OwnWritesSafe` (what leaves a task are the writes of its
last attempt, whatever an abandoned one goes on to write), `AttemptsPairedSafe`,
`AttemptsBoundedSafe` (the failures under all policies count together, yet the most
patient policy bounds them), `IdleOnTimeSafe` (the idle watchdog is never asleep when
`idle_timeout` is over since the last stamp: `Awake` says that time takes from its
sleep what it adds to the quiet) and `TypeCorrect`. The key is `OneScope`: at most the attempt
at hand has an open scope, and only before it was stopped; `guarded_send` looks at
exactly that.

**Interrupts.** For any tasks, numbers of questions, failures, retries and crashes:

- `AnswersReach`: an answer is returned to the question it was given for;
- `NotAskedTwice`: an attempt does not ask again for what has a durable answer (an
  action property). Both assume `Careful`; section 5 shows that they fail without;
- `OpenShown`: while nothing has failed, the open questions of a step at rest are
  those the saver shows. It does not need `Careful`, but that `put_writes` is not
  raced with durability `exit` (`"exit" \notin Races`), which section 5 shows too.

`interrupt()` pairs answers and questions by position only. The argument follows an
answer through the lists that hold it: the saver, the pending writes, what a thread
in `put_writes` has read, the scratchpad, and what `interrupt()` has returned.
`Structure` holds of every client: the lists of an attempt begin with what was
stored (`Lengthened`), a running task's list is the one of the pending writes
(`Aliased`), the counter is the number of answers returned (`Paired`), what is put
or saved is what the attempt committed (`Submitted`), and there is at most one
bare answer (`Single`). `Meaning` says that each answer stands at its place
(`Places`), that a bare answer is for the last question left (`Offered`), and that
once its task has run, a durable one has been taken (`Consumed`); it holds of a
careful client. `IInv` is `Structure /\ (Careful => Meaning)`. `OpenShown` adds
`OpenInv`: what a task committed is on its way, in the list, or in the saver.

**StoreBatch.** For any keys, operations and numbers of calls, with cancellations,
crashes and failing statements:

- `Refines`: `Spec => LooksAtomic`. Each step of the store is a step of `AtomicStore` or a
  stutter: the commit is the instant at which all the calls of a batch take
  effect, and answers come later;
- `LaterWins`: no item is older than an answered put or delete of its key that came
  through the queue;
- `NoTransactionFound`: whoever takes the lock finds the connection without an open
  transaction, if nobody is cancelled while BEGIN is on its way (`"begin" \notin
  Cancels`; section 5 shows that this is needed);
- `TypeCorrect`, and `Inductive` for the invariant they rest on.

The invariant follows one batch: which calls are in it and in what order (`Order`),
who holds the lock at which stage (`Locks`), what the connection has of it at each
stage over what the file held before (`Progress`), that the results a batch has ready
are what its calls read in the file as it was (`Ready`), and whose value a key has
(`Wins`). The step at which merging and order matter is the commit: the deletes and
the inserts of a batch, in two statements, leave of each key what the last of its
writes says.

**PregelLoop.** For every graph, every choice of requests, failures and crashes:

- `SavesAreOrdered`: a checkpoint is stored after its parent and only once, whatever
  fails or crashes;
- `SnapshotsAreExact`: what is stored of a checkpoint is what the loop had when it
  made it, though the save is performed later from live channels;
- `VersionsNameValues`: two checkpoints that have a channel in one version have it
  with one value, so a saver may keep a value per version;
- `TypeCorrect`: every variable keeps its type, and whatever refers to a checkpoint
  refers to one that was made;
- `OnlyCompletedRunsSafe`: what a checkpoint holds in the log was written by a task
  that ran to its end;
- `DurableIsNotRerun`: a task of which the saver has the output is not run again (an
  action property);
- `IndexFindsAll`: the nodes that `prepare_next_tasks` finds by way of the updated
  channels are all that a scan finds, in a running invocation and after a resume;
- `PausesAreHonoured`: an invocation runs no node of `interrupt_before` in a step it has
  prepared itself, and no step after one that ran a node of `interrupt_after`;
- `DeferredNodesRunLast`: a deferred node runs in a step of deferred nodes only;
- `CommandsTakeEffectOnce`: the update of a Command is in no checkpoint twice, and is in
  every checkpoint that follows one under which it was stored, however many Commands,
  failures and crashes there are before the step is done.

`SnapshotsAreExact` and `VersionsNameValues` assume that no channel hands out its
live value (`NoneShared`: no barrier and no accumulating topic) and that no
invocation runs with `exit`; both are needed, as section 5 shows.
`OnlyCompletedRunsSafe` assumes `Quiet`: a node that fails has not written to the log
before it raised. That is needed too: run `FindPartialWrites` is a graph that is not
quiet, and what its failing node wrote ends up in a checkpoint. Nodes of a quiet graph
may still fail, after any writes to other channels.

`QInv` orders the ids in the store, in the queue of the executor and in the loop.
`VInv` follows versions: a checkpoint made later has no older version of any
channel, and the same value where it has the same version (`Follows`); a save that
waits holds what its checkpoint had (`Waiting`).

`TInv` follows a write on its whole way: from a task into the pending writes, with
`put_writes` into the store (`Work`), through `apply_writes` into the channels
(`Memory`), with `_put_checkpoint` into the queue and the saver (`Records`), and from
there into the channels and the tasks of a later invocation. On all of it a
reducer that is followed (`Marked`: the log of a quiet graph, nothing otherwise) holds
only the ids of tasks in `ran`. One invariant so gives both the types and the
completed runs. The step from writes to channels is the lemma `ApplyProper`,
and that tasks are those of nodes and have distinct ids is
`PreparedFacts`.

`Known` is what `_reapply_writes_to_succeeded_nodes` relies on: before the tasks of a
checkpoint are prepared, all that is stored under it of a task that produced output
has been loaded, and while they run, nothing is stored or waits to be stored of a
task that has no writes. It needs that no put of an earlier invocation is still
waiting, that a new checkpoint's id is one under which nothing is stored
(`ProperStore` bounds the ids), and that a task has one id in its step.

`IndexFindsAll` has three hypotheses, and section 5 shows that it fails without any of
them: `NoneShared`; `SilentTriggers` (no node is triggered by a channel that is available
before it is written; `StateGraph` compiles its nodes so); and `[]Accepted` (no step
rejected by a channel is written down by an `exit` invocation). In its invariant,
`ScanInv`, the updated channels lead to every node that is triggered (`Leads`), in the
loop and in every record, whether it waits or is stored; and where tasks run, every node
that is triggered has one (`AllTriggered`). That carries `Leads` over a superstep: a node
is triggered afterwards by a channel that the step changed, which `apply_writes`
then reports (`Reported`, `ApplyTriggers`), or it was triggered before and would have had
a task. An input drops the tasks of a checkpoint after it has prepared them by a scan;
a Command adds the channels it writes to those of the checkpoint (`ClientLeads`).

`PausesAreHonoured` has the hypotheses of `IndexFindsAll`, and that the input channel is no
barrier. `should_interrupt` compares versions: it passes over a pause when no channel is
newer than what `versions_seen` has of the last interrupt. What has to be shown is that
this never happens in a step that an invocation prepared itself. `ToldInv`: what is
remembered of the last interrupt is not of the future, in the loop and in every record.
`Noticed`: some channel is newer. A superstep after which there is a task has given a
trigger a new version, above all others, so `Noticed` holds of its checkpoint
(`StepNoticed`), and an input has written to its channel (`InputsFacts`). For
`interrupt_after` the property speaks of the log, so that `OwnInv` (only a task writes
to the log, and only its own id) and `LogInv` (memory, queue and store hold the log of the
checkpoint as it was made) follow which nodes a step ran. `StopInv` joins the two.

`DeferredNodesRunLast` adds `Split` (a node waits for the end on all of its triggers or on
none, as `attach_node` and `attach_edge` compile it) and `SendFree` (no node sends a task;
`finish()` does not look at pending Sends, section 5). What a superstep reports as updated
is either no channel of the kind that waits for the end, or of the triggers only such
channels (`ApplyUpdated`): the end is looked for when nothing else that triggers was
updated. So the nodes that are triggered after it are alike (`Alike`), since those that
were triggered before had their task (`ApplyAlike`). `Fit` says that of the loop and of
every record that waits or is stored; saving and restoring keep it (`RestoredFit`), a
Command triggers nothing (`LoadsFit`), and an input drops the tasks it finds first
(`InputsFit`). Deferred joins are barriers and so outside the theorem (`NoneShared`). TLC
checks `FitInv` and all the hypotheses on the instance of `LoopGraph`.

`CommandsTakeEffectOnce` holds of clients that send no value to resume an interrupt and
never ask for `exit`; section 5 has how it fails with either, on one node and with four
invocations. (`LoopGraph` has `exit` invocations too, but none of its nodes fails, which
that failure needs.) The other hypotheses, `CommandsOnly` and `PlainUpdates`, say that only
Commands write to their channel and that an update is not an `Overwrite`. The updates of a
Command are stored under the checkpoint it finds, applied in memory, and loaded and
applied again by every invocation that finds the same checkpoint, until one of them makes
the next. So what has to be followed is where an update may be. `Sent` is what is stored
for a checkpoint or on its way there. `Updated`, of every record that waits or is
stored: it has no update twice, none that was sent to itself, and all that were sent to its
parent; `Receives` says the same of the step that runs, for the checkpoint it will make.
That needs the slots of `put_writes`: updates fill those of their checkpoint from the
first on, none two (`Slotted`), and a second Command puts what was stored before in the
slots it has already (`Fitting`), so that a write that `INSERT OR IGNORE` passes over
is one that is there (`PutSlots`), and what is loaded comes in the order of the slots
(`NullLoaded`). An invocation that finds the checkpoint of an earlier one adds to its
updates one no client has sent before (`InvokeUpdates`). A crash loses what is on its way,
so that an update that was never stored may be in no checkpoint.

*The superstep.* The first part of `PregelLoop_proofs` has what those proofs need of it:
`SelectedFacts` (what a comprehension keeps), `UpdateProper`, `ConsumeProper` and
`PhasesProper` (an update, a consume and the three phases of `apply_writes` keep the
values of a channel within its kind, and put into a reducer only what was written to
it), `SeenProper`, `ApplyProper` and `PreparedFacts`; `ApplyTracks` (a channel that a
superstep changed has a version above all others, and is reported if it became
available) and, for the trigger index, `PreparedScan`, `ApplyLeads` and `IndexIsScan`.
`ApplyTold`, `ApplyLog`, `ApplyPushes` and `ApplySendFree` say what it leaves of the last
interrupt, of the log and of the pending Sends; `ApplyKeeps` and `ApplyUpdates`, what it
leaves of the updates of Commands, and exactly what the application of a Command adds.
The assumptions on a graph are those
that `StateGraph.compile` establishes: the order of nodes names no node twice, the
control channels are no channels of the graph, the log is neither the input nor the
channel of a Command, and what a node returns is a finite sequence of writes to channels.

**Facts.** That a non-empty set of numbers has a least and a finite one a greatest
element, how sequences without a named element set grow, shrink and are joined, and
that flattening a sequence of sequences yields what they hold. The
induction behind it comes from the library's theorem on minimal elements of a
well-founded relation, which takes a set where the others take an operator.

**DeltaThread.** `WritesComeFirst`: a checkpoint that a step made is not stored before the
writes of the channel that produced it, for any plans, schedules, durabilities, branches,
copies, updates and crashes. It assumes `~ Threads`, saves that begin in the order they
were submitted, as the tasks of an event loop do; section 5 shows that it fails
with a thread pool. And it assumes that `exit` is not used, or only from checkpoints that
nothing was derived from (`CleanOnly`): with `exit` the writes go under the checkpoint the
run began from, beside those of older children. The argument is about who waits for
whom. A write that is submitted is on the list `_delta_write_futs`, or a save has taken it
(`Listed`), so the save that is made of it either has to begin, and then takes
the list, or waits behind a save that waits for it (`Guarded`). Ids are taken in
order (`Rows`, `Newest`), so no later write belongs to the parent of an earlier save.

`ReplaysAreBounded`: what a saver walks and replays for a checkpoint stays below the two
bounds, for all of `Freq`, `MaxSupersteps`, tasks, plans and requests, for saves that begin
in any order and whatever crashes. It assumes `CleanOnly`, without which stored writes
are replayed that no counter has counted (section 5). The bound comes from counters that
only the loop keeps, of rows that three savers keep in different places, so the
invariant `RInv` is about each row and its parent (`Edges`): the counters of a row
exceed its parent's by a step and by the number of steps with writes stored under the
parent, or a snapshot was made, which each saver finds (`Seeded`) and stops at. The
counters are taken when a save is submitted, before the writes under the parent are all
stored, so rows and writes on their way count as stored (`KRows`, `Entries`), and what
the executor does only moves them. A loop that saves each step relates its counters to
the row it goes on from (`Saving`); one that keeps its writes relates them to
what it will write at the exit (`Keeping`, `AtExit`). Writes under the latest row are of
tasks that a resume takes up (`Owners`), so the step after it counts them. Along the
ancestors the differences add up (`AllBounded`): the smallest id with too long a walk
would have a parent with one.

**Subscriptions.** For all channels, namespaces and depths, `ThreadStream_proofs`
proves `CoverIsSound` (a stream whose filter covers a subscription carries every
event that matches it, so `_reconcile_stream` may keep it) and `UnionCovers` (the
union filter of a set of subscriptions covers each of them, so a stream opened
with it serves them all; it assumes that the depths have a greatest one, which
a finite non-empty set of numbers has). They rest on the lemmas that prefix matching
is reflexive and transitive, also where a prefix leaves task ids out, and that
`Deepest` is an upper bound. `ThreadStream` relies on both: its
`Served` would fail for a filter that did not cover.

**ThreadStream.** For any script of the server, any clients and filters, and with all the
faults, reconnects and overlaps that the runs leave out:

- `OrderIsKept`: what an iterator is handed of a channel is in the order of the server and
  without repetition, in whatever order streams are rotated, replayed, reconnected,
  dropped and closed;
- `TypeCorrect`.

The set of ids seen rules out repetition (`GotSeen`). Order is the harder part: a second
stream, opened at the cursor, may replay events while the first still holds some. Until
`close()`, nothing seen and no stream that may be read is ahead of the cursor (`Behind`);
no such stream owes an event older than one seen of its channel (`NoneOverdue`); and
what the stream at hand has passed over, no later one hands over (`NoneRevived`).
The proof needs that the filters of streams are flat, which they are since the union always
has the lifecycle channel without namespaces, so that whether a stream carries an event
depends on its channel alone. That order is kept does not mean that nothing is lost: `Served`
says that, for two iterators, and section 5 has what happens with three.

Only model-checked:

- liveness: `ComesToRest`, `Terminates` of the runner and of a task, `NoneAbandoned`,
  `RunEndReleases`, `OutputResolves`, `AnsweredStepEnds`. Fairness and ENABLED are
  beyond the provers;
- of `PregelLoop`, `StepsComplete` and the refinement `ImplementsThread`: both need how much
  a superstep adds to the log, where the lemmas say what it may add;
- of `DeltaThread`, `Rebuilt`: the value of a checkpoint is computed by recursion along its
  ancestors, from writes in an order that differs from that of the loop, and comparing the
  two takes induction over the data;
- of `ThreadStream`, `Served`, which does not hold for every number of iterators
  (section 5).

## 5. Findings

### With a run

1. `FindPartialWrites`: a task that wrote before it raised is not run again; a
   later invocation applies its partial writes (pregel/_loop.py:745).
2. `FindStaleAnswer`: the answer of a bare `Command(resume=...)` is consumed in memory
   only. An invocation with None on the same checkpoint finds it in the saver again
   and gives it to the next question of the task (pregel/_algo.py:1293).

### Met while modelling, with the settings that show them

Each line names the constants that let the module show it, and the property
that TLC then finds violated.

*Loop and runner.*
- A value that resumes an interrupt takes a place in the list of writes that a Command
  stores, and `put_writes` numbers the updates by their place. So a second Command on one
  checkpoint may store an update in a slot that is taken, and lose it with the process, or
  store it a second time in the next slot, and the invocation after that applies it twice
  (pregel/_loop.py:431): `CommandsOnce` on a single node that fails, with `Requests`
  {"input", "answer"}, `sync` and four invocations.
- A barrier's checkpoint is its live set, so a late save stores names of the next
  step (channels/named_barrier_value.py:47): `LoopJoin` with durability `async`
  violates `SnapshotExact` and `ImplementsThread`. After a crash the join is full in a
  checkpoint whose updated channels do not name it, and the index misses a node that
  a scan would find (`OptimizedEqualsScan`).
- With `exit`, a step that a channel rejected is saved half applied under the id
  of the checkpoint before it (pregel/_loop.py:1333): `LoopSends` with `exit`
  violates `SnapshotExact`. The updated channels stored with it are those of the step
  before: where the channel that was written before the rejection triggers a node,
  `OptimizedEqualsScan` fails in the invocation that resumes.
- A node of a hand-built `Pregel` that subscribes to a reducer is found by a scan on the
  first input, since a reducer is available from the start, and not by the index
  (pregel/_algo.py:475; `OptimizedEqualsScan`).
- An error handler may start before its node's error has been submitted, since the
  future is done before its callback runs (pregel/_runner.py:306):
  `HandlerAfterDurable` in `RunnerSteps`.
- With `sync` the first step of an invocation does not wait for the input
  checkpoint: the wait is at the end of the loop body (pregel/main.py:3003).
- `finish()` does not look at pending Sends, so a deferred node may run beside
  them (pregel/_algo.py:336). The graph of `LoopGraph` has no Sends.
- With `exit` the pending writes are saved on the way out under the checkpoint of that
  moment (pregel/_loop.py:1334). An invocation that loads the writes of a Command, takes
  new input and fails saves them under the input checkpoint, whose values have them
  already, and the next one applies them again: `CommandsOnce` on a single node that fails,
  with `Requests` {"input", "resume", "update"}, `Durabilities` {"async", "exit"} and four
  invocations.
- With two fatal errors `_panic_or_proceed` raises either, also one whose callback has
  not run yet, so that it is not among the pending writes; and if that is the error of
  a node with a handler, the handler does not start (pregel/_runner.py:675, 283):
  `RaisedIsCommitted` in `RunnerSteps`. `RaisedHasCause` is what is left of it.
- With a step timeout the wait for callbacks may end without them
  (pregel/_runner.py:337), and the error of a called task can hide the timeout
  (pregel/_runner.py:680). `EndsSettled`,
  `NothingForgotten` and `RaisedHasCause` therefore exclude `late`.

*Interrupts*, with `Careful` FALSE unless said otherwise.
- Two threads in `put_writes` read the same list, and the second to replace it
  drops the writes of the first (pregel/_loop.py:432). With `async` that is harmless,
  since the saver got both. With `exit` the list is what is saved: `Races` =
  {"async", "exit"} violates `OpenIsShown`, an interrupt of two is lost. For a delta
  channel the same list feeds `_exit_delta_writes`.
- A retry keeps the scratchpad, whose counter goes on: a node that fails after its
  first question and is retried gives that question the second answer, or asks
  it again (`MaxRetries` 1, `AnswersReachTarget`; pregel/_retry.py:615).
- A bare answer is taken by whichever task asks first, also one that failed before
  it asked and was not shown.
- `_pending_interrupts` counts a task that has answers as resumed, so with two
  tasks waiting, one of them for its second answer, a bare answer is accepted
  (`BareIsUnambiguous`; pregel/_loop.py:818).
- After a resumed task fails, `get_state` still shows the answered interrupt, whose
  slot nothing overwrites; answering it feeds the next question. The id of an
  interrupt is that of the task, so a repeated answer by id does the same.

*Delta channels.*
- A channel that no task has written yet counts as available (`from_checkpoint` gives it
  an empty value, channels/delta.py:118), so its counters start anew at the bound on
  supersteps (pregel/_checkpoint.py:64) although it has no version and `create_checkpoint`
  stores no snapshot of it. Until its first write a load walks every checkpoint of the
  thread, against "bounding replay depth even for channels that stop receiving writes"
  (channels/delta.py:52). `ReplayBounded` therefore counts the ancestors that have a
  version; without `ver # 0` it fails with `Silent` = {"a", "b"}, or with five inputs.
- `Threads` TRUE: a save may take the write futures of the save before it, which
  then stores its checkpoint ahead of them (`WritesFirst`; pregel/_loop.py:1538,
  against the comment at 204).
- `CleanOnly` FALSE: an input discards the unfinished tasks of a checkpoint
  (pregel/_loop.py:978), but their stored writes are replayed for its children;
  time travel and forks replay the writes of the old successors; an update on a
  checkpoint with stored writes, or one that has children, is lost or leaks, drops
  the counters and never makes a snapshot (`Rebuilt`, `ReplayBounded`).
- A resume with durability `exit` stores the write of a task that had succeeded a
  second time, under another id; a crash between the delta writes and the final
  checkpoint of an `exit` run leaves writes without it.
- Replay sorts the writes of a step by task id, `apply_writes` by task path; `Rebuilt`
  allows for that order.
- After a migration InMemorySaver skips the writes at an ancestor that holds a plain
  value, and Postgres does not begin from one; an input that forks a thread ignores
  NULL writes to a delta channel; a negative step makes `exit_delta_task_id` no valid
  UUID; a branch that `_checkpoint.py:113` calls effectively dead is reached.

*Store.*
- "begin" in `Cancels`: BEGIN is awaited outside the try whose finally commits
  (checkpoint-sqlite, store/sqlite/aio.py:230), so a caller cancelled there leaves the
  connection in a transaction for the next holder of the lock
  (`LockFindsNoTransaction`).
- The gets of one namespace are one query that refreshes the time to live of all its
  keys if one asked for it (`RenewedOnRequest`).

*Retry.* A cancellation by the runner that arrives while the loser of the race is
drained is suppressed, and the task goes on (pregel/_retry.py:478, against the
docstring at 326: `CancelStops`).

*Thread streams* (sdk-py, _async/stream.py).
- `Overlap` TRUE: the reconnect of one iterator keeps the filter it began with and may
  replace a stream that was widened in between; an iterator set up during a
  rotation may not be released (`RunEndReleases`).
- Three iterators, each with another filter: the second rotation opens its stream from
  the cursor while the stream of the first rotation still owes an older event, which the
  cursor has moved past. Closing that stream then loses the event (`Served`;
  _async/stream.py:1711, against the docstring of `_reconcile_stream`: "any events buffered
  server-side between the two opens are replayed on the new SSE").
- "early" in `Faults`: a connection that drops before it delivered anything loses what
  `observe_applied_through_seq` has moved the cursor past (`Served`).
- Read, not modelled: `close()` cancels the fan-out so that None is never pushed to
  iterators; a second interrupt of a run does not wake an iterator that is
  waiting already; a rotation that fails leaves the widened filter; `namespaces=[]`
  matches everything but is dropped from a union; a full queue stalls the fan-out;
  the watcher's count of reconnects is never reset; the synchronous controller shares
  its set of seen ids between threads.

## 6. Not modelled

Within the modelled components: cancellation of queued futures, the asyncio
runner, called tasks and subgraphs of an interrupted task, error handlers picked up
by a resume, the task cache, the shallow savers, listing and deletion, the Postgres
store, vector search, message and tool projections of the SDK. Left out
altogether, with the reasons in `PROJECT.json`: streaming inside the process,
prebuilt agents, serialisation, drawing, debug output, configuration merging (no
state), the CLI, the SDK's resources and the remote graph (files, processes and
servers outside the repository).

A large part of the repository is such code: the CLI, the prebuilt agents, the SDK's
HTTP resources and their synchronous twins make up almost half of its lines. The
map therefore covers a small share of all lines, and about half of `_algo.py`,
`_runner.py` and `_loop.py`, whose other half is largely their asyncio twins.

## 7. Plan

Next theorems:

1. `PregelLoop`: the refinement of `DurableThread`, which needs how much `apply_writes` adds
   to the log, where `ApplyProper` says what it may add.
2. `PregelLoop`: deferred joins in `DeferredNodesRunLast`, which needs the theorems on stored
   checkpoints without `NoneShared`.

Next models:

1. Subgraphs: namespaces, replay cursors, and the resume of an interrupt inside one;
   called tasks in `Interrupts`.
2. `StreamMux`: subscribers, replay buffers, close and failure.
3. The asyncio runner and cancellation of queued futures, with the executor's shutdown.
4. `update_state` of ordinary channels and `get_state`; `delete_thread`; the task cache.
5. Channel laws against reference definitions; `add_messages`; ToolNode.
