# A TLA+ model of pyWorkflowy

pyWorkflowy runs task handles, with dependencies, retries and cancellation, on named pools of
coroutines, threads and processes. This directory holds TLA+ modules translated from the package
`src/pyworkflowy`, the TLC configurations that check them on small instances, and theorems that
TLAPS proves for every value of the constants. `PROJECT.json` is the machine-readable index: the
components, the runs, the source lines every definition stands for, the hazards, the theorems.

To check a configuration: `tlc -config deps.cfg MCDispatch`. To check the proofs: `tlapm M.tla`, for `M`
one of `DispatchProofs`, `GraphProofs`, `SchedulerProofs`, `WorkersProofs`, `CheckpointProofs`, `CronProofs`,
`DedupProofs` and `ListProofs`.

## 1. Inventory

| component | state it keeps | operations | talks to |
|---|---|---|---|
| dispatch loop (`_runner.py` `arun`, `aserve`, `_run_pending`, `_readiness`) | `remaining`, `running`, `seen_ids`, `progress`; `_loop` and two asyncio events | snapshot, bind events, pass over what remains, wait, reap, drain, error path, `stop` | creates handle coroutines and waits for them; woken by `submit` and `stop` through `call_soon_threadsafe` |
| handle coroutine (`_execute_handle`) and `TaskHandle` | status, result, cancel event, attempts, retry_at | start, attempts, backoff, completion, slot release | backends; terminal hook |
| pools (`_backends.py`) | two counters per pool in the runner; the executors | capacity and reservation, `execute`, timeouts | worker threads and processes, the loop's default executor |
| submission (`submit`) | `_handles`, `_submission_order` | validate, deduplicate, check cycles, register, persist, wake | any thread |
| cancellation (`cancel`, `cancel_all`, `_notify_cancel`) | cancel events, `_aiotask` | set, then poke the loop | any thread to the loop |
| dependency graph (`_dag.py`) | none | `find_cycle`, `topo_order` | called under the runner's lock |
| deduplication | `_dedup_index` | lookup, registration, release when terminal, `find_active` | submit, terminal hook |
| persistence (`_persistence.py`) and `resume` | the file; `_resumed_results`, `_orphaned` | `save_initial`, `save_handle`, load, `resume` | called from the loop, from submitters and from workers |
| scheduler (`schedule.py`) | `_jobs`, `_started`, `_stop_event`, the thread | register, `tick`, `cancel`, `start`, `stop` | submits to the runner; subscribes to an event source |
| cron expressions | none | `parse_cron`, `matches`, `next_after` | scheduler |
| offload, progress, shutdown | the offload executor; throttle; `_shutdown` | `ctx.offload`, `update_progress`, `shutdown` | bodies of tasks |
| class-based tasks, decorator, exceptions | none | build a `Task` | |

**What is hard.** The dispatcher and the coroutines share one event loop and are atomic between two
awaits, but `submit`, `cancel`, `stop` and the workers are other threads and act at any point, the
middle of a dispatch pass included. Cancellation takes two steps (event, then a callback posted to
the loop) and means something different at each await. A coroutine has eight ways out, and each must
give back exactly the slots the dispatcher took. The dispatcher keeps three overlapping views of
the handles. Wake-ups cross threads through events that are replaced each time a loop is entered.
The list of hazards, line by line, is in `PROJECT.json`.

**What makes each component correct.** Dispatch: nothing starts before its dependencies allow it,
no handle starts twice or changes once terminal, no pool exceeds its caps, work never stalls, every
wake-up is acted on, nothing is left behind when the loop ends. Cancellation: never lost, never
followed by a retry. Graph checks: a cycle is reported exactly when there is one. Deduplication: one
live handle per key. Persistence: the file says what the runner did, after a crash too. Workers: slots
stand for threads, a call that is promised an end has one whatever bodies do, `shutdown` returns. Scheduler:
one loop ticks, a job fires at most once per due time and at most once more after its
cancellation was acknowledged, a failing job does not starve the others, no subscription outlives its
job. Cron: an expression is due at its next match, and has one.

## 2. Modules

| module | what it is |
|---|---|
| `Workflow` | the promise, with no loop, coroutine or counter: a handle waits, starts when its dependencies and the pool allow it, settles once |
| `Dispatch` | submission, dispatch loop, coroutines, pools, cancellation: the detailed specification, its properties, its refinement mapping and its inductive invariant |
| `DispatchProofs` | the theorems about `Dispatch` |
| `MCDispatch` | instances of `Dispatch` for TLC, and the statements of the docs the code departs from |
| `Scheduler` | `schedule.py`: registration, cancellation, the loop of `start()` and `stop()`, `tick()`, event handlers |
| `SchedulerProofs` | the theorems about `Scheduler` |
| `MCScheduler` | instances of `Scheduler` for TLC |
| `Cron` (`MCCron`) | the parse of cron fields, the search of `next_after`, instants and wall times |
| `CronProofs` | the theorems about `Cron` |
| `Dedup` (`MCDedup`) | deduplicated `submit` from several threads, the index, and its release by the terminal hook |
| `DedupProofs` | the theorems about `Dedup` |
| `Checkpoint` (`MCCheckpoint`) | rows written by the loop, submitters and workers into one snapshot file; failed writes, crashes, `resume` |
| `CheckpointProofs` | the theorems about `Checkpoint` |
| `Workers` (`MCWorkers`) | the threads behind the dispatcher: the default executor, the executors of the pools, budgets, `offload`, awaited handles, `shutdown` |
| `WorkersProofs` | the theorem about `Workers` |
| `CycleCheck`, `TopoOrder` | the two algorithms of `_dag.py`, one action per branch of their loops |
| `GraphChecks` | both, one after the other, on one graph |
| `GraphProofs` | the theorems about `GraphChecks`, for every graph |
| `Lists`, `ListProofs` | a list comprehension with a condition, as a recursive function, and its lemmas: elements, order, no repetition |

Definitions marked *Mutant* are variations of the definition below them. No specification uses them:
they show, one per property, a bug the property would catch.

### How Dispatch corresponds to the code

| state | in the code |
|---|---|
| `task`, `deps` | `_handles`: what each submission fixes (pool, source, kind of body, attempts, policy, whether it has a budget and a backoff delay) |
| `status`, `error`, `cancelEvent` | `TaskHandle._status`, the kind of `_result.error`, `_cancel_event` |
| `notifying` | threads between the two statements of `cancel()` |
| `phase` | where the coroutine is: `created`, at the await of an asyncio body, in an inline synchronous body, at the await of a worker, in a backoff sleep, finished |
| `aioCancel` | pending `asyncio.Task.cancel` calls: `posted` from another thread, or `called` by the error path on the loop |
| `future`, `attempts` | the worker's result; the local counter |
| `poolRunning`, `poolUnpriv` | `_pool_running`, `_pool_running_unprivileged` |
| `loop`, `mode` | where `_run_pending` is, and `serve_mode` |
| `remaining`, `seen`, `running`, `scan`, `progress` | its local variables; `scan` is what the `for` of the pass has left |
| `waking`, `posted`, `events` | threads about to call `_wake_loop`, callbacks the loop has not run, events that are set |

The dispatcher is cut where another thread can interleave: each iteration of the pass is an action
(`Postpone`, `MarkSkipped`, `MarkDepFailed`, `StartHandle`), as are the snapshot (`Enter`), the binding
of the events, the top of the loop, the end of a pass, and each return from an await (`Reap`,
`WakeUp`, `Leave`). A coroutine is cut at its awaits: an attempt that ends runs on, retry decision
included, to the next await or to the finally clause (`AttemptEnded`, `AttemptFailed`, `Exit`). A
coroutine resumes only while the dispatcher is suspended and no body runs inline (`LoopFree`). A
coroutine just created takes its first step before anything made ready after it, because the ready
queue is FIFO (`LoopSettled`).

Abstractions: times are dropped (an attempt, a budget or a backoff may end at any moment); values,
names and messages are dropped; `error` keeps the kind of exception only. `retry_on` is taken to hold
subclasses of `Exception`, as by default, so a `CancelledError` is never retried. The runner has no
checkpointer and submissions carry no deduplication key. An asyncio body may swallow a cancellation.
A cancelled inline body sees the event only if it looks, so it ends like any other. The order in which
a pass visits a set, and in which a thread's steps interleave, is nondeterministic. A loop is entered
only when none is; two loops entered at once on one runner are not modelled.

### How Scheduler corresponds to the code

`jobs`, `started`, `stopEvent` and `thread` are `_jobs`, `_started`, `_stop_event` and `_thread`; `nextFire`,
`cancelled` and `unsub` are fields of a job; `subscribed` is what the event source holds. `register`,
`cancel`, `control`, `loop`, `now` and `todo` are the places and local variables of `do()`, `cancel()`, `start()`
and `stop()`, and of the loops. The calls are cut where the lock is given up: `tick()` lists the due jobs
under it (`ListDue`), fires them one by one without it (`Fire`; `FireFails` when `submit` raises and
`FireUnscheduled` when `schedule_next` does after it, which end the tick), and drops the cancelled ones under it (`DropCancelled`). `cancel()` and `stop()` unsubscribe after
the lock. A handler looks at `cancelled` and submits in two steps of the publisher's thread. `fired` counts
submissions up to `MaxFired`; `ackFired` is a history variable.

Abstractions: the clock counts abstract units; `NextAfter` is what `Cron` computes in detail, for each
cron job and time; a job
is registered and cancelled once at most; a handler called for a cancelled job returns, which changes
nothing and is not a step. One thread calls `start()` and `stop()`, and `stop()` has no timeout. A
runner is present. `arun()`, `tick()` called by hand, `bind_tasks` and rebinding the source are not
modelled. Unsubscribing is idempotent, as the callers assume.

`Cron` takes one expression through `parse_cron` (`Parse`, malformed or not) and the loop of `next_after`, a
candidate at a time (`Advance`, `Found`, `Raise`). A field is its list of parts, read as a star, a number, a range
or none of these, with a step or without. `Days` is the calendar and `Wall` the local clock: `Wall[i]` is
`datetime.fromtimestamp` of an instant, and `FireTime` is `timestamp()` of the result. `next_after` adds minutes to a time
without a zone, which forgets that the hour is shown for the second time, so `FireTime` takes the
first showing; a time that is skipped counts from before the change. `Scheduler` needs of this only whether there is a
next time and whether it is later (`Regular`).

### How Dedup, Checkpoint and Workers correspond to the code

The dispatcher is abstracted to what each of them sees of it, and `Dispatch` leaves out what they keep;
no variable is modelled twice in detail.

`Dedup`: `order`, `index`, `keyOf`, `shutdown` are `_submission_order`, `_dedup_index`, `_dedup_key` and
`_shutdown`; `done` is whether the status is terminal. `submit()` is cut where it gives the lock up:
`LookUpFails` is the first locked block, `Register` or `RegisterRefused` the second. A look-up that finds a
live handle returns it and changes nothing. `_complete` is cut between the status and the locked block
of the hook (`Complete`, `Hook`), because `submit` and `find_active` can run there. `lookedUp` and `raced` are
history. A key is a pair of a task name and an effective key.

`Checkpoint`: a write is `ReadStatus`, `ReadResult` (the two reads of `_handle_to_entry` that matter),
`Load` with the replacement of one row, `Write` to a temporary file, `Replace` (the rename). These are the
steps of the thread that called, with no lock over them, as in the code: the loop for transitions and
completion, the thread of `submit` for the first row, a worker for progress. `_complete` sets `_result`, then
`_status`, then calls the hook; the model keeps the order. `WriteFails` is an exception in any of the
three steps, which the runner logs. `Crash` may come at any step, and `Resume` reads the file. A row
keeps its status and whether it has a result; READY, RUNNING and RETRYING are one status, and so are the
terminal statuses other than COMPLETED. Progress and `retry_at` are data. `contended`, `missed` and `saved`
are history. A submission draws an id that was never used, as `uuid4` does in practice, and so the
branch of `submit` that primes a handle is never taken. `RowsCurrent` and `SavedForGood` carry the premise
`~contended`, which the code does not enforce: the docstring of `Checkpointer` says "concurrent writers are
not supported by default" (`_persistence.py:102`), and the runner itself has several.

`Workers`: `current` is `_pool_executors`, `shut = "closing"` is `_backends_lock` held by `shutdown`, and a
coroutine that is `asking` for an executor, or was `given` one and has not yet handed its work over,
keeps the loop from everything else (`LoopFree`). `GetExecutor` is the locked look-up and `HandOver` the
`run_in_executor` after it, which has no lock: `shutdown` may close the executor in between, and an
offloaded call then raises, while an attempt raises when `execute()` submits its body (`DefaultTakes`). `defaultQ` and
`job` are the default executor of the loop, whose threads wait in `execute()` or in `_done_event.wait`;
`queue`, `body` and `on` are the executors of the pools. What `concurrent.futures` and asyncio do with queues,
cancelled futures and `shutdown` is external and modelled from how the code uses it: a queued job of the
default executor is dropped when its future is cancelled, a running one is not; an executor shut down
refuses work and finishes what it has; the future of a process may no longer be cancelled although
its body is still queued. Attempts either end or time out: retries, results and dependencies are in
`Dispatch`, and so is what the coroutine makes of an error.

`CycleCheck` and `TopoOrder` keep dependency lists as sequences, because the code treats a dependency
that is listed twice, or is unknown to the graph, in its own way.

## 3. Runs

| run | instance | shows |
|---|---|---|
| `deps` | 3 handles, one asyncio pool of 2 slots, 1 reserved; three policies; 1 cancel; `raise`; one-shot, re-entered at will | the inductive invariant, caps and reservation, the dependency gate and verdicts, what a returned run has settled, refinement of `Workflow` |
| `retry` | 2 handles, an asyncio, a thread and a process pool, up to 3 attempts, budgets, delays; 2 cancels; an interruption | exact counters on every way out, no lost cancel, retry budget, no retry once cancelled, nothing left when off; the run ends if the bodies do, and a cancelled wait settles even if its body never ends |
| `serve` | 2 handles with a retry, one asyncio slot, serve mode; submissions, stop and a cancel at any point | no stall; work submitted to a bound loop settles or the loop is left; stop ends a bound loop |
| `workers` | 2 attempts on a pool of 1 thread or process, one with a budget; an offloaded call; an awaited handle; 3 threads of the default executor; 2 cancels, shutdown at any point | only runaway bodies keep a slot's body waiting; calls that are promised an end have one; `shutdown` returns |
| `dedup` | 4 handles, 2 keys and none, 2 submitting threads, shutdown | the index is live but for the window of the hook, the newest handle of a key is found, only overlapping submissions get around it |
| `checkpoint` | 2 ids, 2 tasks; the loop, 1 submitter, 1 worker; 1 failed write, 1 crash | terminal rows are true; rows are current and stay saved while writes do not overlap |
| `scheduler` | an interval, a one-shot and an event job, two of which fail at will; 3 time units, 2 possible loops | one loop, no fire that is not due, at most one fire after an acknowledged cancel, no orphan subscription |
| `scheduler_live` | a cron job that fails at will, an interval job, a cron job that cannot be rescheduled; 3 time units | `stop()` returns; due jobs fire, a failing job notwithstanding, unless they stand behind the third; no job but it fires more often than it is due |
| `cron` | hours of 2 minutes, days of 2 hours, 5 years of 4 days, one with a leap day; the clock goes back once and forward once; 76 day fields, two choices for each of minute, month and weekday; 18 times | accepted fields are in range, but for a start with a step; what happens every year is found; a job is due at the first match, and later than now but in an hour shown for the second time |
| `dag` | all acyclic graphs on 2 ids plus a third inserted, lists up to length 2 | verdict of `find_cycle` exact, its path a real simple cycle through the new id; `topo_order` respects dependencies, and its verdict and what it leaves over are exact and agree with `find_cycle` |

Two runs violate a sentence of the docs (section 4).

**Bounds.** `Handles` bounds the submissions, `MaxCancels` the cancelled handles, `Concurrent` says
which calls other threads make while a loop is entered, `MaxDeps` the length of a dependency list;
attempts are bounded by the configurations. Three handles give chains, forks and joins, a dependency
that is cancelled while another is pending, and contention for two slots by two classes of sources.
Two handles are enough for a race between a handle in flight and one that arrives. Interference
between handles goes through dependencies and slots only, and each run has fewer slots than handles.
Handles are symmetric where no liveness is checked. The safety part of what the large runs check is
proved for all instances (section 5). Three time units let an interval
job of one unit be late by more than an interval, the branch that skips ahead. Two possible loops let
a second one start if the code allowed it. Four handles under two keys let an old handle, its successor
and a third submission meet while another key is live. Two ids and one crash let a row of the
first process survive writes of the second; two writers that overlap need only one row each. One worker per
pool and two attempts put a body behind a runaway. `DefaultThreads` is the smallest number for which
`CallsEnd` holds: one more than the awaits and the attempts without a budget. With as many as these, TLC finds an attempt
whose budget never begins, because its `execute()` waits for a thread for ever; the default executor of
asyncio has `min(32, cpus + 4)` threads, and the runner does not relate its pools to it. The small calendar keeps what the search depends on: a leap year between common ones,
a limit of one leap year, dates some years lack, weeks that do not divide years. The runs `dag`, `cron`,
`dedup`, `checkpoint` and `workers` may stop (the function returns, the handles are used up), so deadlock
is not checked there.

**Fairness.** `LoopFairness`: the event loop runs what is ready, and a thread inside a call of the
runner finishes it; both hold of asyncio and of threads that are scheduled. It is weak fairness, one
condition per handle for coroutines and passes. `BodyFairness`: bodies end. It is assumed for
`serve` and for `RunTerminates` only; `CancelSettles` is checked without it. In `Workers` the loop, the
threads and time go on; that bodies end is the premise of `ShutdownReturns` and is not assumed for `CallsEnd`.
`CancelSettles` promises nothing for a handle that waits for an asyncio body, which may swallow the
cancellation, or while a body runs inline. Nothing obliges a caller
to submit, cancel, stop or interrupt. In `Scheduler` time passes, threads run and a call of `stop()` goes on;
`DueFires` also assumes, as strong fairness, that a job tried again and again does not fail for ever. It is
assumed of each job apart, so that a job behind another in the list must survive its failures.

## 4. Findings

| run | the docs say | the code does |
|---|---|---|
| `bind_race` | `aserve` "awaits new submissions (from any thread ...) and keeps dispatching" (`_runner.py:463`) | a submission between the snapshot and `_bind_loop_events` is not in the snapshot and wakes nobody; it waits for the next submission |
| `resume_again` | "Completed tasks from the previous run won't re-execute when their handles are re-submitted" (`_runner.py:1104`; `README.md:198`) | `submit` looks for the kept result under a fresh random id (`_runner.py:430`), never finds it, and the task runs again |

Differences read in the code and not made runs: on a hard shutdown "pending work is cancelled mid-flight via
the existing cooperative cancellation machinery" (`_runner.py:470`), and the error path sets no cancel events:
a handle waiting for a worker ends FAILED and its body is not told (`_runner.py:655`). Under `"raise"` "the first
failing task's exception aborts the runner" (`README.md:170`), and a handle failed for its dependency never
raises: `run()` returns (`_runner.py:713`). `has_active` is "True iff a non-terminal handle exists" for the key
(`_runner.py:943`); it is also true of a handle that is over, before the hook, and false of the older of two that raced, once
the newer is over: `EntriesLive` and `OneLiveUnlessRaced` say how far it holds. The initial row is to make
the handle visible "right after submit()" (`_runner.py:400`); two writes that overlap lose a row, as any two writers of a
snapshot do. `checkpoint_interval` is said to limit the rate of writes (`README.md:194`) and every transition
is written. The setters of a handle are said to be "called under the runner's lock" (`_core.py:496`);
but for the priming of a resumed handle they are called without it, and the models have the steps in between (`SetResult`,
`SetStatus`, `Complete` and `Hook`). `RetryExhaustedError` ("Raised when retries are
exhausted *and* the last attempt failed", `exceptions.py:71`) is raised for any failure after a retry, attempts
left or not (`_runner.py:827`). `TaskTimeoutError` (`exceptions.py:27`) is raised for any `TimeoutError` of a
coroutine or worker body, budget or not, and is then not retried (`_backends.py:307`). `every()` is said to
be anchored to `start()` (`schedule.py:9`) and is anchored to `do()` (`schedule.py:301`). `next_after` raises when nothing matches within 366
days, which "implies a malformed expression" (`schedule.py:88`): 29 February and Friday the 13th are well formed, and a job
that has fired on such a day is submitted again at every tick, and those behind it in the list never are (`FireUnscheduled`). "Each
field is a frozenset of valid integer values" (`schedule.py:56`), and `0/40` is accepted as a day. A cron job whose next time is
computed while the clock shows an hour again, and lies in that hour, is due in the past, and fires at every tick
until no match is left in the hour (`FiresNext`). Missed fires are said
not to be backfilled (`README.md:256`), and a job due while the scheduler is stopped fires once when it
starts. Event jobs are said to fire only while the scheduler runs (`schedule.py:16`); their handlers fire
from the subscription on, and are not subscribed again after `stop()` and `start()`.

`ServedOnceWoken` is the part of the first promise that does hold: a submission that finds the loop bound.
`TerminalRowsTrue` is the part of the second: what `resume` keeps as results is true.

## 5. What is proved

Every safety property that a passing run checks is proved, for every value of the constants that the
named assumptions of its module allow. An assumption restates what the code enforces or what its
environment is.

| module | theorem | states |
|---|---|---|
| `DispatchProofs` | `TypeCorrect`, `Invariance` | `[]TypeOK`, `[]IInv` |
| | `SlotsAccounted`, `CapacityKept`, `GateKept`, `QuietAfterwards` | `[]SlotAccounting`, `[]PoolCapacity`, `[]DependencyGate`, `[]QuietWhenOff` |
| | `TerminalForever`, `NeverRestarted` | `TerminalStable`, `StartedOnce` |
| | `Refinement` | `Spec => ImplementsWorkflow` |
| | `VerdictsJustified` | `[]DependencyVerdict` |
| | `NeverGivesUp`, `SnapshotSettled` | `[]NeverStalls`, `[]RunSettlesSnapshot` |
| | `AttemptsWithinBudget`, `CancelDelivered`, `CancelEndsAttempts` | `[]RetryBudget`, `[]NoLostCancel`, `NoRetryOnceCancelled` |
| `GraphProofs` | `FindCycleVerdict`, `ReportedCycleAlwaysReal` | `[]VerdictCorrect`, `[]ReportedCycleIsReal` |
| | `DependenciesAlwaysFirst`, `ChecksAlwaysAgree` | `[]DependenciesFirst`, `[]ChecksAgree` |
| `SchedulerProofs` | `OneLoopAlways`, `NoOrphanSubscriptionAlways` | `[]OneLoop`, `[]NoOrphanSubscription` |
| | `FiresOncePerDueAlways`, `OneMoreFireAlways` | `[]FiresOncePerDue`, `[]OneMoreFire` |
| `WorkersProofs` | `QueuedBehindRunawaysAlways` | `[]QueuedBehindRunaways` |
| `CheckpointProofs` | `TerminalRowsAlwaysTrue` | `[]TerminalRowsTrue` |
| | `RowsAlwaysCurrent`, `SavedRowsStay` | `[]RowsCurrent`, `[]SavedForGood` |
| `CronProofs` | `FieldsAlwaysValid`, `FiresNextAlways`, `AnnualAlwaysFound` | `[]FieldsValid`, `[]FiresNext`, `[]AnnualFound` |
| `DedupProofs` | `EntriesLiveAlways`, `LatestFoundAlways`, `DeduplicatedUnlessRaced` | `[]EntriesLive`, `[]LatestFound`, `[]OneLiveUnlessRaced` |

Each rests on an inductive invariant, which is a theorem too (`Invariance`, `StallInvariance`, `ExecInvariance`,
`SearchInvariance`, `SortInvariance`, `SubscriptionInvariance`, `FireInvariance`, `WorkInvariance`, `TruthInvariance`,
`FreshInvariance`, `CronInvariance`, `DedupInvariance`).

**Dispatch**, for finitely many handles (`HandlesAssumption`), the pools that `Pool.__post_init__` accepts
(`PoolAssumption`) and any configuration (`ConfigAssumption`). That a counter equals the coroutines that
hold a slot needs that a coroutine is created only for a handle that has none; this needs that what
remains and is not running is not done and has no coroutine; and this needs that a coroutine ends
only by completing its handle. `ViewsAgree` states these facts about the registry, the coroutines and
the dispatcher, and `IInv` is `TypeOK /\ ViewsAgree /\ SlotAccounting /\ PoolCapacity /\ DependencyGate`. TLC checks
`IInv` in the run `deps`. Most actions move no coroutine in or out of a slot, so counting is done in
two lemmas, one for a slot taken and one for a slot given back. The refinement maps a handle with a
live coroutine to `active`: `StartHandle` is `WStart`, `Exit` is `WSettle`, the two marks are `WRefuse`, all
else stutters.

That `_run_pending` never gives up is an argument about a whole pass, so `StallInv` carries it: no set
of handles is without a member that has no dependency in the set (`Acyclic`: a submission can only
name handles that exist); what remains is closed under dependencies that have not settled
(`ClosedUnderDeps`, in spite of submissions in the middle of a pass); and a pass without progress and
with nothing in flight has left behind only handles that wait for a dependency (`PassedOver`: with nothing running,
all slots are free, so nothing else can hold a handle back). At the end of such a pass a
member without a remaining dependency would be ready, hence nothing remains. `RunState` follows a one-shot
run to its return. `ExecInv` ties the attempt counter, the worker's future and the pending cancellation to the
place of the coroutine; the steps of a coroutine are sorted into leaving, beginning an attempt,
sleeping and staying, and each kind is treated once.

**Graph checks**, for every finite graph, lists with repetitions and unknown ids included.
`SearchInv`: the gray ids are the stack, each once, each the neighbour looked at last by the one below;
what is black leads only to black and holds no cycle. A back edge therefore closes a real simple cycle,
an exhausted search has found none, and a cycle must go through the new id because the others held none.
`SortInv` counts with multiplicity: an in-degree is the number of places in the list at which a
dependency stands whose children have not been visited (`CountInv`), because `children` holds an id once
for each of these places (`ChildrenInv`). An id becomes ready when the last place is gone, so its
dependencies are before it. When nothing is ready and not all is emitted, what is left is a set in
which each id waits for another, and contains a cycle; conversely a cycle never gets started.

**Scheduler**, for all jobs, schedules and failures. `OneLoop` rests on what `stop()` joined: `LoopInv` adds that
a loop that runs is the thread `stop()` would join. It holds because `stop()` waits; `stop(wait=False)` is excluded by
the premise on `WaitOnStop`, of `OneLoop` and of the two properties of fires. `SubscriptionInv` relates the list, the subscriptions and what a tick has
still to fire: while the event source holds a handler somebody is still able to take it away. `FireInv` is an
account per job: the next time of an interval job lies at least as many periods after zero as it has
fired, plus one; a cron job has fired at most as often as its expression has times before its next
one, up to now; and what a tick lists was due when the tick began. A job
whose `cancel()` has returned is not in any list made later.

**Workers**, for all attempts, pool sizes and budgets. `WorkInv`: no more slots are held than the pool has
workers; a queue holds what waits, once, on the executor it was given to. If a body whose handle holds a slot has
no worker while all of them are busy, counting the holders shows that one worker runs a body whose handle holds none.

**Checkpoint**, for all threads and ids. `TruthInv` needs no premise: a status that is terminal is final, and its
result is set before it, so a row read with it stays true whoever carries it and in whatever order states
are renamed into place. What resists overlapping writes is this order and nothing else. `FreshInv` is what holds while
no two writes have overlapped: a loaded state differs from the file in the row to be replaced alone, and
a row may be older than its handle only if the thread that changed the handle is about to write it.
`TornAssumption` says that a half-written file is not a state; `_atomic_write_bytes` keeps it out, so `file # Torn` is proved.

**Cron**, for every calendar and clock with three properties. `SpecsAssumption`: a number in a part has no sign, as
`-` makes a range. `WallAssumption`: the times looked at begin at the earliest wall time, and what the clock
skips when it is put forward it shows at no other time; this is so of a change to summer time, not of a clock set at will.
`CalendarAssumption`: as many days in a row as are searched hold every date that all years have, which
366 days of the Gregorian calendar do, and days and minutes are counted as `FieldsOf` does. The first match is
found because the search is minute by minute (`CronInv`) and a clock that shows each of these wall times once shows
them in order (`Crossing`); a date is met at every time of day, wherever in a day the search begins (`DaysSearched`, `AtMinute`).

**Dedup**, for all handles, keys and threads. A registration finds no live handle of its key because the
look-up found none and nobody has registered one since. So `DedupInv` adds that a live handle of a key that was not
raced is the one in the index (`LiveIsIndexed`), and that a key looked up by a thread has none unless the key
was registered meanwhile (`LookUpHolds`). Completions, the hook and `shutdown` only make fewer handles live, which
one lemma (`LoopStep`) uses for all three; that the hook deletes an entry only if it is its own keeps
`LatestFound`.

**Data.** What a list keeps (`Kept`), what `FlattenSeq` puts together and which minimum exists is proved by minimal
counterexample over the natural numbers (`NatMin`), with the recursive function unfolded one step: the induction
theorems of the library take an operator as parameter, which the installed provers cannot instantiate.

**Only model-checked:** liveness under fairness, which is out of the prover's reach: `RunTerminates`, `CancelSettles`,
`ServedOnceWoken`, `StopEndsServe`, `StopReturns`, `DueFires`, `CallsEnd` and `ShutdownReturns`. ENABLED, and modules with RECURSIVE
operators, are out of its reach too. `TerminalStable` and `StartedOnce`, which follow from the refinement that
`deps` checks, are proved and not checked apart.

## 6. Plan

| module | state | left to do |
|---|---|---|
| `Dispatch`, `Dedup`, `Workers`, `Checkpoint`, `Cron`, `CycleCheck`, `TopoOrder`, `GraphChecks` | modelled, checked; safety proved | |
| `Scheduler` | modelled but for `arun()` and `tick()` by hand; safety proved | |
| all | | an abstract specification of the scheduler and of the checkpoint file, and a proof that the modules implement them; a second look at hazards without a property |

**Not modelled, and why.** Two loops entered at once on one runner: nothing in the code or the docs
says what should hold. `arun()` of the scheduler is the loop of `start()` in a coroutine, and `tick()` by
hand is for tests "instead of running the loop" (`schedule.py:529`). `bind_event_source` and `bind_tasks` set a field.
`delete_handle` and `query` of a checkpointer have no caller in the package; row-grained
backends are code of the application, and so is an event source, which `Scheduler` holds as its environment. The throttle of progress writes
drops writes that carry progress only, which is data here. `shutdown(wait=False)` skips the wait that makes `shutdown`
interesting; the context manager calls `shutdown`. Class-based tasks and the decorator build immutable configurations and keep no
state. The exceptions are values. Formats (JSON, pickle) matter to nothing stated here.
