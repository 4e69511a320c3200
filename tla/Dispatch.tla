------------------------------ MODULE Dispatch ------------------------------
(***************************************************************************)
(* The dispatch core of TaskRunner: submission of handles, the asyncio     *)
(* dispatch loop (_run_pending) in its one-shot (arun) and its daemon      *)
(* (aserve) form, the per-handle coroutine (_execute_handle) with retries, *)
(* backoff, timeouts and the pool slots, and cancel() and stop() called    *)
(* from any thread.                                                        *)
(*                                                                         *)
(* The runner modelled has no checkpointer and its submissions carry no    *)
(* deduplication key, so _persist_handle and the deduplication index do    *)
(* nothing here.                                                           *)
(*                                                                         *)
(* What runs on the event loop is atomic between two awaits.  Everything   *)
(* done by another thread (submit, cancel, stop, the worker threads)       *)
(* interleaves at any point, the middle of a dispatch pass included.       *)
(***************************************************************************)
EXTENDS Integers, FiniteSets

CONSTANTS Handles,        \* the handles submit() may create: bounds the submissions
          Pools,          \* the names of the runner's pools
          PoolKind,       \* Pool.kind, per pool
          MaxWorkers,     \* Pool.max_workers, per pool
          ReservedSlots,  \* Pool.reserved_slots once resolved, per pool
          ReserveFor,     \* Pool.reserve_for, per pool
          Sources,        \* the submission sources
          TaskConfigs,    \* the (task, source) combinations callers submit
          Modes,          \* the entry points callers use: "run", "serve"
          OnTaskError,    \* TaskRunner(on_task_error=...)
          Concurrent,     \* the calls callers make while a loop is entered: bounds Submit,
                          \* Stop and Interrupt
          MaxCancels,     \* bound on the handles cancelled by callers
          NoTask          \* stands for a handle not submitted yet

Kinds    == {"asyncio", "thread", "process", "offload"}
Policies == {"fail", "skip", "run-anyway"}

(* What one submission fixes: the options of the task and the source.      *)
(* budget: timeout is set; delay: _compute_backoff returns more than 0.    *)
TaskConfig == [pool: Pools, source: Sources, isAsync: BOOLEAN,
               maxAttempts: Nat \ {0}, policy: Policies,
               budget: BOOLEAN, delay: BOOLEAN]

ASSUME HandlesAssumption == IsFiniteSet(Handles)
ASSUME PoolAssumption ==
         /\ PoolKind \in [Pools -> Kinds]
         /\ MaxWorkers \in [Pools -> Nat \ {0}]
         /\ ReservedSlots \in [Pools -> Nat]
         /\ \A p \in Pools : ReservedSlots[p] < MaxWorkers[p]
         /\ ReserveFor \in [Pools -> SUBSET Sources]
ASSUME ConfigAssumption ==
         /\ TaskConfigs \subseteq TaskConfig
         /\ NoTask \notin TaskConfigs
         /\ Modes \subseteq {"run", "serve"}
         /\ OnTaskError \in {"raise", "log", "continue"}
         /\ Concurrent \subseteq {"submit", "stop", "interrupt"}
         /\ MaxCancels \in Nat

VARIABLES
  \* the registry of handles (TaskRunner._handles), fixed by submit()
  task,         \* handle -> its configuration, NoTask before submit()
  deps,         \* handle -> depends_on
  \* TaskHandle fields read and written by several threads
  status,       \* _status
  error,        \* the kind of error in _result
  cancelEvent,  \* _cancel_event
  notifying,    \* handles whose cancel() has set the event and not yet called _notify_cancel
  \* the coroutine _execute_handle of each handle
  phase,        \* where it is suspended
  aioCancel,    \* the cancel() calls its asyncio.Task has yet to react to
  future,       \* the worker's result for the attempt in a thread or process pool
  attempts,     \* attempts
  poolRunning,  \* _pool_running
  poolUnpriv,   \* _pool_running_unprivileged
  \* the coroutine _run_pending
  loop,         \* where it is
  mode,         \* serve_mode
  remaining,    \* remaining
  seen,         \* seen_ids
  running,      \* the keys of running
  scan,         \* the handles the current pass has still to look at
  progress,     \* progress
  outcome,      \* how the last arun()/aserve() ended
  \* signals from other threads
  waking,       \* handles whose submit() has not yet called _wake_loop
  posted,       \* call_soon_threadsafe callbacks the loop has not run yet
  events        \* the asyncio.Events that are set: "new_work", "stop"

registry   == <<task, deps>>
cancelVars == <<cancelEvent, notifying>>
slots      == <<poolRunning, poolUnpriv>>
execVars   == <<status, error, phase, aioCancel, future, attempts, slots>>
passVars   == <<remaining, seen, running, scan, progress>>
loopVars   == <<loop, mode, passVars, outcome>>
signals    == <<waking, posted, events>>
vars == <<registry, cancelVars, execVars, loopVars, signals>>

TerminalStatuses == {"COMPLETED", "FAILED", "CANCELLED", "SKIPPED"}
Statuses == {"PENDING", "READY", "RUNNING", "RETRYING"} \cup TerminalStatuses
Errors   == {"none", "body", "exhausted", "timeout", "cancelled", "interrupted",
             "dependency"}
Phases   == {"none", "created", "async", "inline", "pool", "backoff", "finished"}
Loops    == {"off", "snap", "top", "scan", "wait", "idle", "drain", "abort"}

(* The outcomes of one attempt: "error" matches retry_on, "fatal" does     *)
(* not, "cancel" is the body raising TaskCancelledError, "timeout" is what *)
(* the backend turns into TaskTimeoutError.                                *)
Results == {"ok", "error", "fatal", "cancel", "timeout"}

-----------------------------------------------------------------------------
Registered == {h \in Handles : task[h] # NoTask}
Done(h)    == status[h] \in TerminalStatuses
PoolOf(h)  == task[h].pool

IsPrivileged(h) == \/ ReserveFor[PoolOf(h)] = {}
                   \/ task[h].source \in ReserveFor[PoolOf(h)]
UnprivilegedCap(p) == MaxWorkers[p] - ReservedSlots[p]

(* The two parts of the readiness decision: the dependencies first, then   *)
(* the capacity of the pool.                                               *)
DepsDone(h)    == \A d \in deps[h] : Done(d)
FailedDeps(h)  == {d \in deps[h] : status[d] # "COMPLETED"}

(* Mutants: one coroutine too many; the reservation forgotten.             *)
HasCapacityOffByOne(h)  == poolRunning[PoolOf(h)] <= MaxWorkers[PoolOf(h)]
HasCapacityUnreserved(h) == poolRunning[PoolOf(h)] < MaxWorkers[PoolOf(h)]

HasCapacity(h) == /\ poolRunning[PoolOf(h)] < MaxWorkers[PoolOf(h)]
                  /\ \/ IsPrivileged(h)
                     \/ poolUnpriv[PoolOf(h)] < UnprivilegedCap(PoolOf(h))

(* Mutants: only a FAILED dependency counts as failed; a failed dependency *)
(* decides before the others are done.                                     *)
ReadinessFailedOnly(h) ==
  IF Done(h) THEN "skip"
  ELSE IF ~DepsDone(h) THEN "wait"
  ELSE IF task[h].policy # "run-anyway" /\ \E d \in deps[h] : status[d] = "FAILED"
  THEN task[h].policy
  ELSE IF HasCapacity(h) THEN "go" ELSE "wait"
ReadinessFailFast(h) ==
  IF Done(h) THEN "skip"
  ELSE IF task[h].policy # "run-anyway" /\ \E d \in FailedDeps(h) : Done(d)
  THEN task[h].policy
  ELSE IF DepsDone(h) /\ HasCapacity(h) THEN "go" ELSE "wait"

Readiness(h) ==
  CASE Done(h)        -> "skip"
    [] ~Done(h) /\ ~DepsDone(h) -> "wait"
    [] ~Done(h) /\ DepsDone(h)  ->
         IF FailedDeps(h) # {} /\ task[h].policy # "run-anyway"
         THEN task[h].policy
         ELSE IF HasCapacity(h) THEN "go" ELSE "wait"

(* A synchronous body on an asyncio pool runs inline and blocks the loop.  *)
AttemptPhase(h) ==
  IF PoolKind[PoolOf(h)] # "asyncio" THEN "pool"
  ELSE IF task[h].isAsync THEN "async" ELSE "inline"

(* An inline body can only time out against its budget, measured once it   *)
(* returns; everywhere else a TimeoutError raised by the body itself is    *)
(* taken for the expiry of the budget too.                                 *)
ResultsOf(h) ==
  {r \in Results : r = "timeout" => (AttemptPhase(h) # "inline" \/ task[h].budget)}

(* The event loop is free to run a callback or resume a coroutine: the     *)
(* dispatcher is suspended at an await or gone, and no body runs inline.   *)
LoopFree == /\ loop \in {"wait", "idle", "drain", "abort"}
            /\ \A h \in Handles : phase[h] # "inline"
(* The ready queue of the loop is FIFO: a coroutine just created takes its *)
(* first step before anything that is made ready after it.                 *)
NoneCreated == \A h \in Handles : phase[h] # "created"
LoopSettled == LoopFree /\ NoneCreated

Settled(h) == phase[h] \in {"none", "finished"}
Raised(h)  == OnTaskError = "raise" /\ phase[h] = "finished" /\ status[h] = "FAILED"

-----------------------------------------------------------------------------
Init ==
  /\ task = [h \in Handles |-> NoTask] /\ deps = [h \in Handles |-> {}]
  /\ status = [h \in Handles |-> "PENDING"] /\ error = [h \in Handles |-> "none"]
  /\ cancelEvent = [h \in Handles |-> FALSE] /\ notifying = {}
  /\ phase = [h \in Handles |-> "none"]
  /\ aioCancel = [h \in Handles |-> {}]
  /\ future = [h \in Handles |-> "none"]
  /\ attempts = [h \in Handles |-> 0]
  /\ poolRunning = [p \in Pools |-> 0] /\ poolUnpriv = [p \in Pools |-> 0]
  /\ loop = "off" /\ mode = "run" /\ outcome = "none"
  /\ remaining = {} /\ seen = {} /\ running = {} /\ scan = {} /\ progress = FALSE
  /\ waking = {} /\ posted = {} /\ events = {}

-----------------------------------------------------------------------------
(* Any thread: submit, stop, cancel.                                       *)

(* submit() up to the end of its locked section.  The new handle cannot    *)
(* close a cycle: only handles that exist can be named as dependencies.    *)
Submit(h, c, D) ==
  /\ task[h] = NoTask
  /\ loop = "off" \/ "submit" \in Concurrent
  /\ PoolKind[c.pool] # "offload"
  /\ c.isAsync => PoolKind[c.pool] = "asyncio"
  /\ D \subseteq Registered
  /\ task' = [task EXCEPT ![h] = c]
  /\ deps' = [deps EXCEPT ![h] = D]
  /\ waking' = waking \cup {h}
  /\ UNCHANGED <<cancelVars, execVars, loopVars, posted, events>>

(* The event loop and its events exist once _bind_loop_events has run; a   *)
(* callback posted to a loop that has ended is dropped.                    *)
Bound == loop \notin {"off", "snap"}

(* Mutant: only an idle loop is woken.                                     *)
WakeLoopIfIdle(h) ==
  /\ h \in waking
  /\ waking' = waking \ {h}
  /\ posted' = IF loop = "idle" THEN posted \cup {"new_work"} ELSE posted
  /\ UNCHANGED <<registry, cancelVars, execVars, loopVars, events>>

(* The _wake_loop() that ends submit().                                    *)
WakeLoop(h) ==
  /\ h \in waking
  /\ waking' = waking \ {h}
  /\ posted' = IF Bound THEN posted \cup {"new_work"} ELSE posted
  /\ UNCHANGED <<registry, cancelVars, execVars, loopVars, events>>

(* stop() on a bound loop: elsewhere it is a no-op.                        *)
Stop ==
  /\ Bound /\ "stop" \in Concurrent
  /\ "stop" \notin posted \cup events
  /\ posted' = posted \cup {"stop"}
  /\ UNCHANGED <<registry, cancelVars, execVars, loopVars, waking, events>>

(* cancel() sets the event; it answers False on a handle that is done or   *)
(* has the event set.                                                      *)
Cancel(h) ==
  /\ h \in Registered /\ ~Done(h) /\ ~cancelEvent[h]
  /\ Cardinality({k \in Handles : cancelEvent[k]}) < MaxCancels
  /\ cancelEvent' = [cancelEvent EXCEPT ![h] = TRUE]
  /\ notifying' = notifying \cup {h}
  /\ UNCHANGED <<registry, execVars, loopVars, signals>>

(* Mutant: only a coroutine awaiting its body is poked.                    *)
NotifyCancelBody(h) ==
  /\ h \in notifying
  /\ notifying' = notifying \ {h}
  /\ aioCancel' = IF phase[h] # "async" THEN aioCancel
                  ELSE [aioCancel EXCEPT ![h] = @ \cup {"posted"}]
  /\ UNCHANGED <<registry, cancelEvent, status, error, phase, future, attempts,
                 slots, loopVars, signals>>

(* _notify_cancel: post aiotask.cancel to the loop, if there is a live     *)
(* asyncio task to cancel.                                                 *)
NotifyCancel(h) ==
  /\ h \in notifying
  /\ notifying' = notifying \ {h}
  /\ aioCancel' = IF Settled(h) THEN aioCancel
                  ELSE [aioCancel EXCEPT ![h] = @ \cup {"posted"}]
  /\ UNCHANGED <<registry, cancelEvent, status, error, phase, future, attempts,
                 slots, loopVars, signals>>

(* The loop runs a posted event.set.                                       *)
SetEvent(e) ==
  /\ LoopFree
  /\ e \in posted
  /\ posted' = posted \ {e}
  /\ events' = events \cup {e}
  /\ UNCHANGED <<registry, cancelVars, execVars, loopVars, waking>>

-----------------------------------------------------------------------------
(* The coroutine of a handle: _execute_handle and the backends.            *)

Complete(h, s, e) == /\ status' = [status EXCEPT ![h] = s]
                     /\ error'  = [error EXCEPT ![h] = e]

(* Mutants: a finally clause that covers only the attempts; one that       *)
(* releases an unprivileged slot for every source.                         *)
ReleaseSlotIfStarted(h) ==
  /\ poolRunning' = IF attempts[h] = 0 THEN poolRunning
                    ELSE [poolRunning EXCEPT ![PoolOf(h)] = @ - 1]
  /\ UNCHANGED poolUnpriv
ReleaseSlotOfAnyone(h) ==
  /\ poolRunning' = [poolRunning EXCEPT ![PoolOf(h)] = @ - 1]
  /\ poolUnpriv' = [poolUnpriv EXCEPT ![PoolOf(h)] = @ - 1]

(* The finally clause of _execute_handle.                                  *)
ReleaseSlot(h) ==
  LET p == PoolOf(h) IN
  /\ poolRunning' = IF poolRunning[p] > 0
                    THEN [poolRunning EXCEPT ![p] = @ - 1] ELSE poolRunning
  /\ poolUnpriv' = IF ~IsPrivileged(h) /\ poolUnpriv[p] > 0
                   THEN [poolUnpriv EXCEPT ![p] = @ - 1] ELSE poolUnpriv

(* The coroutine completes the handle, releases its slot and ends.         *)
Exit(h, s, e) ==
  /\ Complete(h, s, e)
  /\ ReleaseSlot(h)
  /\ phase' = [phase EXCEPT ![h] = "finished"]
  /\ aioCancel' = [aioCancel EXCEPT ![h] = {}]
  /\ future' = [future EXCEPT ![h] = "none"]
  /\ UNCHANGED attempts

(* The head of the attempt loop, up to the point where the body runs.      *)
StartAttempt(h) ==
  /\ attempts' = [attempts EXCEPT ![h] = @ + 1]
  /\ status' = [status EXCEPT ![h] = IF attempts[h] = 0 THEN "RUNNING" ELSE "RETRYING"]
  /\ phase' = [phase EXCEPT ![h] = AttemptPhase(h)]
  /\ future' = [future EXCEPT ![h] = IF AttemptPhase(h) = "pool" THEN "pending" ELSE "none"]
  /\ UNCHANGED <<error, aioCancel, slots>>

(* The error a failed handle carries.                                      *)
FailureOf(h, e) == IF attempts[h] > 1 THEN "exhausted" ELSE e

(* Mutants: one attempt too many; the cancel event is not looked at.       *)
AttemptFailedOffByOne(h, retryable) ==
  IF ~retryable \/ attempts[h] > task[h].maxAttempts
  THEN Exit(h, "FAILED", FailureOf(h, "body"))
  ELSE StartAttempt(h)
AttemptFailedAnyway(h, retryable) ==
  IF ~retryable \/ attempts[h] >= task[h].maxAttempts
  THEN Exit(h, "FAILED", FailureOf(h, "body"))
  ELSE StartAttempt(h)

(* What the coroutine does with an attempt that raised an ordinary error.  *)
AttemptFailed(h, retryable) ==
  IF cancelEvent[h] THEN Exit(h, "CANCELLED", "cancelled")
  ELSE IF ~retryable \/ attempts[h] >= task[h].maxAttempts
  THEN Exit(h, "FAILED", FailureOf(h, "body"))
  ELSE IF task[h].delay
  THEN /\ phase' = [phase EXCEPT ![h] = "backoff"]
       /\ future' = [future EXCEPT ![h] = "none"]
       /\ UNCHANGED <<status, error, aioCancel, attempts, slots>>
  ELSE StartAttempt(h)

AttemptEnded(h, r) ==
  CASE r = "ok"      -> Exit(h, "COMPLETED", "none")
    [] r = "cancel"  -> Exit(h, "CANCELLED", "cancelled")
    [] r = "timeout" -> Exit(h, "FAILED", "timeout")
    [] r = "error"   -> AttemptFailed(h, TRUE)
    [] r = "fatal"   -> AttemptFailed(h, FALSE)

(* The first step: a handle cancelled before it starts never runs.         *)
BeginExecute(h) ==
  /\ LoopFree
  /\ phase[h] = "created"
  /\ IF cancelEvent[h] THEN Exit(h, "CANCELLED", "cancelled") ELSE StartAttempt(h)
  /\ UNCHANGED <<registry, cancelVars, loopVars, signals>>

(* The body of a coroutine function ends on its own; a timeout sets the    *)
(* cancel event on the way.                                                *)
AsyncBodyEnds(h, r) ==
  /\ LoopSettled
  /\ phase[h] = "async" /\ "called" \notin aioCancel[h]
  /\ r \in ResultsOf(h)
  /\ AttemptEnded(h, r)
  /\ cancelEvent' = [cancelEvent EXCEPT ![h] = @ \/ r = "timeout"]
  /\ UNCHANGED <<registry, notifying, loopVars, signals>>

(* A synchronous body on an asyncio pool returns or raises.                *)
InlineBodyEnds(h, r) ==
  /\ phase[h] = "inline"
  /\ r \in ResultsOf(h)
  /\ AttemptEnded(h, r)
  /\ UNCHANGED <<registry, cancelVars, loopVars, signals>>

(* A worker thread settles the future of the attempt; the thread backend   *)
(* sets the cancel event when the budget expires, the process one does not.*)
WorkerEnds(h, r) ==
  /\ phase[h] = "pool" /\ future[h] = "pending"
  /\ r \in ResultsOf(h)
  /\ future' = [future EXCEPT ![h] = r]
  /\ cancelEvent' = [cancelEvent EXCEPT ![h] =
                       @ \/ (r = "timeout" /\ PoolKind[PoolOf(h)] = "thread")]
  /\ UNCHANGED <<registry, notifying, status, error, phase, aioCancel, attempts,
                 slots, loopVars, signals>>

(* The coroutine resumes from `await future`.                              *)
PoolResumes(h) ==
  /\ LoopSettled
  /\ phase[h] = "pool" /\ future[h] \in Results /\ "called" \notin aioCancel[h]
  /\ AttemptEnded(h, future[h])
  /\ UNCHANGED <<registry, cancelVars, loopVars, signals>>

(* The coroutine resumes from the backoff sleep.                           *)
BackoffEnds(h) ==
  /\ LoopSettled
  /\ phase[h] = "backoff" /\ "called" \notin aioCancel[h]
  /\ StartAttempt(h)
  /\ UNCHANGED <<registry, cancelVars, loopVars, signals>>

(* asyncio.Task.cancel() throws CancelledError at the await.  An async     *)
(* body may swallow it.  A wait for a worker counts as cancelled only if   *)
(* the handle has been: the error path of the dispatcher cancels the       *)
(* asyncio task alone.                                                     *)
ThrowCancelled(h) ==
  /\ LoopSettled
  /\ aioCancel[h] # {}
  /\ \/ /\ phase[h] \in {"async", "backoff"}
        /\ cancelEvent' = [cancelEvent EXCEPT ![h] = TRUE]
        /\ Exit(h, "CANCELLED", "cancelled")
     \/ /\ phase[h] = "async"
        /\ aioCancel' = [aioCancel EXCEPT ![h] = IF "called" \in @ THEN @ \ {"called"} ELSE {}]
        /\ UNCHANGED <<cancelEvent, status, error, phase, future, attempts, slots>>
     \/ /\ phase[h] = "pool" /\ cancelEvent[h]
        /\ Exit(h, "CANCELLED", "cancelled")
        /\ UNCHANGED cancelEvent
     \/ /\ phase[h] = "pool" /\ ~cancelEvent[h]
        /\ Exit(h, "FAILED", FailureOf(h, "interrupted"))
        /\ UNCHANGED cancelEvent
  /\ UNCHANGED <<registry, notifying, loopVars, signals>>

-----------------------------------------------------------------------------
(* The dispatcher: arun, aserve and _run_pending.                          *)

Unfinished == {h \in running : phase[h] # "finished"}

(* Mutant: the snapshot takes the handles that are done.                   *)
PendingAll == Registered

Pending == {h \in Registered : ~Done(h)}

(* arun()/aserve(): the snapshot under the lock ...                        *)
Enter(m) ==
  /\ loop = "off" /\ (waking = {} \/ "submit" \in Concurrent)
  /\ loop' = "snap" /\ mode' = m /\ outcome' = "none"
  /\ remaining' = Pending /\ seen' = Pending
  /\ running' = {} /\ scan' = {} /\ progress' = FALSE
  /\ UNCHANGED <<registry, cancelVars, execVars, signals>>

(* ... then _bind_loop_events, with fresh events.                          *)
BindLoopEvents ==
  /\ loop = "snap"
  /\ loop' = "top"
  /\ posted' = {} /\ events' = {}
  /\ UNCHANGED <<registry, cancelVars, execVars, mode, passVars, outcome, waking>>

(* Top of the loop: leave on stop, else pull in new submissions and start  *)
(* a pass over what remains.                                               *)
StopSeen == mode = "serve" /\ "stop" \in events

ObserveStop ==
  /\ loop = "top" /\ StopSeen
  /\ loop' = "drain"
  /\ UNCHANGED <<registry, cancelVars, execVars, mode, passVars, outcome, signals>>

BeginPass ==
  /\ loop = "top" /\ ~StopSeen
  /\ LET rescan  == mode = "serve" /\ "new_work" \in events
         arrived == IF rescan THEN Pending \ seen ELSE {}
     IN  /\ events' = IF rescan THEN events \ {"new_work"} ELSE events
         /\ remaining' = remaining \cup arrived
         /\ seen' = seen \cup arrived
         /\ scan' = remaining' \ running
  /\ loop' = "scan" /\ progress' = FALSE
  /\ UNCHANGED <<registry, cancelVars, execVars, mode, running, outcome, waking, posted>>

(* One iteration of the pass: the handle waits, is marked, or is started.  *)
Postpone(h) ==
  /\ loop = "scan" /\ h \in scan
  /\ Readiness(h) = "wait"
  /\ scan' = scan \ {h}
  /\ UNCHANGED <<registry, cancelVars, execVars, loop, mode, remaining, seen,
                 running, progress, outcome, signals>>

(* _mark_skipped and _mark_dep_failed.                                     *)
Resolve(h, r, s, e) ==
  /\ loop = "scan" /\ h \in scan
  /\ Readiness(h) = r
  /\ Complete(h, s, e)
  /\ remaining' = remaining \ {h}
  /\ scan' = scan \ {h} /\ progress' = TRUE
  /\ UNCHANGED <<registry, cancelVars, phase, aioCancel, future, attempts, slots,
                 loop, mode, seen, running, outcome, signals>>

MarkSkipped(h)   == Resolve(h, "skip", "SKIPPED", "none")
MarkDepFailed(h) == Resolve(h, "fail", "FAILED", "dependency")

StartHandle(h) ==
  /\ loop = "scan" /\ h \in scan
  /\ Readiness(h) = "go"
  /\ status' = [status EXCEPT ![h] = "READY"]
  /\ poolRunning' = [poolRunning EXCEPT ![PoolOf(h)] = @ + 1]
  /\ poolUnpriv' = IF IsPrivileged(h) THEN poolUnpriv
                   ELSE [poolUnpriv EXCEPT ![PoolOf(h)] = @ + 1]
  /\ phase' = [phase EXCEPT ![h] = "created"]
  /\ running' = running \cup {h}
  /\ scan' = scan \ {h} /\ progress' = TRUE
  /\ UNCHANGED <<registry, cancelVars, error, aioCancel, future, attempts,
                 loop, mode, remaining, seen, outcome, signals>>

(* Mutants: a pass that started nothing ends the run; a one-shot run that  *)
(* waits for more work.                                                    *)
AfterPassGivesUp ==
  IF running # {} THEN "wait" ELSE IF mode = "serve" THEN "idle" ELSE "drain"
AfterPassIdles ==
  IF running # {} THEN "wait" ELSE IF remaining # {} /\ progress THEN "top" ELSE "idle"

(* What the loop waits for after a pass.                                   *)
AfterPass ==
  IF running # {} THEN "wait"
  ELSE IF remaining # {} /\ progress THEN "top"
  ELSE IF mode = "serve" THEN "idle"
  ELSE IF remaining # {} THEN "abort" ELSE "drain"

EndPass ==
  /\ loop = "scan" /\ scan = {}
  /\ loop' = AfterPass
  /\ UNCHANGED <<registry, cancelVars, execVars, mode, passVars, outcome, signals>>

(* The error path: cancel what is in flight, then wait for it.             *)
CancelInFlight ==
  aioCancel' = [h \in Handles |-> IF h \in Unfinished THEN {"called"} ELSE aioCancel[h]]

(* asyncio.wait returns the coroutines that have ended.                    *)
Reap ==
  /\ loop = "wait" /\ LoopSettled
  /\ LET ended == running \ Unfinished IN
     /\ ended # {}
     /\ remaining' = remaining \ ended
     /\ running' = Unfinished
     /\ IF mode = "run" /\ \E h \in ended : Raised(h)
        THEN loop' = "abort" /\ CancelInFlight
        ELSE loop' = "top" /\ UNCHANGED aioCancel
  /\ UNCHANGED <<registry, cancelVars, status, error, phase, future, attempts, slots,
                 mode, seen, scan, progress, outcome, signals>>

(* Mutant: an idle loop waits for new work alone.                          *)
WakeUpOnNewWork ==
  /\ loop = "idle"
  /\ "new_work" \in events
  /\ loop' = "top"
  /\ UNCHANGED <<registry, cancelVars, execVars, mode, passVars, outcome, signals>>

(* _wait_for_new_work_or_stop returns.                                     *)
WakeUp ==
  /\ loop = "idle"
  /\ events # {}
  /\ loop' = IF "stop" \in events THEN "drain" ELSE "top"
  /\ UNCHANGED <<registry, cancelVars, execVars, mode, passVars, outcome, signals>>

(* The caller cancels arun()/aserve(): CancelledError at its await.        *)
Interrupt ==
  /\ LoopSettled /\ "interrupt" \in Concurrent
  /\ loop \in {"wait", "idle"} \/ (loop = "drain" /\ running # {})
  /\ loop' = "abort" /\ CancelInFlight
  /\ UNCHANGED <<registry, cancelVars, status, error, phase, future, attempts, slots,
                 mode, passVars, outcome, signals>>

(* Mutant: nobody waits for the coroutines in flight.                      *)
LeaveAtOnce ==
  /\ loop \in {"drain", "abort"} /\ LoopSettled
  /\ loop' = "off"
  /\ outcome' = IF loop = "drain" THEN "returned" ELSE "raised"
  /\ UNCHANGED <<registry, cancelVars, execVars, mode, passVars, signals>>

(* gather() has collected the last coroutine.                              *)
Leave ==
  /\ loop \in {"drain", "abort"} /\ LoopSettled
  /\ Unfinished = {}
  /\ loop' = "off"
  /\ outcome' = IF loop = "drain" THEN "returned" ELSE "raised"
  /\ UNCHANGED <<registry, cancelVars, execVars, mode, passVars, signals>>

-----------------------------------------------------------------------------
SubmitSome == \E h \in Handles, c \in TaskConfigs : \E D \in SUBSET Registered : Submit(h, c, D)

CallerStep(h) == WakeLoop(h) \/ Cancel(h) \/ NotifyCancel(h)

AwaitStep(h) == BeginExecute(h) \/ PoolResumes(h) \/ BackoffEnds(h) \/ ThrowCancelled(h)
BodyStep(h)  == \E r \in Results : AsyncBodyEnds(h, r) \/ InlineBodyEnds(h, r) \/ WorkerEnds(h, r)
PassStep(h)  == Postpone(h) \/ MarkSkipped(h) \/ MarkDepFailed(h) \/ StartHandle(h)

LoopStep == BindLoopEvents \/ ObserveStop \/ BeginPass \/ EndPass \/ Reap \/ WakeUp \/ Leave

Next ==
  \/ SubmitSome
  \/ \E h \in Handles : CallerStep(h) \/ AwaitStep(h) \/ BodyStep(h) \/ PassStep(h)
  \/ \E e \in {"new_work", "stop"} : SetEvent(e)
  \/ \E m \in Modes : Enter(m)
  \/ Stop
  \/ LoopStep
  \/ Interrupt

Spec == Init /\ [][Next]_vars

(* The event loop keeps running what is ready, a thread inside a call of   *)
(* the runner finishes it, and the bodies of tasks end.  Nothing obliges a *)
(* caller to submit, cancel, stop or interrupt.                            *)
LoopFairness == /\ WF_vars(LoopStep)
                /\ \A e \in {"new_work", "stop"} : WF_vars(SetEvent(e))
                /\ \A h \in Handles : /\ WF_vars(AwaitStep(h))
                                      /\ WF_vars(PassStep(h))
                                      /\ WF_vars(WakeLoop(h))
                                      /\ WF_vars(NotifyCancel(h))
BodyFairness == \A h \in Handles : WF_vars(BodyStep(h))

FairSpec == Spec /\ LoopFairness /\ BodyFairness

-----------------------------------------------------------------------------
TypeOK ==
  /\ task \in [Handles -> TaskConfigs \cup {NoTask}]
  /\ deps \in [Handles -> SUBSET Handles]
  /\ status \in [Handles -> Statuses]
  /\ error \in [Handles -> Errors]
  /\ cancelEvent \in [Handles -> BOOLEAN]
  /\ notifying \subseteq Handles
  /\ phase \in [Handles -> Phases]
  /\ aioCancel \in [Handles -> SUBSET {"posted", "called"}]
  /\ future \in [Handles -> Results \cup {"none", "pending"}]
  /\ attempts \in [Handles -> Nat]
  /\ poolRunning \in [Pools -> Nat] /\ poolUnpriv \in [Pools -> Nat]
  /\ loop \in Loops /\ mode \in {"run", "serve"} /\ outcome \in {"none", "returned", "raised"}
  /\ remaining \subseteq Handles /\ seen \subseteq Handles
  /\ running \subseteq Handles /\ scan \subseteq Handles
  /\ progress \in BOOLEAN
  /\ waking \subseteq Handles
  /\ posted \subseteq {"new_work", "stop"} /\ events \subseteq {"new_work", "stop"}

(* What holds a slot of a pool: a coroutine that has been created and has  *)
(* not ended, backoff sleeps included.                                     *)
Holds(h) == ~Settled(h)
Holders(p)       == {h \in Handles : Holds(h) /\ PoolOf(h) = p}
UnprivHolders(p) == {h \in Holders(p) : ~IsPrivileged(h)}

(* The two counters of a pool are the number of coroutines, and of         *)
(* unprivileged ones, that hold a slot of it: _execute_handle gives back   *)
(* exactly what the dispatcher took, on every way out.                     *)
SlotAccounting ==
  \A p \in Pools : /\ poolRunning[p] = Cardinality(Holders(p))
                   /\ poolUnpriv[p] = Cardinality(UnprivHolders(p))

(* A pool never has more than max_workers coroutines in flight, nor more   *)
(* unprivileged ones than the reservation leaves them: a privileged source *)
(* always finds its reserved slots.                                        *)
PoolCapacity ==
  \A p \in Pools : /\ Cardinality(Holders(p)) <= MaxWorkers[p]
                   /\ Cardinality(UnprivHolders(p)) <= UnprivilegedCap(p)

(* A handle that was started had all its dependencies settled then, and    *)
(* they still are: COMPLETED, or any terminal status under run-anyway.     *)
DependencyGate ==
  \A h \in Handles : phase[h] # "none" =>
    /\ DepsDone(h)
    /\ FailedDeps(h) # {} => task[h].policy = "run-anyway"

(* A handle is skipped or failed for its dependencies only by its policy,  *)
(* for a dependency that really did not complete, and without ever having  *)
(* been started.                                                           *)
DependencyVerdict ==
  \A h \in Handles :
    /\ status[h] = "SKIPPED" => task[h].policy = "skip"
    /\ error[h] = "dependency" => task[h].policy = "fail"
    /\ (status[h] = "SKIPPED" \/ error[h] = "dependency") =>
         DepsDone(h) /\ FailedDeps(h) # {} /\ phase[h] = "none"

(* A terminal status and its error never change: no late worker, cancel,   *)
(* second pass or second run touches a handle that is done.                *)
TerminalStable ==
  [][\A h \in Handles : Done(h) => status'[h] = status[h] /\ error'[h] = error[h]]_vars

(* A handle gets at most one coroutine in its life, whatever the passes,   *)
(* rescans and runs that see it.                                           *)
StartedOnce ==
  [][\A h \in Handles : phase[h] \notin {"none", "created"} => phase'[h] # "created"]_vars

(* cancel() is never lost on a handle that waits in a backoff or for a     *)
(* worker: a CancelledError is on its way, or its cancel() call is about   *)
(* to send it, or the expired budget set the event.                        *)
NoLostCancel ==
  \A h \in Handles : cancelEvent[h] /\ phase[h] \in {"backoff", "pool"} =>
    aioCancel[h] # {} \/ h \in notifying \/ future[h] = "timeout"

(* An attempt that ends once the cancel event is set is the last one, even *)
(* if it failed with a retryable error.                                    *)
NoRetryOnceCancelled ==
  [][\A h \in Handles : cancelEvent[h] /\ phase[h] \in {"async", "inline", "pool"} =>
       attempts'[h] = attempts[h] /\ phase'[h] # "backoff"]_vars

(* No handle gets more attempts than it was configured with, nor sleeps    *)
(* before an attempt it will not make.                                     *)
RetryBudget ==
  \A h \in Registered : /\ attempts[h] <= task[h].maxAttempts
                        /\ phase[h] = "backoff" => attempts[h] < task[h].maxAttempts

(* When arun()/aserve() is over, by return or by exception, no coroutine   *)
(* of a handle is left behind holding a slot.                              *)
QuietWhenOff == loop = "off" => \A h \in Handles : Settled(h)

(* A one-shot run that returns has settled every handle that was pending   *)
(* when it began, and under on_task_error="raise" none of those it         *)
(* executed had failed.                                                    *)
RunSettlesSnapshot ==
  outcome = "returned" /\ mode = "run" => \A h \in seen : Done(h) /\ ~Raised(h)

(* The dispatcher never gives up or goes idle with work left: what it      *)
(* tracks is closed under dependencies and slots are not lost, so some     *)
(* handle can always move.  (The "Runner deadlocked" error is unreachable.)*)
NeverStalls ==
  loop = "scan" /\ scan = {} /\ AfterPass \in {"idle", "abort"} => remaining = {}

(* A one-shot run ends, provided that the bodies of its tasks do.          *)
RunTerminates == BodyFairness => ((mode = "run" /\ loop # "off") ~> loop = "off")

(* A handle submitted while the serve loop is bound settles, or the loop   *)
(* is left.                                                                *)
ServedOnceWoken ==
  \A h \in Handles :
    (h \in waking /\ mode = "serve" /\ Bound) ~> (Done(h) \/ loop = "off")

(* stop() on a bound serve loop ends it.                                   *)
StopEndsServe ==
  (mode = "serve" /\ Bound /\ "stop" \in posted \cup events) ~> loop = "off"

(* Cancelling a handle that waits for a worker or in a backoff settles it, *)
(* whether or not its body in the worker ever ends.  Two things can still  *)
(* keep it: its own coroutine, if the backoff ends first and it swallows   *)
(* the cancellation, and an inline body that keeps the loop.               *)
Kept(h) == phase[h] = "async" \/ \E g \in Handles : phase[g] = "inline"
CancelSettles ==
  \A h \in Handles :
    (cancelEvent[h] /\ phase[h] \in {"backoff", "pool"}) ~> (Done(h) \/ Kept(h))

-----------------------------------------------------------------------------
(* The refinement: a handle is active while it has a live coroutine.       *)
HandleState ==
  [h \in Handles |-> IF task[h] = NoTask THEN "absent"
                     ELSE IF Done(h) THEN status[h]
                     ELSE IF phase[h] = "none" THEN "waiting" ELSE "active"]

W == INSTANCE Workflow WITH state <- HandleState

(* The dispatch loop, its coroutines and its counters implement the        *)
(* promise of Workflow: every step is one of its steps or invisible.       *)
ImplementsWorkflow == W!WSpec

(* The specification with the loop's fairness alone: bodies may never end. *)
LoopFairSpec == Spec /\ LoopFairness

-----------------------------------------------------------------------------
(* Why it works: the registry, the coroutines and the three sets of the    *)
(* dispatcher agree.                                                       *)
RegistryAgrees ==
  \A h \in Handles :
    /\ task[h] = NoTask => status[h] = "PENDING" /\ phase[h] = "none"
    /\ deps[h] \subseteq Registered
CoroutinesAgree ==
  \A h \in Handles : /\ Holds(h) => h \in running /\ ~Done(h)
                     /\ phase[h] = "finished" => Done(h)
DispatcherAgrees ==
  /\ remaining \subseteq Registered
  /\ loop # "off" => \A h \in remaining \ running : ~Done(h)
  /\ loop = "scan" => scan \subseteq remaining \ running
  /\ loop \in {"off", "snap"} => \A h \in Handles : Settled(h)

(* The three views of the runner agree at every step: no handle is done    *)
(* and still tracked as waiting, and no coroutine is live without its      *)
(* entry in running.  With the slots and the dependency gate this is       *)
(* inductive.                                                              *)
ViewsAgree == RegistryAgrees /\ CoroutinesAgree /\ DispatcherAgrees

IInv == TypeOK /\ ViewsAgree /\ SlotAccounting /\ PoolCapacity /\ DependencyGate
=============================================================================
