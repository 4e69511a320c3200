------------------------------ MODULE Workers ------------------------------
(* The threads behind the dispatcher (_runner.py _dispatch_one,            *)
(* _get_pool_executor, shutdown; _backends.py execute; _core.py offload,   *)
(* _await_impl).  An attempt on a thread or process pool needs two         *)
(* threads: one of the loop's default executor, which waits in execute(),  *)
(* and one of the pool's, which runs the body.  Awaiting a handle takes a  *)
(* thread of the default executor too.  Bodies outlive their handles.      *)
(* Whether an attempt succeeds, and retries, are left to Dispatch.         *)
EXTENDS Integers, FiniteSets, Sequences, Lists

CONSTANTS
  Handles,
  Kind,            \* what the task does: "pool" runs on the pool "main",
                   \* "offload" calls ctx.offload(), "await" awaits a handle
  Awaited,         \* the handle an "await" task awaits
  Budget,          \* the pool tasks with a timeout=
  Workers,         \* max_workers, per pool
  DefaultThreads,  \* the threads of the loop's default executor
  Cancellable      \* bound: the handles that may be cancelled

Pools     == {"main", "offload"}
Executors == Pools \X {1, 2}    \* the executor of a pool, and one built after shutdown
NoExecutor == <<"none", 0>>

ASSUME WorkersAssumption ==
  /\ Kind \in [Handles -> {"pool", "offload", "await"}]
  /\ Awaited \in [Handles -> Handles]
  /\ Budget \subseteq Handles /\ Cancellable \subseteq Handles
  /\ Workers \in [Pools -> Nat \ {0}] /\ DefaultThreads \in Nat \ {0}

VARIABLES
  poolKind,     \* the kind of "main", fixed: "thread" or "process"
  phase,        \* the coroutine: "new", "asking" for an executor, "given" one, "waiting",
                \* "closing", "over"
  cancelEvent,  \* TaskHandle._cancel_event
  poked,        \* handles whose asyncio.Task.cancel is posted
  job,          \* what the default executor was given: "none", "queued", "blocked", "returned"
  defaultQ,     \* its queue
  body,         \* "none", "queued", "running", "done"
  on,           \* the executor a handle's coroutine was given
  queue,        \* the queue of each executor
  current,      \* _pool_executors: which executor of each pool, 0 for none
  shut,         \* shutdown(): "no", "closing" with _backends_lock held, "done"
  closed        \* the executors it has shut down

loopVars == <<phase, cancelEvent, poked>>
workVars == <<job, defaultQ, body, queue>>
execVars == <<on, current, shut, closed>>
vars == <<poolKind, loopVars, workVars, execVars>>

PoolOf(h)  == IF Kind[h] = "offload" THEN "offload" ELSE "main"
Over(h)    == phase[h] = "over"
Blocked    == {h \in Handles : job[h] = "blocked"}
Running(e) == {h \in Handles : on[h] = e /\ body[h] = "running"}
Holders    == {h \in Handles : Kind[h] = "pool" /\ phase[h] \notin {"new", "over"}}
LoopFree   == \A h \in Handles : phase[h] \notin {"asking", "given"}

TypeOK ==
  /\ poolKind \in {"thread", "process"}
  /\ phase \in [Handles -> {"new", "asking", "given", "waiting", "closing", "over"}]
  /\ cancelEvent \in [Handles -> BOOLEAN] /\ poked \subseteq Handles
  /\ job \in [Handles -> {"none", "queued", "blocked", "returned"}]
  /\ body \in [Handles -> {"none", "queued", "running", "done"}]
  /\ defaultQ \in Seq(Handles) /\ queue \in [Executors -> Seq(Handles)]
  /\ on \in [Handles -> Executors \cup {NoExecutor}]
  /\ current \in [Pools -> 0 .. 2]
  /\ shut \in {"no", "closing", "done"} /\ closed \subseteq Executors

Init ==
  /\ poolKind \in {"thread", "process"}
  /\ phase = [h \in Handles |-> "new"]
  /\ cancelEvent = [h \in Handles |-> FALSE] /\ poked = {}
  /\ job = [h \in Handles |-> "none"] /\ defaultQ = <<>>
  /\ body = [h \in Handles |-> "none"] /\ queue = [e \in Executors |-> <<>>]
  /\ on = [h \in Handles |-> NoExecutor]
  /\ current = [p \in Pools |-> 0]
  /\ shut = "no" /\ closed = {}

Becomes(h, p) == phase' = [phase EXCEPT ![h] = p]

-----------------------------------------------------------------------------
(* The event loop.                                                         *)

\* Mutant: one slot too many.
OneMoreSlot(h) == Kind[h] = "pool" => Cardinality(Holders) <= Workers["main"]

HasCapacity(h) == Kind[h] = "pool" => Cardinality(Holders) < Workers["main"]

Dispatch(h) ==
  /\ LoopFree /\ phase[h] = "new" /\ Kind[h] # "await"
  /\ HasCapacity(h)
  /\ Becomes(h, "asking")
  /\ UNCHANGED <<poolKind, cancelEvent, poked, workVars, execVars>>

(* await handle: if the handle is not done, a thread of the default        *)
(* executor is made to wait for it.                                        *)
AwaitHandle(h) ==
  /\ LoopFree /\ phase[h] = "new" /\ Kind[h] = "await"
  /\ IF Over(Awaited[h])
     THEN Becomes(h, "over") /\ UNCHANGED <<job, defaultQ>>
     ELSE /\ Becomes(h, "waiting")
          /\ job' = [job EXCEPT ![h] = "queued"]
          /\ defaultQ' = Append(defaultQ, h)
  /\ UNCHANGED <<poolKind, cancelEvent, poked, body, queue, execVars>>

(* _get_pool_executor under _backends_lock, which shutdown() may hold: the *)
(* loop then stands still.  A pool without an executor gets a new one.     *)
Given(p) == <<p, IF current[p] # 0 THEN current[p] ELSE IF shut = "no" THEN 1 ELSE 2>>

GetExecutor(h) ==
  LET e == Given(PoolOf(h)) IN
  /\ phase[h] = "asking" /\ shut # "closing"
  /\ current' = [current EXCEPT ![e[1]] = e[2]]
  /\ on' = [on EXCEPT ![h] = e]
  /\ Becomes(h, "given")
  /\ UNCHANGED <<poolKind, cancelEvent, poked, workVars, shut, closed>>

(* run_in_executor, without the lock.  An attempt goes to the default      *)
(* executor.  An offloaded function goes to the executor it was given,     *)
(* which may have been shut down since: then the call raises.              *)
HandOver(h) ==
  /\ phase[h] = "given"
  /\ \/ /\ Kind[h] = "pool"
        /\ Becomes(h, "waiting")
        /\ job' = [job EXCEPT ![h] = "queued"]
        /\ defaultQ' = Append(defaultQ, h)
        /\ UNCHANGED <<body, queue>>
     \/ /\ Kind[h] = "offload" /\ on[h] \notin closed
        /\ Becomes(h, "waiting")
        /\ body' = [body EXCEPT ![h] = "queued"]
        /\ queue' = [queue EXCEPT ![on[h]] = Append(@, h)]
        /\ UNCHANGED <<job, defaultQ>>
     \/ /\ Kind[h] = "offload" /\ on[h] \in closed
        /\ Becomes(h, "over")
        /\ UNCHANGED workVars
  /\ UNCHANGED <<poolKind, cancelEvent, poked, execVars>>

(* The result of the default executor arrives.                             *)
Settle(h) ==
  /\ LoopFree /\ phase[h] = "waiting" /\ job[h] = "returned"
  /\ Becomes(h, "over")
  /\ UNCHANGED <<poolKind, cancelEvent, poked, workVars, execVars>>

(* The asyncio task is cancelled at its await.  What the default executor  *)
(* has not begun is dropped; what it has begun goes on.  In the finally    *)
(* clause of offload the CancelledError is swallowed.                      *)
CancelLands(h) ==
  /\ LoopFree /\ h \in poked /\ phase[h] \in {"waiting", "closing"}
  /\ poked' = poked \ {h}
  /\ Becomes(h, IF Kind[h] = "offload" THEN "closing" ELSE "over")
  /\ IF job[h] = "queued"
     THEN /\ job' = [job EXCEPT ![h] = "none"]
          /\ defaultQ' = Kept(defaultQ, Handles \ {h})
     ELSE UNCHANGED <<job, defaultQ>>
  /\ UNCHANGED <<poolKind, cancelEvent, body, queue, execVars>>

(* offload: the function has returned, or the poller has seen the event;   *)
(* the finally clause then waits for the poller it cancels.                *)
OffloadEnds(h) ==
  /\ LoopFree /\ phase[h] = "waiting" /\ Kind[h] = "offload"
  /\ body[h] = "done" \/ cancelEvent[h]
  /\ Becomes(h, "closing")
  /\ UNCHANGED <<poolKind, cancelEvent, poked, workVars, execVars>>

PollerGone(h) ==
  /\ LoopFree /\ phase[h] = "closing"
  /\ Becomes(h, "over")
  /\ UNCHANGED <<poolKind, cancelEvent, poked, workVars, execVars>>

(* cancel(), from any thread: the event is set and the loop is poked.      *)
Cancel(h) ==
  /\ h \in Cancellable /\ phase[h] \notin {"new", "over"} /\ ~cancelEvent[h]
  /\ cancelEvent' = [cancelEvent EXCEPT ![h] = TRUE]
  /\ poked' = poked \cup {h}
  /\ UNCHANGED <<poolKind, phase, workVars, execVars>>

-----------------------------------------------------------------------------
(* The threads.                                                            *)

(* A thread of the default executor takes the next job: execute() submits  *)
(* the body to the pool's executor, and raises if that is shut down; a     *)
(* wait for a handle that is over returns at once.                         *)
DefaultTakes ==
  /\ defaultQ # <<>> /\ Cardinality(Blocked) < DefaultThreads
  /\ defaultQ' = Tail(defaultQ)
  /\ LET h == Head(defaultQ) IN
     \/ /\ Kind[h] = "pool" /\ on[h] \notin closed
        /\ job' = [job EXCEPT ![h] = "blocked"]
        /\ body' = [body EXCEPT ![h] = "queued"]
        /\ queue' = [queue EXCEPT ![on[h]] = Append(@, h)]
     \/ /\ Kind[h] = "pool" /\ on[h] \in closed
        /\ job' = [job EXCEPT ![h] = "returned"]
        /\ UNCHANGED <<body, queue>>
     \/ /\ Kind[h] = "await"
        /\ job' = [job EXCEPT ![h] = IF Over(Awaited[h]) THEN "returned" ELSE "blocked"]
        /\ UNCHANGED <<body, queue>>
  /\ UNCHANGED <<poolKind, loopVars, execVars>>

WorkerTakes(e) ==
  /\ queue[e] # <<>> /\ Cardinality(Running(e)) < Workers[e[1]]
  /\ body' = [body EXCEPT ![Head(queue[e])] = "running"]
  /\ queue' = [queue EXCEPT ![e] = Tail(@)]
  /\ UNCHANGED <<poolKind, loopVars, job, defaultQ, execVars>>

BodyEnds(h) ==
  /\ body[h] = "running"
  /\ body' = [body EXCEPT ![h] = "done"]
  /\ UNCHANGED <<poolKind, loopVars, job, defaultQ, queue, execVars>>

(* future.result() and done_event.wait() return.                           *)
WaitReturns(h) ==
  /\ job[h] = "blocked"
  /\ IF Kind[h] = "await" THEN Over(Awaited[h]) ELSE body[h] = "done"
  /\ job' = [job EXCEPT ![h] = "returned"]
  /\ UNCHANGED <<poolKind, loopVars, defaultQ, body, queue, execVars>>

(* future.cancel() on a body in the queue.                                 *)
TakenOff(h) ==
  /\ body[h] = "queued"
  /\ body' = [body EXCEPT ![h] = "none"]
  /\ queue' = [queue EXCEPT ![on[h]] = Kept(@, Handles \ {h})]

(* The budget is over.  A thread's body is told by the cancel event, and   *)
(* runs later if it is still queued.  A process's is not told; it is taken *)
(* off the queue, unless the executor has begun to hand it over.           *)
GiveUp(h) ==
  IF poolKind = "thread"
  THEN /\ cancelEvent' = [cancelEvent EXCEPT ![h] = TRUE]
       /\ UNCHANGED <<body, queue>>
  ELSE UNCHANGED cancelEvent /\ (UNCHANGED <<body, queue>> \/ TakenOff(h))

\* Mutant: the clock of the budget starts with the body.
TimesOutRunning(h) ==
  /\ job[h] = "blocked" /\ h \in Budget /\ body[h] = "running"
  /\ job' = [job EXCEPT ![h] = "returned"]
  /\ GiveUp(h)
  /\ UNCHANGED <<poolKind, phase, poked, defaultQ, execVars>>

TimesOut(h) ==
  /\ job[h] = "blocked" /\ h \in Budget /\ body[h] # "done"
  /\ job' = [job EXCEPT ![h] = "returned"]
  /\ GiveUp(h)
  /\ UNCHANGED <<poolKind, phase, poked, defaultQ, execVars>>

-----------------------------------------------------------------------------
(* shutdown(wait=True), in another thread, under _backends_lock.           *)
BeginShutdown ==
  /\ shut = "no"
  /\ shut' = "closing"
  /\ UNCHANGED <<poolKind, loopVars, workVars, on, current, closed>>

\* Mutant: waits for the handles, not for the bodies.
HandlesOver(e) == \A h \in Handles : on[h] = e => Over(h)

Drained(e) == queue[e] = <<>> /\ Running(e) = {}

(* Each executor in turn takes no more bodies, and is waited for.          *)
CloseExecutor(p) ==
  /\ shut = "closing" /\ current[p] # 0 /\ <<p, 1>> \notin closed
  /\ \A e \in closed : Drained(e)
  /\ closed' = closed \cup {<<p, 1>>}
  /\ UNCHANGED <<poolKind, loopVars, workVars, on, current, shut>>

EndShutdown ==
  /\ shut = "closing"
  /\ \A p \in Pools : current[p] # 0 => <<p, 1>> \in closed
  /\ \A e \in closed : Drained(e)
  /\ current' = [p \in Pools |-> 0]
  /\ shut' = "done"
  /\ UNCHANGED <<poolKind, loopVars, workVars, on, closed>>

-----------------------------------------------------------------------------
CoroutineStep(h) == \/ Dispatch(h) \/ AwaitHandle(h) \/ GetExecutor(h) \/ HandOver(h)
                    \/ Settle(h) \/ CancelLands(h) \/ OffloadEnds(h) \/ PollerGone(h)
ShutdownStep == (\E p \in Pools : CloseExecutor(p)) \/ EndShutdown

Next ==
  \/ \E h \in Handles : \/ CoroutineStep(h) \/ Cancel(h)
                        \/ BodyEnds(h) \/ WaitReturns(h) \/ TimesOut(h)
  \/ DefaultTakes
  \/ \E e \in Executors : WorkerTakes(e)
  \/ BeginShutdown \/ ShutdownStep

Spec == Init /\ [][Next]_vars

(* The loop runs something that is ready, threads that can run do, and time *)
(* passes.  No behaviour has infinitely many steps, so that nothing can be  *)
(* passed over for ever.                                                    *)
Fairness == /\ WF_vars(\E h \in Handles : CoroutineStep(h))
            /\ WF_vars(DefaultTakes \/ \E h \in Handles : WaitReturns(h) \/ TimesOut(h))
            /\ WF_vars(\E e \in Executors : WorkerTakes(e))
            /\ WF_vars(ShutdownStep)

BodyFairness == WF_vars(\E h \in Handles : BodyEnds(h))

FairSpec == Spec /\ Fairness

-----------------------------------------------------------------------------
(* A body whose handle holds a slot is kept waiting for a thread only by   *)
(* bodies that have outlived theirs: slots never promise more threads than *)
(* there are, and give no promise beside a runaway body.                   *)
QueuedBehindRunaways ==
  \A e \in Executors : e[1] = "main" =>
    \A i \in DOMAIN queue[e] :
      ~Over(queue[e][i]) /\ Cardinality(Running(e)) = Workers["main"] =>
        \E g \in Running(e) : Over(g)

(* An attempt with a budget, a call that is cancelled, and an await of a   *)
(* dispatched handle with a budget come to an end even if no body ever     *)
(* does, unless shutdown() stands between the loop and the executors.      *)
(* This needs a default executor with more threads than there are awaits   *)
(* and attempts without a budget: each of these may keep one for ever.     *)
Promised(h) ==
  \/ h \in Budget \/ cancelEvent[h]
  \/ Kind[h] = "await" /\ Awaited[h] \in Budget /\ phase[Awaited[h]] # "new"
CallsEnd == \A h \in Handles : (phase[h] = "waiting" /\ Promised(h)) ~> (Over(h) \/ shut = "closing")

(* shutdown() returns if the bodies do, though it holds the lock the loop  *)
(* may be waiting for, and bodies are waiting for threads.                 *)
ShutdownReturns == BodyFairness => (shut = "closing" ~> shut = "done")
=============================================================================
