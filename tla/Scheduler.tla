----------------------------- MODULE Scheduler ------------------------------
(***************************************************************************)
(* The Scheduler of schedule.py: its job list, the background loop that    *)
(* start() spawns and stop() ends, tick(), cancel(), and jobs driven by an *)
(* event source, whose handlers run in the publisher's thread.             *)
(*                                                                         *)
(* Time is a counter of abstract units.  start() and stop() are called by  *)
(* one thread, one at a time; registrations, cancellations, events and the *)
(* loops interleave with them and with each other.  The runner is present: *)
(* submit() succeeds or raises.                                            *)
(***************************************************************************)
EXTENDS Integers, Sequences, FiniteSets, Lists

CONSTANTS Jobs,        \* the jobs callers register: bounds the registrations
          Kind,        \* "interval", "cron", "once" or "event", per job
          Period,      \* the interval, or the absolute time of a one-shot job
          NextAfter,   \* what next_after makes of a time, per cron job: see Cron
          NoTime,      \* it raises
          Faulty,      \* the jobs whose submit() may raise
          Cancellable, \* the jobs callers may cancel: a bound
          Threads,     \* the loop threads that can be alive together: a bound
          WaitOnStop,  \* the wait= arguments callers give to stop()
          NoThread,    \* no thread object is kept
          MaxClock,    \* bound on the clock
          MaxEvents,   \* bound on the events published, per job
          MaxFired     \* where the count of a time-based job's submissions stops

ASSUME SchedulerAssumption ==
  /\ Kind \in [Jobs -> {"interval", "cron", "once", "event"}]
  /\ Period \in [Jobs -> Nat \ {0}]
  /\ NextAfter \in [Jobs -> [0 .. MaxClock -> Nat \cup {NoTime}]]
  /\ Faulty \subseteq Jobs /\ WaitOnStop \subseteq BOOLEAN
  /\ NoThread \notin Threads
  /\ MaxClock \in Nat /\ MaxEvents \in Nat /\ MaxFired \in Nat

VARIABLES
  clock,       \* the clock
  jobs,        \* _jobs
  nextFire,    \* ScheduledJob.next_fire, unused for event jobs
  cancelled,   \* ScheduledJob.cancelled
  unsub,       \* the jobs whose _unsubscribe is set
  register,    \* how far JobBuilder.do has got
  cancel,      \* how far Scheduler.cancel has got
  subscribed,  \* the jobs whose handler the event source holds
  handling,    \* the jobs whose handler has passed its check and not submitted yet
  fired,       \* the submissions each job has made
  started, stopEvent, thread,  \* _started, _stop_event, _thread
  control,     \* where the thread that calls start() and stop() is
  stopping,    \* the jobs stop() has still to unsubscribe
  loop,        \* where each loop thread is
  now,         \* the time at which the tick under way began, 0 when none is
  todo,        \* the due jobs its tick has still to fire
  ackFired     \* history variable: what fired was when cancel() returned True

jobVars   == <<jobs, nextFire, cancelled, unsub, register, cancel>>
eventVars == <<subscribed, handling>>
lifeVars  == <<started, stopEvent, thread, control, stopping>>
loopVars  == <<loop, now, todo>>
vars == <<clock, jobVars, eventVars, fired, lifeVars, loopVars, ackFired>>

Registered == {jobs[i] : i \in DOMAIN jobs}
IsEvent(j) == Kind[j] = "event"
Alive      == {t \in Threads : loop[t] # "off"}

(* next_after finds a time within a year, if the job needs one.            *)
Schedulable(j, t) == Kind[j] = "cron" => NextAfter[j][t] # NoTime

(* It always does, and the time is a later one.                            *)
Regular(j) == \A t \in 0 .. MaxClock : Schedulable(j, t) /\ (Kind[j] = "cron" => NextAfter[j][t] > t)

Init ==
  /\ clock = 0
  /\ jobs = <<>> /\ nextFire = [j \in Jobs |-> 0]
  /\ cancelled = [j \in Jobs |-> FALSE] /\ unsub = {}
  /\ register = [j \in Jobs |-> "none"] /\ cancel = [j \in Jobs |-> "none"]
  /\ subscribed = {} /\ handling = {}
  /\ fired = [j \in Jobs |-> 0]
  /\ started = FALSE /\ stopEvent = FALSE /\ thread = NoThread
  /\ control = "idle" /\ stopping = {}
  /\ loop = [t \in Threads |-> "off"] /\ now = [t \in Threads |-> 0]
  /\ todo = [t \in Threads |-> <<>>]
  /\ ackFired = [j \in Jobs |-> 0]

TickClock ==
  /\ clock < MaxClock
  /\ clock' = clock + 1
  /\ UNCHANGED <<jobVars, eventVars, fired, lifeVars, loopVars, ackFired>>

-----------------------------------------------------------------------------
(* Registration: JobBuilder.do.                                            *)

FirstFire(j) == CASE Kind[j] = "once"     -> Period[j]
                  [] Kind[j] = "interval" -> clock + Period[j]
                  [] Kind[j] = "cron"     -> NextAfter[j][clock]

AddJob(j) ==
  /\ register[j] = "none" /\ ~IsEvent(j)
  /\ Schedulable(j, clock)
  /\ nextFire' = [nextFire EXCEPT ![j] = FirstFire(j)]
  /\ jobs' = Append(jobs, j)
  /\ register' = [register EXCEPT ![j] = "listed"]
  /\ UNCHANGED <<clock, cancelled, unsub, cancel, eventVars, fired, lifeVars, loopVars, ackFired>>

(* An event job is subscribed, then given its unsubscribe callable, then   *)
(* put in the list.                                                        *)
Subscribe(j) ==
  /\ register[j] = "none" /\ IsEvent(j)
  /\ subscribed' = subscribed \cup {j}
  /\ register' = [register EXCEPT ![j] = "subscribed"]
  /\ UNCHANGED <<clock, jobs, nextFire, cancelled, unsub, cancel, handling, fired,
                 lifeVars, loopVars, ackFired>>

StoreUnsubscribe(j) ==
  /\ register[j] = "subscribed"
  /\ unsub' = unsub \cup {j}
  /\ register' = [register EXCEPT ![j] = "stored"]
  /\ UNCHANGED <<clock, jobs, nextFire, cancelled, cancel, eventVars, fired,
                 lifeVars, loopVars, ackFired>>

ListEventJob(j) ==
  /\ register[j] = "stored"
  /\ jobs' = Append(jobs, j)
  /\ register' = [register EXCEPT ![j] = "listed"]
  /\ UNCHANGED <<clock, nextFire, cancelled, unsub, cancel, eventVars, fired,
                 lifeVars, loopVars, ackFired>>

(* The event source calls the handler, which looks at job.cancelled ...    *)
Publish(j) ==
  /\ j \in subscribed \ handling /\ fired[j] < MaxEvents
  /\ ~cancelled[j]
  /\ handling' = handling \cup {j}
  /\ UNCHANGED <<clock, jobVars, subscribed, fired, lifeVars, loopVars, ackFired>>

(* ... and submits; an exception drops the event.                          *)
HandlerSubmits(j) ==
  /\ j \in handling
  /\ handling' = handling \ {j}
  /\ \/ fired' = [fired EXCEPT ![j] = @ + 1]
     \/ j \in Faulty /\ UNCHANGED fired
  /\ UNCHANGED <<clock, jobVars, subscribed, lifeVars, loopVars, ackFired>>

-----------------------------------------------------------------------------
(* Scheduler.cancel: the flag under the lock, the subscription outside it. *)
Cancel(j) ==
  /\ j \in Registered \cap Cancellable /\ cancel[j] = "none"
  /\ cancelled' = [cancelled EXCEPT ![j] = TRUE]
  /\ cancel' = [cancel EXCEPT ![j] = "flagged"]
  /\ UNCHANGED <<clock, jobs, nextFire, unsub, register, eventVars, fired,
                 lifeVars, loopVars, ackFired>>

(* Unsubscribing is idempotent.                                            *)
Unsubscribed(S) == /\ unsub' = unsub \ S
                   /\ subscribed' = subscribed \ (S \cap unsub)

CancelReturns(j) ==
  /\ cancel[j] = "flagged"
  /\ Unsubscribed({j})
  /\ cancel' = [cancel EXCEPT ![j] = "acked"]
  /\ ackFired' = [ackFired EXCEPT ![j] = fired[j]]
  /\ UNCHANGED <<clock, jobs, nextFire, cancelled, register, handling, fired,
                 lifeVars, loopVars>>

-----------------------------------------------------------------------------
(* start() and stop().                                                     *)

(* Mutant: start() does not look whether it has already run.               *)
StartAgain ==
  /\ control = "idle"
  /\ started' = TRUE /\ stopEvent' = FALSE
  /\ control' = "spawn"
  /\ UNCHANGED <<clock, jobVars, eventVars, fired, thread, stopping, loopVars, ackFired>>

Start ==
  /\ control = "idle" /\ ~started
  /\ started' = TRUE /\ stopEvent' = FALSE
  /\ control' = "spawn"
  /\ UNCHANGED <<clock, jobVars, eventVars, fired, thread, stopping, loopVars, ackFired>>

Spawn(t) ==
  /\ control = "spawn" /\ t \notin Alive
  /\ loop' = [loop EXCEPT ![t] = "check"]
  /\ thread' = t
  /\ control' = "idle"
  /\ UNCHANGED <<clock, jobVars, eventVars, fired, started, stopEvent, stopping,
                 now, todo, ackFired>>

Stop(wait) ==
  /\ control = "idle"
  /\ started' = FALSE
  /\ stopping' = Registered
  /\ control' = IF wait THEN "stop_wait" ELSE "stop"
  /\ UNCHANGED <<clock, jobVars, eventVars, fired, stopEvent, thread, loopVars, ackFired>>

StopUnsubscribes(j) ==
  /\ j \in stopping
  /\ stopping' = stopping \ {j}
  /\ Unsubscribed({j})
  /\ UNCHANGED <<clock, jobs, nextFire, cancelled, register, cancel, handling, fired,
                 started, stopEvent, thread, control, loopVars, ackFired>>

(* Mutant: stop() forgets to set the event.                                *)
LeaveEventClear ==
  /\ control \in {"stop", "stop_wait"} /\ stopping = {}
  /\ control' = IF control = "stop_wait" /\ thread # NoThread THEN "join" ELSE "idle"
  /\ UNCHANGED <<clock, jobVars, eventVars, fired, started, stopEvent, thread, stopping,
                 loopVars, ackFired>>

SetStopEvent ==
  /\ control \in {"stop", "stop_wait"} /\ stopping = {}
  /\ stopEvent' = TRUE
  /\ control' = IF control = "stop_wait" /\ thread # NoThread THEN "join" ELSE "idle"
  /\ UNCHANGED <<clock, jobVars, eventVars, fired, started, thread, stopping, loopVars, ackFired>>

Join ==
  /\ control = "join" /\ thread \notin Alive
  /\ thread' = NoThread
  /\ control' = "idle"
  /\ UNCHANGED <<clock, jobVars, eventVars, fired, started, stopEvent, stopping,
                 loopVars, ackFired>>

-----------------------------------------------------------------------------
(* The loop of a thread, and tick().                                       *)

Goto(t, place) == loop' = [loop EXCEPT ![t] = place]

CheckStop(t) ==
  /\ loop[t] = "check"
  /\ Goto(t, IF stopEvent THEN "off" ELSE "list")
  /\ UNCHANGED <<clock, jobVars, eventVars, fired, lifeVars, now, todo, ackFired>>

(* Mutant: tick() does not leave out the cancelled jobs.                   *)
DueCancelledToo(j, t) == ~IsEvent(j) /\ nextFire[j] <= t

Due(j, t) == ~cancelled[j] /\ ~IsEvent(j) /\ nextFire[j] <= t

ListDue(t) ==
  /\ loop[t] = "list"
  /\ Goto(t, "fire")
  /\ now' = [now EXCEPT ![t] = clock]
  /\ todo' = [todo EXCEPT ![t] = Kept(jobs, {j \in Jobs : Due(j, clock)})]
  /\ UNCHANGED <<clock, jobVars, eventVars, fired, lifeVars, ackFired>>

(* Mutant: the next time is computed only for a job that is late.          *)
NextFireIfLate(j, t) == IF nextFire[j] + Period[j] < t THEN t + Period[j] ELSE nextFire[j]

(* schedule_next: from the time it was due; a job that is late by more     *)
(* than an interval skips ahead.                                           *)
NextFire(j, t) ==
  CASE Kind[j] = "once"     -> nextFire[j]
    [] Kind[j] = "interval" ->
         IF nextFire[j] + Period[j] < t THEN t + Period[j] ELSE nextFire[j] + Period[j]
    [] Kind[j] = "cron"     -> NextAfter[j][t]

(* schedule_next ends a one-shot job by marking it cancelled.              *)
Ends(j) == Kind[j] = "once"

Submitted(j) == fired' = [fired EXCEPT ![j] = IF @ < MaxFired THEN @ + 1 ELSE @]

Fire(t) ==
  /\ loop[t] = "fire" /\ todo[t] # <<>>
  /\ LET j == Head(todo[t]) IN
     /\ Schedulable(j, now[t])
     /\ Submitted(j)
     /\ nextFire' = [nextFire EXCEPT ![j] = NextFire(j, now[t])]
     /\ cancelled' = [cancelled EXCEPT ![j] = @ \/ Ends(j)]
  /\ todo' = [todo EXCEPT ![t] = Tail(@)]
  /\ UNCHANGED <<clock, jobs, unsub, register, cancel, eventVars, lifeVars, loop, now, ackFired>>

(* Mutant: an exception of tick() ends the loop.                           *)
FailEndsLoop(t) ==
  /\ loop[t] = "fire" /\ todo[t] # <<>>
  /\ Head(todo[t]) \in Faulty
  /\ todo' = [todo EXCEPT ![t] = <<>>]
  /\ now' = [now EXCEPT ![t] = 0]
  /\ Goto(t, "off")
  /\ UNCHANGED <<clock, jobVars, eventVars, fired, lifeVars, ackFired>>

(* submit() raises: the tick ends there, without its clean-up.             *)
FireFails(t) ==
  /\ loop[t] = "fire" /\ todo[t] # <<>>
  /\ Head(todo[t]) \in Faulty
  /\ todo' = [todo EXCEPT ![t] = <<>>]
  /\ now' = [now EXCEPT ![t] = 0]
  /\ Goto(t, "wait")
  /\ UNCHANGED <<clock, jobVars, eventVars, fired, lifeVars, ackFired>>

(* The job is submitted and schedule_next raises: the tick ends there, and *)
(* the job is as due as before.                                            *)
FireUnscheduled(t) ==
  /\ loop[t] = "fire" /\ todo[t] # <<>>
  /\ LET j == Head(todo[t]) IN
     /\ ~Schedulable(j, now[t])
     /\ Submitted(j)
  /\ todo' = [todo EXCEPT ![t] = <<>>]
  /\ now' = [now EXCEPT ![t] = 0]
  /\ Goto(t, "wait")
  /\ UNCHANGED <<clock, jobVars, eventVars, lifeVars, ackFired>>

(* Mutant: tick() drops a cancelled job and leaves its subscription.       *)
DropAndForget(t) ==
  /\ loop[t] = "fire" /\ todo[t] = <<>>
  /\ jobs' = Kept(jobs, {j \in Jobs : ~cancelled[j]})
  /\ Goto(t, "wait")
  /\ now' = [now EXCEPT ![t] = 0]
  /\ UNCHANGED <<clock, nextFire, cancelled, unsub, register, cancel, eventVars, fired,
                 lifeVars, todo, ackFired>>

(* The end of tick(): drop the cancelled jobs and their subscriptions.     *)
DropCancelled(t) ==
  /\ loop[t] = "fire" /\ todo[t] = <<>>
  /\ jobs' = Kept(jobs, {j \in Jobs : ~cancelled[j]})
  /\ Unsubscribed({j \in Registered : cancelled[j]})
  /\ Goto(t, "wait")
  /\ now' = [now EXCEPT ![t] = 0]
  /\ UNCHANGED <<clock, nextFire, cancelled, register, cancel, handling, fired,
                 lifeVars, todo, ackFired>>

(* _stop_event.wait(tick_seconds) returns.                                 *)
EndWait(t) ==
  /\ loop[t] = "wait"
  /\ Goto(t, "check")
  /\ UNCHANGED <<clock, jobVars, eventVars, fired, lifeVars, now, todo, ackFired>>

-----------------------------------------------------------------------------
Registration(j) == AddJob(j) \/ Subscribe(j) \/ StoreUnsubscribe(j) \/ ListEventJob(j)
StopStep == (\E j \in Jobs : StopUnsubscribes(j)) \/ SetStopEvent \/ Join
LoopStep(t) ==
  \/ CheckStop(t) \/ ListDue(t) \/ DropCancelled(t) \/ EndWait(t)
  \/ Fire(t) \/ FireFails(t) \/ FireUnscheduled(t)

Next ==
  \/ TickClock
  \/ \E j \in Jobs : \/ Registration(j) \/ Publish(j) \/ HandlerSubmits(j)
                     \/ Cancel(j) \/ CancelReturns(j)
  \/ Start
  \/ \E wait \in WaitOnStop : Stop(wait)
  \/ StopStep
  \/ \E t \in Threads : Spawn(t) \/ LoopStep(t)

Spec == Init /\ [][Next]_vars

(* Threads run, time passes, and a submission does not fail for ever.      *)
Fairness == /\ WF_vars(TickClock)
            /\ WF_vars(StopStep)
            /\ \A t \in Threads : /\ WF_vars(Spawn(t))
                                  /\ WF_vars(LoopStep(t))
                                  /\ \A j \in Jobs : SF_vars(Fire(t) /\ Head(todo[t]) = j)

FairSpec == Spec /\ Fairness

-----------------------------------------------------------------------------
TypeOK ==
  /\ clock \in Nat
  /\ jobs \in Seq(Jobs)
  /\ nextFire \in [Jobs -> Nat] /\ fired \in [Jobs -> Nat] /\ ackFired \in [Jobs -> Nat]
  /\ cancelled \in [Jobs -> BOOLEAN]
  /\ register \in [Jobs -> {"none", "subscribed", "stored", "listed"}]
  /\ cancel \in [Jobs -> {"none", "flagged", "acked"}]
  /\ unsub \subseteq Jobs /\ subscribed \subseteq Jobs /\ handling \subseteq Jobs
  /\ stopping \subseteq Jobs
  /\ started \in BOOLEAN /\ stopEvent \in BOOLEAN /\ thread \in Threads \cup {NoThread}
  /\ control \in {"idle", "spawn", "stop", "stop_wait", "join"}
  /\ loop \in [Threads -> {"off", "check", "list", "fire", "wait"}]
  /\ now \in [Threads -> Nat]
  /\ todo \in [Threads -> Seq(Jobs)]

(* Whatever start() and stop(wait=True) calls are made, at most one loop   *)
(* ticks, and none once stop() has returned.                               *)
OneLoop ==
  WaitOnStop = {TRUE} =>
    /\ Cardinality(Alive) <= 1
    /\ control = "idle" /\ ~started => Alive = {}

(* The strengthening of OneLoop that is inductive: a loop that runs is the *)
(* thread stop() would join, and there is none while start() may spawn one.*)
LoopInv ==
  /\ started \in BOOLEAN /\ thread \in Threads \cup {NoThread}
  /\ control \in {"idle", "spawn", "stop", "stop_wait", "join"}
  /\ loop \in [Threads -> {"off", "check", "list", "fire", "wait"}]
  /\ WaitOnStop = {TRUE} =>
       /\ Alive \subseteq {thread}
       /\ control # "stop"
       /\ control = "spawn" => started
       /\ control = "spawn" \/ (control = "idle" /\ ~started) => Alive = {}

(* A job fires at most once for each time it is due, however late its      *)
(* ticks, if next_after always finds a later time: a job for which it does *)
(* not stays due, and fires at every tick.                                 *)
CronTimes(j) == {t \in 1 .. clock : \E c \in 0 .. t - 1 : NextAfter[j][c] = t}

FiresOncePerDue ==
  WaitOnStop = {TRUE} =>
    \A j \in Jobs :
      /\ Kind[j] = "interval" => fired[j] * Period[j] <= clock
      /\ Kind[j] = "cron" /\ Regular(j) => fired[j] <= Cardinality(CronTimes(j))
      /\ Kind[j] = "once" => fired[j] <= 1

(* Once cancel() has returned True a time-based job fires at most once     *)
(* more, in the tick that was under way.                                   *)
OneMoreFire ==
  WaitOnStop = {TRUE} =>
    \A j \in Jobs : cancel[j] = "acked" /\ ~IsEvent(j) => fired[j] <= ackFired[j] + 1

(* The event source holds no handler of a job the scheduler has dropped or *)
(* whose cancellation has returned.                                        *)
NoOrphanSubscription ==
  \A j \in subscribed : /\ register[j] = "listed" => j \in Registered
                        /\ cancel[j] # "acked"

(* stop() returns.                                                         *)
StopReturns == control \in {"stop", "stop_wait", "join"} ~> control = "idle"

(* A job that is due while the scheduler runs fires, or is cancelled, or   *)
(* the scheduler is stopped: one failing submit() delays the others only.  *)
(* It may not stand behind a job that cannot be rescheduled: that one is   *)
(* submitted at every tick and ends it.                                    *)
Reached(j) ==
  \E i \in DOMAIN jobs :
    /\ jobs[i] = j /\ Regular(j)
    /\ \A k \in 1 .. i - 1 : Regular(jobs[k])

DueFires ==
  \A j \in Jobs :
    (Reached(j) /\ Due(j, clock) /\ started) ~>
      (nextFire[j] > clock \/ cancelled[j] \/ ~started)
=============================================================================
