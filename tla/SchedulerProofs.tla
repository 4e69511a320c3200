--------------------------- MODULE SchedulerProofs --------------------------
(***************************************************************************)
(* However start() and stop() are called, registrations, cancellations and *)
(* events going on meanwhile, at most one loop of a Scheduler ticks as     *)
(* long as stop() waits for the thread it stops.                           *)
(***************************************************************************)
EXTENDS Scheduler, ListProofs, FiniteSetTheorems, TLAPS

(* A step that touches neither the life cycle nor a loop preserves the     *)
(* invariant.                                                              *)
LEMMA LoopInvFrame ==
  ASSUME LoopInv, UNCHANGED <<started, thread, control, loop>>
  PROVE  LoopInv'
<1>1. started' = started /\ thread' = thread /\ control' = control /\ loop' = loop
  OBVIOUS
<1>2. Alive' = Alive
  BY <1>1 DEF Alive
<1> DEFINE One(a, st, th, c) == WaitOnStop = {TRUE} =>
                /\ a \subseteq {th}
                /\ c # "stop"
                /\ c = "spawn" => st
                /\ c = "spawn" \/ (c = "idle" /\ ~st) => a = {}
<1>3. One(Alive, started, thread, control)
  BY DEF LoopInv
<1>4. One(Alive', started', thread', control')
  BY <1>1, <1>2, <1>3
<1> HIDE DEF One
<1>5. QED
  BY <1>1, <1>4 DEF LoopInv, One

(* A thread that moves inside its loop, or leaves it, starts no other.     *)
LEMMA GotoKeepsLoopInv ==
  ASSUME NEW t \in Threads, NEW place \in {"off", "check", "list", "fire", "wait"},
         LoopInv, loop[t] # "off", Goto(t, place), UNCHANGED <<started, thread, control>>
  PROVE  LoopInv'
<1>1. Alive' \subseteq Alive
  BY DEF LoopInv, Alive, Goto
<1> QED
  BY <1>1 DEF LoopInv, Goto

(* The initial state satisfies the invariant.                              *)
LEMMA LoopInvInit == Init => LoopInv
BY DEF Init, LoopInv, Alive

(* Every step preserves the invariant.                                     *)
LEMMA LoopInvStep == LoopInv /\ [Next]_vars => LoopInv'
<1> SUFFICES ASSUME LoopInv, [Next]_vars PROVE LoopInv'
  OBVIOUS
<1> USE SchedulerAssumption
<1>1. CASE UNCHANGED vars
  BY <1>1, LoopInvFrame DEF vars, lifeVars, loopVars
<1>2. CASE TickClock
  BY <1>2, LoopInvFrame DEF TickClock, lifeVars, loopVars
<1>3. ASSUME NEW j \in Jobs, Registration(j) \/ Publish(j) \/ HandlerSubmits(j)
                               \/ Cancel(j) \/ CancelReturns(j)
      PROVE  LoopInv'
  BY <1>3, LoopInvFrame DEF Registration, AddJob, Subscribe, StoreUnsubscribe, ListEventJob,
                            Publish, HandlerSubmits, Cancel, CancelReturns, lifeVars, loopVars
<1>4. CASE Start
  BY <1>4 DEF Start, LoopInv, Alive, loopVars
<1>5. ASSUME NEW t \in Threads, Spawn(t) PROVE LoopInv'
  <2>1. WaitOnStop = {TRUE} => Alive' = {t}
    BY <1>5 DEF Spawn, LoopInv, Alive
  <2> QED
    BY <1>5, <2>1 DEF Spawn, LoopInv
<1>6. ASSUME NEW wait \in WaitOnStop, Stop(wait) PROVE LoopInv'
  BY <1>6 DEF Stop, LoopInv, Alive, loopVars
<1>7. CASE \E j \in Jobs : StopUnsubscribes(j)
  BY <1>7, LoopInvFrame DEF StopUnsubscribes, loopVars
<1>8. CASE SetStopEvent
  <2>1. Alive' = Alive /\ (thread = NoThread /\ Alive \subseteq {thread} => Alive = {})
    BY <1>8 DEF SetStopEvent, Alive, loopVars
  <2> QED
    BY <1>8, <2>1 DEF SetStopEvent, LoopInv, loopVars
<1>9. CASE Join
  <2>1. Alive' = Alive /\ (Alive \subseteq {thread} => Alive = {})
    BY <1>9 DEF Join, Alive, loopVars
  <2> QED
    BY <1>9, <2>1 DEF Join, LoopInv, loopVars
<1>10. ASSUME NEW t \in Threads, LoopStep(t) PROVE LoopInv'
  BY <1>10, GotoKeepsLoopInv, LoopInvFrame
     DEF LoopStep, CheckStop, ListDue, Fire, FireFails, FireUnscheduled, DropCancelled,
         EndWait, lifeVars
<1> QED
  BY <1>1, <1>2, <1>3, <1>4, <1>5, <1>6, <1>7, <1>8, <1>9, <1>10 DEF Next, StopStep

(* The invariant says what OneLoop says.                                   *)
LEMMA LoopInvImpliesOneLoop == LoopInv => OneLoop
<1> SUFFICES ASSUME LoopInv, WaitOnStop = {TRUE}
             PROVE  /\ Cardinality(Alive) <= 1
                    /\ control = "idle" /\ ~started => Alive = {}
  BY DEF OneLoop
<1>1. Alive = {} \/ Alive = {thread}
  BY DEF LoopInv
<1>2. Cardinality({}) = 0 /\ Cardinality({thread}) = 1
  BY FS_EmptySet, FS_Singleton
<1> QED
  BY <1>1, <1>2 DEF LoopInv

(* start(), stop() and the loops they spawn and join: at most one loop     *)
(* ticks, and none once stop(wait=True) has returned (schedule.py:485-521, *)
(* 571-585), for all jobs, schedules and failures.                         *)
THEOREM OneLoopAlways == Spec => []OneLoop
<1>1. Init => LoopInv
  BY LoopInvInit
<1>2. LoopInv /\ [Next]_vars => LoopInv'
  BY LoopInvStep
<1>3. LoopInv => OneLoop
  BY LoopInvImpliesOneLoop
<1> QED
  BY <1>1, <1>2, <1>3, PTL DEF Spec
-----------------------------------------------------------------------------
(* The jobs, their subscriptions and the ticks.                            *)

(* TypeOK, with the clock within its bound and no tick in the future.      *)
SchedType ==
  /\ clock \in 0 .. MaxClock
  /\ jobs \in Seq(Jobs)
  /\ nextFire \in [Jobs -> Nat] /\ fired \in [Jobs -> Nat] /\ ackFired \in [Jobs -> Nat]
  /\ cancelled \in [Jobs -> BOOLEAN]
  /\ register \in [Jobs -> {"none", "subscribed", "stored", "listed"}]
  /\ cancel \in [Jobs -> {"none", "flagged", "acked"}]
  /\ unsub \subseteq Jobs /\ subscribed \subseteq Jobs /\ handling \subseteq Jobs
  /\ stopping \subseteq Jobs
  /\ now \in [Threads -> 0 .. MaxClock]
  /\ todo \in [Threads -> Seq(Jobs)]
  /\ \A t \in Threads : now[t] <= clock

(* Firings and cancellations are of jobs that have been listed; handlers   *)
(* are of event jobs that have subscribed.                                 *)
ListInv ==
  /\ Distinct(jobs)
  /\ \A j \in Jobs :
       /\ j \in Registered \/ cancelled[j] \/ (fired[j] > 0 /\ ~IsEvent(j)) => register[j] = "listed"
       /\ cancel[j] # "none" => cancelled[j]
       /\ j \in subscribed \cup handling => IsEvent(j) /\ register[j] # "none"
       /\ register[j] \in {"subscribed", "stored"} => IsEvent(j)

(* A handler the event source holds can still be taken away from it.       *)
SubInv ==
  \A j \in subscribed : /\ register[j] \in {"stored", "listed"} => j \in unsub
                        /\ register[j] = "listed" => j \in Registered
                        /\ cancel[j] # "acked"

(* Only a thread that fires has jobs to fire, each once.                   *)
TickInv ==
  \A t \in Threads : /\ todo[t] # <<>> => loop[t] = "fire"
                     /\ Distinct(todo[t])
                     /\ \A j \in ListElements(todo[t]) : register[j] = "listed" /\ ~IsEvent(j)

SubscriptionInv == LoopInv /\ SchedType /\ ListInv /\ SubInv /\ TickInv

LEMMA InitSched == Init => SubscriptionInv
<1> SUFFICES ASSUME Init PROVE SubscriptionInv
  OBVIOUS
<1>1. SchedType
  BY SchedulerAssumption DEF Init, SchedType
<1>2. Registered = {} /\ jobs = <<>>
  BY DEF Init, Registered
<1>3. ListInv
  BY <1>2 DEF Init, ListInv, Distinct
<1>4. SubInv
  BY DEF Init, SubInv
<1>5. TickInv
  <2>1. \A t \in Threads : todo[t] = <<>>
    BY DEF Init
  <2>2. Distinct(<<>>) /\ ListElements(<<>>) = {}
    BY DEF Distinct, ListElements
  <2> QED BY <2>1, <2>2 DEF TickInv
<1> QED BY <1>1, <1>3, <1>4, <1>5, LoopInvInit DEF SubscriptionInv

(* Registered, by positions.                                               *)
LEMMA RegisteredElements ==
  ASSUME SchedType
  PROVE  Registered = ListElements(jobs) /\ Registered \subseteq Jobs /\ Len(jobs) \in Nat
BY DEF SchedType, Registered, ListElements

LEMMA FirstFireType ==
  ASSUME SchedType, NEW j \in Jobs, ~IsEvent(j), Schedulable(j, clock)
  PROVE  FirstFire(j) \in Nat
<1>1. /\ Kind[j] \in {"interval", "cron", "once"} /\ Period[j] \in Nat
      /\ clock \in Nat
  BY SchedulerAssumption DEF SchedType, IsEvent
<1>2. Kind[j] = "cron" => NextAfter[j][clock] \in Nat
  BY SchedulerAssumption DEF SchedType, Schedulable
<1> QED BY <1>1, <1>2 DEF FirstFire

LEMMA NextFireType ==
  ASSUME SchedType, NEW j \in Jobs, ~IsEvent(j), NEW t \in 0 .. MaxClock, Schedulable(j, t)
  PROVE  NextFire(j, t) \in Nat
<1>1. /\ Kind[j] \in {"interval", "cron", "once"} /\ Period[j] \in Nat
      /\ t \in Nat /\ nextFire[j] \in Nat
  BY SchedulerAssumption DEF SchedType, IsEvent
<1>2. Kind[j] = "cron" => NextAfter[j][t] \in Nat
  BY SchedulerAssumption DEF Schedulable
<1> QED BY <1>1, <1>2 DEF NextFire

(* The job at the head of a tick's list, and the rest of it.               *)
LEMMA TodoHead ==
  ASSUME SchedType, TickInv, NEW t \in Threads, todo[t] # <<>>
  PROVE  /\ Head(todo[t]) \in Jobs /\ Tail(todo[t]) \in Seq(Jobs)
         /\ Distinct(Tail(todo[t]))
         /\ ListElements(Tail(todo[t])) = ListElements(todo[t]) \ {Head(todo[t])}
         /\ Head(todo[t]) \in ListElements(todo[t])
BY TailElements DEF SchedType, TickInv

(* A submission counts one more, or stops counting.                        *)
LEMMA CountStep ==
  ASSUME NEW f \in [Jobs -> Nat], NEW g, NEW j \in Jobs,
         g = [f EXCEPT ![j] = f[j] + 1] \/ g = [f EXCEPT ![j] = f[j]]
  PROVE  /\ g \in [Jobs -> Nat] /\ g[j] \in {f[j], f[j] + 1}
         /\ \A k \in Jobs \ {j} : g[k] = f[k]
OBVIOUS

LEMMA SubmittedStep ==
  ASSUME SchedType, NEW j \in Jobs, Submitted(j)
  PROVE  /\ fired' \in [Jobs -> Nat] /\ fired'[j] \in {fired[j], fired[j] + 1}
         /\ \A k \in Jobs \ {j} : fired'[k] = fired[k]
<1>1. fired' = [fired EXCEPT ![j] = fired[j] + 1] \/ fired' = [fired EXCEPT ![j] = fired[j]]
  BY DEF Submitted
<1>2. fired \in [Jobs -> Nat]
  BY DEF SchedType
<1> QED BY <1>1, <1>2, CountStep

LEMMA HandlerStep ==
  ASSUME SchedType, NEW j \in Jobs, HandlerSubmits(j)
  PROVE  /\ fired' \in [Jobs -> Nat] /\ j \in handling /\ handling' = handling \ {j}
         /\ \A k \in Jobs \ {j} : fired'[k] = fired[k]
<1>1. fired' = [fired EXCEPT ![j] = fired[j] + 1] \/ fired' = fired
  BY DEF HandlerSubmits
<1>2. fired \in [Jobs -> Nat]
  BY DEF SchedType
<1> QED BY <1>1, <1>2, CountStep DEF HandlerSubmits

LEMMA SchedTypeStep == SchedType /\ TickInv /\ [Next]_vars => SchedType'
<1> SUFFICES ASSUME SchedType, TickInv, [Next]_vars PROVE SchedType'
  OBVIOUS
<1> USE DEF jobVars, eventVars, lifeVars, loopVars
<1>1. CASE UNCHANGED vars
  BY <1>1 DEF vars, SchedType
<1>2. CASE TickClock
  BY <1>2, SchedulerAssumption DEF TickClock, SchedType
<1>3. ASSUME NEW j \in Jobs, AddJob(j) PROVE SchedType'
  <2>1. FirstFire(j) \in Nat
    BY <1>3, FirstFireType DEF AddJob
  <2> QED BY <1>3, <2>1 DEF AddJob, SchedType
<1>4. ASSUME NEW j \in Jobs, Subscribe(j) \/ StoreUnsubscribe(j) \/ Publish(j) \/ Cancel(j)
      PROVE  SchedType'
  BY <1>4 DEF Subscribe, StoreUnsubscribe, Publish, Cancel, SchedType
<1>14. ASSUME NEW j \in Jobs, ListEventJob(j) PROVE SchedType'
  BY <1>14 DEF ListEventJob, SchedType
<1>5. ASSUME NEW j \in Jobs, HandlerSubmits(j) PROVE SchedType'
  BY <1>5, HandlerStep DEF HandlerSubmits, SchedType
<1>6. ASSUME NEW j \in Jobs, CancelReturns(j) \/ StopUnsubscribes(j) PROVE SchedType'
  BY <1>6 DEF CancelReturns, StopUnsubscribes, Unsubscribed, SchedType
<1>7. ASSUME NEW wait \in WaitOnStop, Stop(wait) PROVE SchedType'
  BY <1>7, RegisteredElements DEF Stop, SchedType
<1>8. CASE Start \/ SetStopEvent \/ Join
  BY <1>8 DEF Start, SetStopEvent, Join, SchedType
<1>9. ASSUME NEW t \in Threads, Spawn(t) \/ CheckStop(t) \/ EndWait(t) PROVE SchedType'
  BY <1>9 DEF Spawn, CheckStop, EndWait, Goto, SchedType
<1>10. ASSUME NEW t \in Threads, ListDue(t) PROVE SchedType'
  <2>1. Kept(jobs, {j \in Jobs : Due(j, clock)}) \in Seq(Jobs)
    BY KeptElements DEF SchedType
  <2>2. clock \in 0 .. MaxClock /\ clock <= clock
    BY SchedulerAssumption DEF SchedType
  <2> QED BY <1>10, <2>1, <2>2 DEF ListDue, SchedType
<1>11. ASSUME NEW t \in Threads, DropCancelled(t) PROVE SchedType'
  <2>1. Kept(jobs, {j \in Jobs : ~cancelled[j]}) \in Seq(Jobs)
    BY KeptElements DEF SchedType
  <2>2. 0 \in 0 .. MaxClock /\ 0 <= clock
    BY SchedulerAssumption DEF SchedType
  <2> QED BY <1>11, <2>1, <2>2 DEF DropCancelled, Unsubscribed, SchedType
<1>12. ASSUME NEW t \in Threads, Fire(t) PROVE SchedType'
  <2>1. Head(todo[t]) \in Jobs /\ Tail(todo[t]) \in Seq(Jobs) /\ ~IsEvent(Head(todo[t]))
    BY <1>12, TodoHead DEF Fire, TickInv
  <2>2. NextFire(Head(todo[t]), now[t]) \in Nat
    BY <1>12, <2>1, NextFireType DEF Fire, SchedType
  <2>3. cancelled[Head(todo[t])] \/ Ends(Head(todo[t])) \in BOOLEAN
    BY DEF SchedType, Ends
  <2>4. fired' \in [Jobs -> Nat]
    BY <1>12, <2>1, SubmittedStep DEF Fire
  <2> QED BY <1>12, <2>1, <2>2, <2>3, <2>4 DEF Fire, SchedType
<1>13. ASSUME NEW t \in Threads, FireFails(t) \/ FireUnscheduled(t) PROVE SchedType'
  <2>1. 0 \in 0 .. MaxClock /\ 0 <= clock /\ <<>> \in Seq(Jobs)
    BY SchedulerAssumption DEF SchedType
  <2>2. /\ clock' = clock /\ jobs' = jobs /\ nextFire' = nextFire /\ ackFired' = ackFired
        /\ cancelled' = cancelled /\ register' = register /\ cancel' = cancel /\ unsub' = unsub
        /\ subscribed' = subscribed /\ handling' = handling /\ stopping' = stopping
        /\ todo' = [todo EXCEPT ![t] = <<>>] /\ now' = [now EXCEPT ![t] = 0]
    BY <1>13 DEF FireFails, FireUnscheduled
  <2>3. fired' \in [Jobs -> Nat]
    <3>1. todo[t] # <<>> => Head(todo[t]) \in Jobs
      BY TodoHead
    <3>2. fired' = fired \/ (todo[t] # <<>> /\ Submitted(Head(todo[t])))
      BY <1>13 DEF FireFails, FireUnscheduled
    <3> QED BY <3>1, <3>2, SubmittedStep DEF SchedType
  <2> QED BY <2>1, <2>2, <2>3 DEF SchedType
<1> QED BY <1>1, <1>2, <1>3, <1>4, <1>5, <1>6, <1>7, <1>8, <1>9, <1>10, <1>11, <1>12, <1>13, <1>14
        DEF Next, Registration, StopStep, LoopStep

(* A step that touches neither the list nor what its jobs are.             *)
LEMMA ListInvFrame ==
  ASSUME ListInv, UNCHANGED <<jobs, cancelled, fired, register, cancel, subscribed, handling>>
  PROVE  ListInv'
<1>1. Registered' = Registered
  BY DEF Registered
<1> QED BY <1>1 DEF ListInv, Distinct

LEMMA ListInvStep == SchedType /\ ListInv /\ TickInv /\ [Next]_vars => ListInv'
<1> SUFFICES ASSUME SchedType, ListInv, TickInv, [Next]_vars PROVE ListInv'
  OBVIOUS
<1> USE DEF jobVars, eventVars, lifeVars, loopVars
<1>1. CASE UNCHANGED vars \/ TickClock \/ Start \/ SetStopEvent \/ Join
  BY <1>1, ListInvFrame DEF vars, TickClock, Start, SetStopEvent, Join
<1>2. ASSUME NEW wait \in WaitOnStop, Stop(wait) PROVE ListInv'
  BY <1>2, ListInvFrame DEF Stop
<1>3. ASSUME NEW t \in Threads,
             Spawn(t) \/ CheckStop(t) \/ EndWait(t) \/ ListDue(t) \/ FireFails(t)
      PROVE  ListInv'
  BY <1>3, ListInvFrame DEF Spawn, CheckStop, EndWait, ListDue, FireFails
<1>4. ASSUME NEW j \in Jobs, AddJob(j) \/ ListEventJob(j) PROVE ListInv'
  <2>1. /\ register[j] \in {"none", "stored"} /\ jobs' = Append(jobs, j)
        /\ register' = [register EXCEPT ![j] = "listed"]
        /\ UNCHANGED <<cancelled, cancel, fired, subscribed, handling>>
    BY <1>4 DEF AddJob, ListEventJob
  <2>2. j \notin ListElements(jobs)
    BY <2>1, RegisteredElements DEF ListInv
  <2>3. jobs' \in Seq(Jobs) /\ Distinct(jobs') /\ ListElements(jobs') = ListElements(jobs) \cup {j}
    <3>1. jobs \in Seq(Jobs) /\ Distinct(jobs)
      BY DEF ListInv, SchedType
    <3> QED BY <2>1, <2>2, <3>1, AppendedElements
  <2>4. Registered' = Registered \cup {j}
    <3>1. Registered' = ListElements(jobs')
      BY <2>3 DEF Registered, ListElements
    <3> QED BY <2>3, <3>1, RegisteredElements
  <2> QED BY <2>1, <2>3, <2>4 DEF ListInv, SchedType
<1>5. ASSUME NEW j \in Jobs, Subscribe(j) \/ StoreUnsubscribe(j) PROVE ListInv'
  BY <1>5 DEF Subscribe, StoreUnsubscribe, ListInv, SchedType, Registered
<1>6. ASSUME NEW j \in Jobs, Publish(j) PROVE ListInv'
  BY <1>6 DEF Publish, ListInv, SchedType, Registered
<1>10. ASSUME NEW j \in Jobs, HandlerSubmits(j) PROVE ListInv'
  <2>1. /\ handling' = handling \ {j} /\ IsEvent(j)
        /\ \A k \in Jobs \ {j} : fired'[k] = fired[k]
        /\ UNCHANGED <<jobs, cancelled, register, cancel, subscribed>>
    BY <1>10, HandlerStep DEF HandlerSubmits, ListInv
  <2>2. Registered' = Registered
    BY <2>1 DEF Registered
  <2> QED BY <2>1, <2>2 DEF ListInv
<1>7. ASSUME NEW j \in Jobs, Cancel(j) \/ CancelReturns(j) \/ StopUnsubscribes(j) PROVE ListInv'
  BY <1>7 DEF Cancel, CancelReturns, StopUnsubscribes, Unsubscribed, ListInv, SchedType, Registered
<1>8. ASSUME NEW t \in Threads, Fire(t) \/ FireUnscheduled(t) PROVE ListInv'
  <2>1. /\ Head(todo[t]) \in Jobs /\ register[Head(todo[t])] = "listed"
        /\ UNCHANGED <<jobs, cancel, register, subscribed, handling>>
        /\ Submitted(Head(todo[t]))
    BY <1>8, TodoHead DEF Fire, FireUnscheduled, TickInv
  <2>2. \A j \in Jobs : /\ cancelled[j] => cancelled'[j]
                        /\ j # Head(todo[t]) => cancelled'[j] = cancelled[j] /\ fired'[j] = fired[j]
    BY <1>8, <2>1 DEF Fire, FireUnscheduled, Submitted, SchedType
  <2>3. Registered' = Registered
    BY <2>1 DEF Registered
  <2> QED BY <2>1, <2>2, <2>3 DEF ListInv
<1>9. ASSUME NEW t \in Threads, DropCancelled(t) PROVE ListInv'
  <2> DEFINE live == {j \in Jobs : ~cancelled[j]}
  <2>1. /\ jobs' = Kept(jobs, live) /\ subscribed' \subseteq subscribed
        /\ UNCHANGED <<cancelled, cancel, fired, register, handling>>
    BY <1>9 DEF DropCancelled, Unsubscribed
  <2> HIDE DEF live
  <2>2. jobs' \in Seq(Jobs) /\ Distinct(jobs') /\ ListElements(jobs') = ListElements(jobs) \cap live
    BY <2>1, KeptElements DEF ListInv, SchedType
  <2>3. Registered' = ListElements(jobs')
    BY <2>2 DEF Registered, ListElements
  <2>4. Registered' \subseteq Registered
    BY <2>2, <2>3, RegisteredElements
  <2> QED BY <2>1, <2>2, <2>4 DEF ListInv
<1> QED BY <1>1, <1>2, <1>3, <1>4, <1>5, <1>6, <1>7, <1>8, <1>9, <1>10
        DEF Next, Registration, StopStep, LoopStep

LEMMA SubInvFrame ==
  ASSUME SubInv, UNCHANGED <<jobs, register, cancel, unsub, subscribed>>
  PROVE  SubInv'
<1>1. Registered' = Registered
  BY DEF Registered
<1> QED BY <1>1 DEF SubInv

LEMMA SubInvStep == SubscriptionInv /\ [Next]_vars => SubInv'
<1> SUFFICES ASSUME SchedType, ListInv, SubInv, [Next]_vars PROVE SubInv'
  BY DEF SubscriptionInv
<1> USE DEF jobVars, eventVars, lifeVars, loopVars
<1>1. CASE UNCHANGED vars \/ TickClock \/ Start \/ SetStopEvent \/ Join
  BY <1>1, SubInvFrame DEF vars, TickClock, Start, SetStopEvent, Join
<1>2. ASSUME NEW wait \in WaitOnStop, Stop(wait) PROVE SubInv'
  BY <1>2, SubInvFrame DEF Stop
<1>3. ASSUME NEW t \in Threads,
             \/ Spawn(t) \/ CheckStop(t) \/ EndWait(t) \/ ListDue(t)
             \/ Fire(t) \/ FireFails(t) \/ FireUnscheduled(t)
      PROVE  SubInv'
  BY <1>3, SubInvFrame DEF Spawn, CheckStop, EndWait, ListDue, Fire, FireFails, FireUnscheduled
<1>4. ASSUME NEW j \in Jobs, AddJob(j) \/ ListEventJob(j) PROVE SubInv'
  <2>1. /\ jobs' = Append(jobs, j) /\ register' = [register EXCEPT ![j] = "listed"]
        /\ AddJob(j) => register[j] = "none"
        /\ ListEventJob(j) => register[j] = "stored"
        /\ UNCHANGED <<cancel, unsub, subscribed>>
    BY <1>4 DEF AddJob, ListEventJob
  <2>2. j \in subscribed => j \in unsub
    BY <1>4, <2>1 DEF ListInv, SubInv
  <2>3. Registered \cup {j} \subseteq Registered'
    <3>1. jobs' \in Seq(Jobs) /\ ListElements(jobs') = ListElements(jobs) \cup {j}
      BY <2>1, AppendedElements DEF SchedType
    <3>2. Registered' = ListElements(jobs')
      BY <3>1 DEF Registered, ListElements
    <3> QED BY <3>1, <3>2, RegisteredElements
  <2> QED BY <2>1, <2>2, <2>3 DEF SubInv, SchedType
<1>5. ASSUME NEW j \in Jobs, Subscribe(j) PROVE SubInv'
  <2>1. cancel[j] = "none"
    BY <1>5 DEF Subscribe, ListInv, SchedType
  <2> QED BY <1>5, <2>1 DEF Subscribe, SubInv, SchedType, Registered
<1>6. ASSUME NEW j \in Jobs, StoreUnsubscribe(j) PROVE SubInv'
  BY <1>6 DEF StoreUnsubscribe, SubInv, SchedType, Registered
<1>7. ASSUME NEW j \in Jobs, Publish(j) \/ HandlerSubmits(j) PROVE SubInv'
  BY <1>7, SubInvFrame DEF Publish, HandlerSubmits
<1>8. ASSUME NEW j \in Jobs, Cancel(j) \/ StopUnsubscribes(j) PROVE SubInv'
  BY <1>8 DEF Cancel, StopUnsubscribes, Unsubscribed, SubInv, SchedType, Registered
<1>9. ASSUME NEW j \in Jobs, CancelReturns(j) PROVE SubInv'
  <2>1. /\ unsub' = unsub \ {j} /\ subscribed' = subscribed \ ({j} \cap unsub)
        /\ cancel' = [cancel EXCEPT ![j] = "acked"] /\ UNCHANGED <<jobs, register>>
        /\ register[j] = "listed"
    BY <1>9 DEF CancelReturns, Unsubscribed, ListInv
  <2>2. j \notin subscribed'
    BY <2>1 DEF SubInv
  <2> QED BY <2>1, <2>2 DEF SubInv, SchedType, Registered
<1>10. ASSUME NEW t \in Threads, DropCancelled(t) PROVE SubInv'
  <2> DEFINE live == {j \in Jobs : ~cancelled[j]}
             gone == {j \in Registered : cancelled[j]}
  <2>1. /\ jobs' = Kept(jobs, live) /\ UNCHANGED <<register, cancel>>
        /\ unsub' = unsub \ gone /\ subscribed' = subscribed \ (gone \cap unsub)
    BY <1>10 DEF DropCancelled, Unsubscribed
  <2>2. Registered' = Registered \cap live
    <3> HIDE DEF live
    <3>1. jobs' \in Seq(Jobs) /\ ListElements(jobs') = ListElements(jobs) \cap live
      BY <2>1, KeptElements DEF SchedType
    <3>2. Registered' = ListElements(jobs')
      BY <3>1 DEF Registered, ListElements
    <3> QED BY <3>1, <3>2, RegisteredElements
  <2>3. ASSUME NEW j \in subscribed'
        PROVE  /\ register[j] \in {"stored", "listed"} => j \in unsub'
               /\ register[j] = "listed" => j \in Registered'
    <3>1. j \in subscribed /\ (j \in unsub => j \notin gone) /\ j \in Jobs
      BY <2>1 DEF SchedType
    <3>2. CASE register[j] \in {"stored", "listed"}
      <4>1. j \in unsub /\ j \notin gone
        BY <3>1, <3>2 DEF SubInv
      <4>2. register[j] = "listed" => j \in Registered
        BY <3>1 DEF SubInv
      <4> QED BY <2>1, <2>2, <3>1, <4>1, <4>2
    <3> QED BY <3>2
  <2> QED BY <2>1, <2>3 DEF SubInv
<1> QED BY <1>1, <1>2, <1>3, <1>4, <1>5, <1>6, <1>7, <1>8, <1>9, <1>10
        DEF Next, Registration, StopStep, LoopStep

LEMMA TickInvStep == LoopInv /\ SchedType /\ ListInv /\ TickInv /\ [Next]_vars => TickInv'
<1> SUFFICES ASSUME LoopInv, SchedType, ListInv, TickInv, [Next]_vars PROVE TickInv'
  OBVIOUS
<1> USE DEF jobVars, eventVars, lifeVars, loopVars
<1>1. ASSUME UNCHANGED todo, \A t \in Threads : loop[t] = "fire" => loop'[t] = "fire",
             \A j \in Jobs : register[j] = "listed" => register'[j] = "listed"
      PROVE  TickInv'
  <2>1. \A t \in Threads : ListElements(todo[t]) \subseteq Jobs
    BY DEF SchedType, ListElements
  <2> QED BY <1>1, <2>1 DEF TickInv
<1>2. CASE UNCHANGED vars \/ TickClock \/ Start \/ SetStopEvent \/ Join
  BY <1>1, <1>2 DEF vars, TickClock, Start, SetStopEvent, Join
<1>3. ASSUME NEW wait \in WaitOnStop, Stop(wait) PROVE TickInv'
  BY <1>1, <1>3 DEF Stop
<1>4. ASSUME NEW j \in Jobs,
             \/ Registration(j) \/ Publish(j) \/ HandlerSubmits(j)
             \/ Cancel(j) \/ CancelReturns(j) \/ StopUnsubscribes(j)
      PROVE  TickInv'
  <2>1. UNCHANGED <<todo, loop>>
    BY <1>4 DEF Registration, AddJob, Subscribe, StoreUnsubscribe, ListEventJob, Publish,
                HandlerSubmits, Cancel, CancelReturns, StopUnsubscribes
  <2>2. \A k \in Jobs : register[k] = "listed" => register'[k] = "listed"
    BY <1>4 DEF Registration, AddJob, Subscribe, StoreUnsubscribe, ListEventJob, Publish,
                HandlerSubmits, Cancel, CancelReturns, StopUnsubscribes, SchedType
  <2> QED BY <1>1, <2>1, <2>2
<1>5. ASSUME NEW t \in Threads, Spawn(t) \/ CheckStop(t) \/ EndWait(t) PROVE TickInv'
  <2>1. UNCHANGED <<todo, register>> /\ loop[t] # "fire"
        /\ \E place : loop' = [loop EXCEPT ![t] = place]
    BY <1>5 DEF Spawn, CheckStop, EndWait, Goto, Alive
  <2>2. \A u \in Threads : loop[u] = "fire" => loop'[u] = loop[u]
    BY <2>1
  <2> QED BY <1>1, <2>1, <2>2
<1>6. ASSUME NEW t \in Threads, UNCHANGED <<register>>, NEW s \in Seq(Jobs), Distinct(s),
             todo' = [todo EXCEPT ![t] = s], s # <<>> => loop'[t] = "fire",
             \A u \in Threads \ {t} : loop'[u] = loop[u],
             \A j \in ListElements(s) : register[j] = "listed" /\ ~IsEvent(j)
      PROVE  TickInv'
  <2>1. todo'[t] = s /\ \A u \in Threads \ {t} : todo'[u] = todo[u]
    BY <1>6 DEF SchedType
  <2> QED BY <1>6, <2>1 DEF TickInv
<1>7. ASSUME NEW t \in Threads, ListDue(t) PROVE TickInv'
  <2> DEFINE due == {j \in Jobs : Due(j, clock)}
             s == Kept(jobs, due)
  <2>1. /\ todo' = [todo EXCEPT ![t] = s] /\ loop' = [loop EXCEPT ![t] = "fire"]
        /\ UNCHANGED register /\ loop[t] = "list"
    BY <1>7 DEF ListDue, Goto
  <2>2. \A j \in due : ~IsEvent(j)
    BY DEF Due
  <2>3. s \in Seq(Jobs) /\ Distinct(s) /\ ListElements(s) = ListElements(jobs) \cap due
    BY KeptElements DEF SchedType, ListInv
  <2>4. \A j \in ListElements(s) : register[j] = "listed" /\ ~IsEvent(j)
    BY <2>2, <2>3, RegisteredElements DEF ListInv
  <2> HIDE DEF s, due
  <2>5. loop'[t] = "fire" /\ \A u \in Threads \ {t} : loop'[u] = loop[u]
    BY <2>1 DEF LoopInv
  <2> QED BY <1>6, <2>1, <2>3, <2>4, <2>5
<1>8. ASSUME NEW t \in Threads, DropCancelled(t) PROVE TickInv'
  BY <1>8 DEF DropCancelled, Goto, TickInv
<1>9. ASSUME NEW t \in Threads, Fire(t) PROVE TickInv'
  <2>1. /\ Tail(todo[t]) \in Seq(Jobs) /\ Distinct(Tail(todo[t]))
        /\ ListElements(Tail(todo[t])) \subseteq ListElements(todo[t])
    BY <1>9, TodoHead DEF Fire
  <2>2. /\ todo' = [todo EXCEPT ![t] = Tail(todo[t])] /\ loop' = loop /\ loop[t] = "fire"
        /\ register' = register
    BY <1>9 DEF Fire
  <2>3. \A j \in ListElements(Tail(todo[t])) : register[j] = "listed" /\ ~IsEvent(j)
    BY <2>1 DEF TickInv
  <2> QED BY <1>6, <2>1, <2>2, <2>3
<1>10. ASSUME NEW t \in Threads, FireFails(t) \/ FireUnscheduled(t) PROVE TickInv'
  <2>1. /\ todo' = [todo EXCEPT ![t] = <<>>] /\ loop' = [loop EXCEPT ![t] = "wait"]
        /\ register' = register
    BY <1>10 DEF FireFails, FireUnscheduled, Goto
  <2>2. <<>> \in Seq(Jobs) /\ Distinct(<<>>) /\ ListElements(<<>>) = {}
    BY DEF Distinct, ListElements
  <2>3. \A u \in Threads \ {t} : loop'[u] = loop[u]
    BY <2>1
  <2> QED BY <1>6, <2>1, <2>2, <2>3
<1> QED BY <1>2, <1>3, <1>4, <1>5, <1>7, <1>8, <1>9, <1>10 DEF Next, StopStep, LoopStep

(* The scheduler's records agree with each other: what is listed, what is  *)
(* subscribed, and what a tick has still to fire (JobBuilder.do, cancel,   *)
(* stop and tick of schedule.py).                                          *)
THEOREM SubscriptionInvariance == Spec => []SubscriptionInv
<1>1. SubscriptionInv /\ [Next]_vars => SubscriptionInv'
  BY LoopInvStep, SchedTypeStep, ListInvStep, SubInvStep, TickInvStep DEF SubscriptionInv
<1> QED BY <1>1, InitSched, PTL DEF Spec

(* Whoever cancels, stops and ticks at the same time, the event source     *)
(* keeps no handler of a job that has been dropped from the list or whose  *)
(* cancel() has returned (cancel and tick of schedule.py).                 *)
THEOREM NoOrphanSubscriptionAlways == Spec => []NoOrphanSubscription
<1>1. SubscriptionInv => NoOrphanSubscription
  BY DEF SubscriptionInv, SubInv, NoOrphanSubscription
<1> QED BY <1>1, SubscriptionInvariance, PTL

-----------------------------------------------------------------------------
(* How often a job fires.                                                  *)

Pending(j) == \E t \in Threads : j \in ListElements(todo[t])

(* The times up to c and before n that next_after gives the cron job j.    *)
CronTime(j, t) == \E c \in 0 .. t - 1 : NextAfter[j][c] = t
Times(j, c, n) == {t \in 1 .. c : CronTime(j, t) /\ t < n}

(* What a tick has still to fire was due when it began.                    *)
DueWhenListed == \A t \in Threads : \A j \in ListElements(todo[t]) : nextFire[j] <= now[t]

(* An interval job's next time counts its firings; a cron job has fired    *)
(* once at most per time before its next one; a cancelled job fires from   *)
(* a list made before, or not at all.                                      *)
CancelInv(j) == cancel[j] = "acked" /\ ~IsEvent(j) =>
                  fired[j] <= ackFired[j] + (IF Pending(j) THEN 0 ELSE 1)
IntervalInv(j) == Kind[j] = "interval" /\ register[j] = "listed" =>
                    (fired[j] + 1) * Period[j] <= nextFire[j] /\ fired[j] * Period[j] <= clock
OnceInv(j) == Kind[j] = "once" => fired[j] <= 1 /\ (fired[j] > 0 => cancelled[j] /\ ~Pending(j))
CronInv(j) == Kind[j] = "cron" /\ Regular(j) /\ register[j] = "listed" =>
                /\ nextFire[j] \in Nat \ {0} /\ CronTime(j, nextFire[j])
                /\ fired[j] <= Cardinality(Times(j, clock, nextFire[j]))

JobInv(j) == CancelInv(j) /\ IntervalInv(j) /\ OnceInv(j) /\ CronInv(j)

FireInv == WaitOnStop = {TRUE} => DueWhenListed /\ \A j \in Jobs : JobInv(j)

(* More time, or a later next firing, leaves room for as many firings ...  *)
LEMMA TimesMonotone ==
  ASSUME NEW j, NEW c \in Nat, NEW d \in Nat, c <= d, NEW n \in Nat, NEW m \in Nat, n <= m
  PROVE  /\ IsFiniteSet(Times(j, d, m)) /\ Cardinality(Times(j, d, m)) \in Nat
         /\ Cardinality(Times(j, c, n)) <= Cardinality(Times(j, d, m))
<1>1. IsFiniteSet(1 .. d)
  BY FS_Interval
<1>2. IsFiniteSet(Times(j, d, m))
  BY <1>1, FS_Subset DEF Times
<1>3. Times(j, c, n) \subseteq Times(j, d, m)
  BY DEF Times
<1> QED BY <1>2, <1>3, FS_Subset, FS_CardinalityType

(* ... and for one more, when the time of the last has passed.             *)
LEMMA TimesGrow ==
  ASSUME NEW j, NEW c \in Nat, NEW n \in 1 .. c, CronTime(j, n), NEW m \in Nat, n < m
  PROVE  Cardinality(Times(j, c, n)) + 1 <= Cardinality(Times(j, c, m))
<1>1. IsFiniteSet(1 .. c)
  BY FS_Interval
<1>2. IsFiniteSet(Times(j, c, m)) /\ IsFiniteSet(Times(j, c, n))
  BY <1>1, FS_Subset DEF Times
<1>3. n \notin Times(j, c, n) /\ Times(j, c, n) \cup {n} \subseteq Times(j, c, m)
  BY DEF Times
<1>4. Cardinality(Times(j, c, n) \cup {n}) = Cardinality(Times(j, c, n)) + 1
  BY <1>2, <1>3, FS_AddElement
<1> QED BY <1>2, <1>3, <1>4, FS_Subset

LEMMA IntervalStep ==
  ASSUME NEW f \in Nat, NEW d \in Nat \ {0}, NEW n \in Nat, NEW t \in Nat,
         (f + 1) * d <= n, n <= t,
         NEW m, m = IF n + d < t THEN t + d ELSE n + d
  PROVE  /\ ((f + 1) + 1) * d <= m /\ (f + 1) * d <= m /\ (f + 1) * d <= t
<1>1. ((f + 1) + 1) * d = (f + 1) * d + d
  OBVIOUS
<1> DEFINE q == (f + 1) * d
<1>2. q \in Nat /\ ((f + 1) + 1) * d = q + d /\ q <= n
  BY <1>1
<1> HIDE DEF q
<1>3. q + d <= m /\ q <= m /\ q <= t
  BY <1>2
<1> QED BY <1>2, <1>3 DEF q

(* One thread at most has jobs to fire.                                    *)
LEMMA OneTick ==
  ASSUME LoopInv, TickInv, WaitOnStop = {TRUE},
         NEW t \in Threads, todo[t] # <<>>, NEW u \in Threads, todo[u] # <<>>
  PROVE  t = u
BY DEF LoopInv, TickInv, Alive

(* What happens to other jobs, and what makes a job only due.              *)
LEMMA JobInvFrame ==
  ASSUME SchedType, ListInv, NEW j \in Jobs, JobInv(j),
         \/ IsEvent(j)
         \/ /\ fired'[j] = fired[j] /\ nextFire'[j] = nextFire[j]
            /\ cancel'[j] = cancel[j] /\ ackFired'[j] = ackFired[j]
            /\ register'[j] = register[j] /\ (cancelled[j] => cancelled'[j])
            /\ clock' \in Nat /\ clock <= clock'
            /\ Pending(j)' => Pending(j) \/ ~cancelled[j]
  PROVE  JobInv(j)'
<1>1. CASE IsEvent(j)
  BY <1>1 DEF JobInv, CancelInv, IntervalInv, OnceInv, CronInv, IsEvent
<1>2. CASE ~IsEvent(j)
  <2>1. /\ fired[j] \in Nat /\ ackFired[j] \in Nat /\ nextFire[j] \in Nat /\ clock \in Nat
        /\ Period[j] \in Nat /\ fired[j] * Period[j] \in Nat
    BY SchedulerAssumption DEF SchedType
  <2>2. CancelInv(j)'
    BY <1>2, <2>1 DEF JobInv, CancelInv, ListInv, IsEvent
  <2>3. IntervalInv(j)'
    BY <1>2, <2>1 DEF JobInv, IntervalInv
  <2>4. OnceInv(j)'
    BY <1>2, <2>1 DEF JobInv, OnceInv
  <2>5. CronInv(j)'
    <3>1. /\ Cardinality(Times(j, clock, nextFire[j])) <= Cardinality(Times(j, clock', nextFire[j]))
          /\ Cardinality(Times(j, clock, nextFire[j])) \in Nat
          /\ Cardinality(Times(j, clock', nextFire[j])) \in Nat
      BY <1>2, <2>1, TimesMonotone
    <3>2. CASE Kind[j] = "cron" /\ Regular(j) /\ register[j] = "listed"
      <4>1. /\ nextFire[j] \in Nat \ {0} /\ CronTime(j, nextFire[j])
            /\ fired[j] <= Cardinality(Times(j, clock, nextFire[j]))
        BY <3>2 DEF JobInv, CronInv
      <4>2. fired[j] <= Cardinality(Times(j, clock', nextFire[j]))
        BY <2>1, <3>1, <4>1
      <4> QED BY <1>2, <4>1, <4>2 DEF CronInv, CronTime
    <3>3. CASE ~(Kind[j] = "cron" /\ Regular(j) /\ register[j] = "listed")
      BY <1>2, <3>3 DEF CronInv, Regular, Schedulable
    <3> QED BY <3>2, <3>3
  <2> QED BY <2>2, <2>3, <2>4, <2>5 DEF JobInv
<1> QED BY <1>1, <1>2

(* A job that is put in the list has not fired.                            *)
LEMMA AddJobInv ==
  ASSUME SchedType, ListInv, TickInv, NEW j \in Jobs, AddJob(j)
  PROVE  JobInv(j)'
<1> DEFINE n == FirstFire(j)
<1>1. /\ register[j] = "none" /\ ~IsEvent(j) /\ Schedulable(j, clock)
      /\ nextFire' = [nextFire EXCEPT ![j] = n] /\ register' = [register EXCEPT ![j] = "listed"]
      /\ UNCHANGED <<clock, fired, cancel, cancelled, ackFired, todo>>
  BY DEF AddJob, loopVars
<1>2. /\ fired[j] = 0 /\ cancel[j] = "none"
  BY <1>1 DEF SchedType, ListInv
<1>3. nextFire'[j] = n /\ n \in Nat /\ clock \in Nat /\ Period[j] \in Nat \ {0}
      /\ ackFired[j] \in Nat
  <2>1. n \in Nat
    BY <1>1, FirstFireType
  <2>2. nextFire \in [Jobs -> Nat] /\ clock \in Nat /\ Period[j] \in Nat \ {0} /\ ackFired[j] \in Nat
    BY SchedulerAssumption DEF SchedType
  <2> HIDE DEF n
  <2> QED BY <1>1, <2>1, <2>2
<1>4. CancelInv(j)' /\ OnceInv(j)'
  BY <1>1, <1>2 DEF CancelInv, OnceInv
<1>5. IntervalInv(j)'
  <2>1. SUFFICES ASSUME Kind[j] = "interval"
                 PROVE  (0 + 1) * Period[j] <= n /\ 0 * Period[j] <= clock
    BY <1>1, <1>2, <1>3 DEF IntervalInv
  <2>2. n = clock + Period[j]
    BY <2>1 DEF FirstFire
  <2> QED BY <1>3, <2>2
<1>6. CronInv(j)'
  <2>1. SUFFICES ASSUME Kind[j] = "cron", Regular(j)
                 PROVE  /\ n \in Nat \ {0} /\ CronTime(j, n)
                        /\ 0 <= Cardinality(Times(j, clock, n))
    BY <1>1, <1>2, <1>3 DEF CronInv, Regular, Schedulable, CronTime
  <2>2. n = NextAfter[j][clock] /\ n > clock
    BY <2>1 DEF FirstFire, Regular, SchedType
  <2>3. clock \in 0 .. n - 1 /\ n # 0
    BY <1>3, <2>2
  <2>4. CronTime(j, n)
    BY <2>2, <2>3 DEF CronTime
  <2>5. Cardinality(Times(j, clock, n)) \in Nat
    BY <1>3, TimesMonotone
  <2> QED BY <1>3, <2>3, <2>4, <2>5
<1> QED BY <1>4, <1>5, <1>6 DEF JobInv

(* The job that fires is due, and is fired by no other thread.             *)
LEMMA FireInvHead ==
  ASSUME LoopInv, SchedType, ListInv, TickInv, DueWhenListed, WaitOnStop = {TRUE},
         NEW t \in Threads, NEW j, todo[t] # <<>>, j = Head(todo[t]),
         NEW r, r \in {Tail(todo[t]), <<>>}, todo' = [todo EXCEPT ![t] = r]
  PROVE  /\ j \in Jobs /\ Pending(j) /\ ~Pending(j)' /\ register[j] = "listed" /\ ~IsEvent(j)
         /\ nextFire[j] <= now[t]
         /\ \A k \in Jobs : Pending(k)' => Pending(k)
<1>1. /\ j \in Jobs /\ j \in ListElements(todo[t])
      /\ ListElements(Tail(todo[t])) = ListElements(todo[t]) \ {j}
  BY TodoHead
<1>2. ListElements(<<>>) = {}
  BY DEF ListElements
<1>3. todo'[t] = r /\ \A u \in Threads \ {t} : todo'[u] = todo[u] /\ todo[u] = <<>>
  BY OneTick DEF SchedType
<1>4. ListElements(r) \subseteq ListElements(todo[t]) \ {j}
  BY <1>1, <1>2
<1>5. \A u \in Threads : ListElements(todo'[u]) \subseteq ListElements(todo[t]) \ {j}
  BY <1>2, <1>3, <1>4
<1>6. ~Pending(j)' /\ \A k \in Jobs : Pending(k)' => Pending(k)
  BY <1>5 DEF Pending
<1> QED BY <1>1, <1>6 DEF Pending, TickInv, DueWhenListed

LEMMA FireJobInv ==
  ASSUME LoopInv, SchedType, ListInv, TickInv, DueWhenListed, WaitOnStop = {TRUE},
         NEW t \in Threads, Fire(t), NEW j, j = Head(todo[t]), JobInv(j)
  PROVE  JobInv(j)'
<1> DEFINE n == nextFire[j]
           m == NextFire(j, now[t])
           f == fired[j]
<1>1. /\ todo[t] # <<>> /\ Schedulable(j, now[t]) /\ Submitted(j)
      /\ nextFire' = [nextFire EXCEPT ![j] = m] /\ todo' = [todo EXCEPT ![t] = Tail(todo[t])]
      /\ cancelled' = [cancelled EXCEPT ![j] = cancelled[j] \/ Ends(j)]
      /\ UNCHANGED <<clock, register, cancel, ackFired>>
  BY DEF Fire
<1>2. /\ j \in Jobs /\ Pending(j) /\ ~Pending(j)' /\ register[j] = "listed" /\ ~IsEvent(j)
      /\ n <= now[t]
  BY <1>1, FireInvHead
<1>3. /\ now[t] \in 0 .. MaxClock /\ now[t] \in Nat /\ now[t] <= clock /\ clock \in Nat /\ n \in Nat
      /\ f \in Nat /\ ackFired[j] \in Nat /\ Period[j] \in Nat \ {0}
      /\ nextFire'[j] = m
      /\ m \in Nat
  <2>1. now[t] \in 0 .. MaxClock /\ now[t] <= clock
    BY DEF SchedType
  <2>2. m \in Nat
    BY <1>1, <1>2, <2>1, NextFireType
  <2>3. /\ nextFire \in [Jobs -> Nat] /\ clock \in Nat /\ Period[j] \in Nat \ {0}
        /\ ackFired[j] \in Nat /\ f \in Nat /\ n \in Nat
    BY <1>2, SchedulerAssumption DEF SchedType
  <2> HIDE DEF m
  <2> QED BY <1>1, <1>2, <2>1, <2>2, <2>3
<1>4. fired'[j] \in {f, f + 1}
  BY <1>1, <1>2, SubmittedStep
<1>5. CancelInv(j)'
  BY <1>1, <1>2, <1>3, <1>4 DEF JobInv, CancelInv
<1>6. IntervalInv(j)'
  <2> SUFFICES ASSUME Kind[j] = "interval"
               PROVE  (fired'[j] + 1) * Period[j] <= m /\ fired'[j] * Period[j] <= clock
    BY <1>1, <1>3 DEF IntervalInv
  <2>1. (f + 1) * Period[j] <= n /\ f * Period[j] <= clock
    BY <1>2 DEF JobInv, IntervalInv
  <2>2. m = IF n + Period[j] < now[t] THEN now[t] + Period[j] ELSE n + Period[j]
    BY DEF NextFire
  <2> HIDE DEF m, n, f
  <2>3. /\ ((f + 1) + 1) * Period[j] <= m /\ (f + 1) * Period[j] <= m
        /\ (f + 1) * Period[j] <= now[t]
    BY <1>2, <1>3, <2>1, <2>2, IntervalStep
  <2>4. CASE fired'[j] = f
    BY <2>1, <2>3, <2>4
  <2>5. CASE fired'[j] = f + 1
    <3>1. (f + 1) * Period[j] \in Nat
      BY <1>3
    <3> QED BY <1>3, <2>3, <2>5, <3>1
  <2> QED BY <1>4, <2>4, <2>5
<1>7. OnceInv(j)'
  <2> SUFFICES ASSUME Kind[j] = "once" PROVE fired'[j] <= 1 /\ cancelled'[j]
    BY <1>2 DEF OnceInv
  <2>1. f = 0
    BY <1>2, <1>3 DEF JobInv, OnceInv
  <2>2. cancelled'[j]
    BY <1>1, <1>2 DEF Ends, SchedType
  <2> QED BY <1>4, <2>1, <2>2
<1>8. CronInv(j)'
  <2> SUFFICES ASSUME Kind[j] = "cron", Regular(j)
               PROVE  /\ m \in Nat \ {0} /\ CronTime(j, m)
                      /\ fired'[j] <= Cardinality(Times(j, clock, m))
    BY <1>1, <1>3 DEF CronInv, Regular, Schedulable, CronTime
  <2>1. /\ n \in Nat \ {0} /\ CronTime(j, n) /\ f <= Cardinality(Times(j, clock, n))
    BY <1>2 DEF JobInv, CronInv
  <2>2. m = NextAfter[j][now[t]] /\ m > now[t]
    BY <1>3 DEF NextFire, Regular
  <2>3. now[t] \in 0 .. m - 1 /\ m # 0 /\ n \in 1 .. clock /\ n < m
    BY <1>2, <1>3, <2>1, <2>2
  <2>4. CronTime(j, m)
    BY <2>2, <2>3 DEF CronTime
  <2>5. Cardinality(Times(j, clock, n)) + 1 <= Cardinality(Times(j, clock, m))
    BY <1>3, <2>1, <2>3, TimesGrow
  <2>6. Cardinality(Times(j, clock, n)) \in Nat /\ Cardinality(Times(j, clock, m)) \in Nat
    BY <1>3, TimesMonotone
  <2> HIDE DEF m, n
  <2>7. fired'[j] <= Cardinality(Times(j, clock, m))
    BY <1>3, <1>4, <2>1, <2>5, <2>6
  <2> QED BY <1>3, <2>3, <2>4, <2>7
<1> QED BY <1>5, <1>6, <1>7, <1>8 DEF JobInv

(* A job that cannot be rescheduled is a cron job that is not regular.     *)
LEMMA UnscheduledJobInv ==
  ASSUME LoopInv, SchedType, ListInv, TickInv, DueWhenListed, WaitOnStop = {TRUE},
         NEW t \in Threads, FireUnscheduled(t), NEW j, j = Head(todo[t]), JobInv(j)
  PROVE  JobInv(j)'
<1>1. /\ todo[t] # <<>> /\ ~Schedulable(j, now[t]) /\ Submitted(j)
      /\ todo' = [todo EXCEPT ![t] = <<>>]
      /\ UNCHANGED <<clock, register, cancel, ackFired>>
  BY DEF FireUnscheduled, jobVars
<1>2. /\ j \in Jobs /\ Pending(j) /\ ~Pending(j)' /\ register[j] = "listed" /\ ~IsEvent(j)
  BY <1>1, FireInvHead
<1>3. now[t] \in 0 .. MaxClock /\ fired[j] \in Nat /\ ackFired[j] \in Nat
  BY <1>2 DEF SchedType
<1>4. fired'[j] \in {fired[j], fired[j] + 1}
  BY <1>1, <1>2, SubmittedStep
<1>5. CancelInv(j)'
  BY <1>1, <1>2, <1>3, <1>4 DEF JobInv, CancelInv
<1>6. Kind[j] = "cron" /\ ~Regular(j)
  BY <1>1, <1>3 DEF Schedulable, Regular
<1>7. IntervalInv(j)' /\ OnceInv(j)' /\ CronInv(j)'
  BY <1>6 DEF IntervalInv, OnceInv, CronInv, Regular, Schedulable
<1> QED BY <1>5, <1>7 DEF JobInv

LEMMA DueStep ==
  ASSUME LoopInv, SchedType, ListInv, TickInv, DueWhenListed, WaitOnStop = {TRUE}, [Next]_vars
  PROVE  DueWhenListed'
<1> USE DEF jobVars, eventVars, lifeVars, loopVars
<1>0. /\ \A t \in Threads : ListElements(todo[t]) \subseteq Jobs
      /\ \A t \in Threads : todo[t] = <<>> => ListElements(todo[t]) = {}
      /\ ListElements(<<>>) = {}
  BY DEF SchedType, ListElements
<1>1. ASSUME UNCHANGED <<todo, now, nextFire>> PROVE DueWhenListed'
  BY <1>1 DEF DueWhenListed
<1>2. CASE UNCHANGED vars \/ TickClock \/ Start \/ SetStopEvent \/ Join
  BY <1>1, <1>2 DEF vars, TickClock, Start, SetStopEvent, Join
<1>3. ASSUME NEW wait \in WaitOnStop, Stop(wait) PROVE DueWhenListed'
  BY <1>1, <1>3 DEF Stop
<1>4. ASSUME NEW j \in Jobs,
             \/ Subscribe(j) \/ StoreUnsubscribe(j) \/ ListEventJob(j) \/ Publish(j)
             \/ HandlerSubmits(j) \/ Cancel(j) \/ CancelReturns(j) \/ StopUnsubscribes(j)
      PROVE  DueWhenListed'
  BY <1>1, <1>4 DEF Subscribe, StoreUnsubscribe, ListEventJob, Publish, HandlerSubmits, Cancel,
                    CancelReturns, StopUnsubscribes
<1>5. ASSUME NEW t \in Threads, Spawn(t) \/ CheckStop(t) \/ EndWait(t) PROVE DueWhenListed'
  BY <1>1, <1>5 DEF Spawn, CheckStop, EndWait
<1>6. ASSUME NEW j \in Jobs, AddJob(j) PROVE DueWhenListed'
  <2>1. /\ register[j] = "none" /\ UNCHANGED <<todo, now>>
        /\ \A k \in Jobs \ {j} : nextFire'[k] = nextFire[k]
    BY <1>6 DEF AddJob, SchedType
  <2>2. \A t \in Threads : j \notin ListElements(todo[t])
    BY <2>1 DEF TickInv
  <2> QED BY <1>0, <2>1, <2>2 DEF DueWhenListed
<1>7. ASSUME NEW t \in Threads, ListDue(t) PROVE DueWhenListed'
  <2> DEFINE due == {j \in Jobs : Due(j, clock)}
             r == Kept(jobs, due)
  <2>1. /\ todo' = [todo EXCEPT ![t] = r] /\ now' = [now EXCEPT ![t] = clock] /\ nextFire' = nextFire
    BY <1>7 DEF ListDue
  <2>2. ListElements(r) = ListElements(jobs) \cap due
    BY KeptElements DEF SchedType
  <2>3. \A j \in ListElements(r) : nextFire[j] <= clock
    BY <2>2 DEF Due
  <2> HIDE DEF r
  <2>4. /\ todo'[t] = r /\ now'[t] = clock
        /\ \A u \in Threads \ {t} : todo'[u] = todo[u] /\ now'[u] = now[u]
    BY <2>1 DEF SchedType
  <2> QED BY <2>1, <2>3, <2>4 DEF DueWhenListed
<1>8. ASSUME NEW t \in Threads, FireFails(t) \/ FireUnscheduled(t) \/ DropCancelled(t)
      PROVE  DueWhenListed'
  <2>1. /\ todo'[t] = <<>> /\ nextFire' = nextFire
        /\ \A u \in Threads \ {t} : todo'[u] = todo[u] /\ now'[u] = now[u]
    BY <1>8 DEF FireFails, FireUnscheduled, DropCancelled, SchedType
  <2> QED BY <1>0, <2>1 DEF DueWhenListed
<1>9. ASSUME NEW t \in Threads, Fire(t) PROVE DueWhenListed'
  <2> DEFINE j == Head(todo[t])
             r == Tail(todo[t])
  <2>1. /\ todo[t] # <<>> /\ todo' = [todo EXCEPT ![t] = r] /\ now' = now
        /\ nextFire' = [nextFire EXCEPT ![j] = NextFire(j, now[t])]
    BY <1>9 DEF Fire
  <2>2. ListElements(r) = ListElements(todo[t]) \ {j}
    BY <2>1, TodoHead
  <2>3. \A u \in Threads \ {t} : todo[u] = <<>>
    BY <2>1, OneTick
  <2>4. \A k \in Jobs \ {j} : nextFire'[k] = nextFire[k]
    BY <2>1 DEF SchedType
  <2>5. todo'[t] = r /\ \A u \in Threads \ {t} : todo'[u] = todo[u]
    BY <2>1 DEF SchedType
  <2> HIDE DEF r, j
  <2>6. \A k \in ListElements(r) : nextFire'[k] <= now'[t]
    BY <1>0, <2>1, <2>2, <2>4 DEF DueWhenListed
  <2>7. \A u \in Threads \ {t} : ListElements(todo'[u]) = {}
    BY <1>0, <2>3, <2>5
  <2> QED BY <2>5, <2>6, <2>7 DEF DueWhenListed
<1> QED BY <1>2, <1>3, <1>4, <1>5, <1>6, <1>7, <1>8, <1>9
        DEF Next, Registration, StopStep, LoopStep

LEMMA JobStep ==
  ASSUME LoopInv, SchedType, ListInv, TickInv, DueWhenListed, WaitOnStop = {TRUE}, [Next]_vars,
         NEW k \in Jobs, JobInv(k)
  PROVE  JobInv(k)'
<1> USE DEF jobVars, eventVars, lifeVars, loopVars
<1>0. clock \in Nat
  BY SchedulerAssumption DEF SchedType
<1>1. ASSUME fired'[k] = fired[k], UNCHANGED <<nextFire, cancel, ackFired, register, todo>>,
             cancelled[k] => cancelled'[k], clock' \in Nat, clock <= clock'
      PROVE  JobInv(k)'
  <2>1. Pending(k)' => Pending(k)
    BY <1>1 DEF Pending
  <2> QED BY <1>1, <2>1, JobInvFrame
<1>2. CASE UNCHANGED vars \/ TickClock \/ Start \/ SetStopEvent \/ Join
  BY <1>0, <1>1, <1>2 DEF vars, TickClock, Start, SetStopEvent, Join
<1>3. ASSUME NEW wait \in WaitOnStop, Stop(wait) PROVE JobInv(k)'
  BY <1>0, <1>1, <1>3 DEF Stop
<1>4. ASSUME NEW j \in Jobs, Publish(j) \/ StopUnsubscribes(j) PROVE JobInv(k)'
  BY <1>0, <1>1, <1>4 DEF Publish, StopUnsubscribes
<1>5. ASSUME NEW t \in Threads, Spawn(t) \/ CheckStop(t) \/ EndWait(t) \/ DropCancelled(t)
      PROVE  JobInv(k)'
  BY <1>0, <1>1, <1>5 DEF Spawn, CheckStop, EndWait, DropCancelled
<1>6. CASE IsEvent(k)
  BY <1>6, JobInvFrame
<1>7. ASSUME NEW j \in Jobs, Subscribe(j) \/ StoreUnsubscribe(j) \/ ListEventJob(j), ~IsEvent(k)
      PROVE  JobInv(k)'
  <2>1. /\ UNCHANGED <<clock, fired, nextFire, cancel, ackFired, cancelled, todo>>
        /\ IsEvent(j) /\ \A i \in Jobs \ {j} : register'[i] = register[i]
    BY <1>7 DEF Subscribe, StoreUnsubscribe, ListEventJob, ListInv, SchedType
  <2>2. register'[k] = register[k]
    BY <1>7, <2>1
  <2>3. Pending(k)' => Pending(k)
    BY <2>1 DEF Pending
  <2> QED BY <1>0, <2>1, <2>2, <2>3, JobInvFrame
<1>8. ASSUME NEW j \in Jobs, HandlerSubmits(j), ~IsEvent(k) PROVE JobInv(k)'
  <2>1. fired'[k] = fired[k]
    BY <1>8, HandlerStep DEF ListInv
  <2> QED BY <1>0, <1>1, <1>8, <2>1 DEF HandlerSubmits
<1>9. ASSUME NEW j \in Jobs, AddJob(j) PROVE JobInv(k)'
  <2>1. CASE j = k
    BY <1>9, <2>1, AddJobInv
  <2>2. CASE j # k
    <3>1. /\ UNCHANGED <<clock, fired, cancel, ackFired, cancelled, todo>>
          /\ nextFire'[k] = nextFire[k] /\ register'[k] = register[k]
      BY <1>9, <2>2 DEF AddJob, SchedType
    <3>2. Pending(k)' => Pending(k)
      BY <3>1 DEF Pending
    <3> QED BY <1>0, <3>1, <3>2, JobInvFrame
  <2> QED BY <2>1, <2>2
<1>10. ASSUME NEW j \in Jobs, Cancel(j) \/ CancelReturns(j) PROVE JobInv(k)'
  <2>1. /\ UNCHANGED <<clock, fired, nextFire, register, todo>>
        /\ \A i \in Jobs : cancelled[i] => cancelled'[i]
        /\ \A i \in Jobs \ {j} : cancel'[i] = cancel[i] /\ ackFired'[i] = ackFired[i]
    BY <1>10 DEF Cancel, CancelReturns, SchedType
  <2>2. Pending(k)' <=> Pending(k)
    BY <2>1 DEF Pending
  <2>3. CASE j # k
    BY <1>0, <2>1, <2>2, <2>3, JobInvFrame
  <2>4. CASE j = k
    <3>1. CancelInv(k)'
      <4>1. fired[k] \in Nat
        BY DEF SchedType
      <4>2. cancel'[k] = "flagged" \/ ackFired'[k] = fired[k]
        BY <1>10, <2>4 DEF Cancel, CancelReturns, SchedType
      <4> QED BY <2>1, <4>1, <4>2 DEF CancelInv
    <3>2. IntervalInv(k)' /\ OnceInv(k)' /\ CronInv(k)'
      BY <2>1, <2>2 DEF JobInv, IntervalInv, OnceInv, CronInv, Regular, Schedulable, Times, CronTime
    <3> QED BY <3>1, <3>2 DEF JobInv
  <2> QED BY <2>3, <2>4
<1>11. ASSUME NEW t \in Threads, ListDue(t) PROVE JobInv(k)'
  <2> DEFINE due == {j \in Jobs : Due(j, clock)}
             r == Kept(jobs, due)
  <2>1. /\ todo' = [todo EXCEPT ![t] = r]
        /\ UNCHANGED <<clock, fired, nextFire, cancel, ackFired, cancelled, register>>
    BY <1>11 DEF ListDue
  <2>2. ListElements(r) = ListElements(jobs) \cap due
    BY KeptElements DEF SchedType
  <2>3. k \in ListElements(r) => ~cancelled[k]
    BY <2>2 DEF Due
  <2> HIDE DEF r
  <2>4. todo'[t] = r /\ \A u \in Threads \ {t} : todo'[u] = todo[u]
    BY <2>1 DEF SchedType
  <2>5. Pending(k)' => Pending(k) \/ ~cancelled[k]
    BY <2>3, <2>4 DEF Pending
  <2> QED BY <1>0, <2>1, <2>5, JobInvFrame
<1>12. ASSUME NEW t \in Threads, FireFails(t) PROVE JobInv(k)'
  <2>1. /\ todo'[t] = <<>> /\ \A u \in Threads \ {t} : todo'[u] = todo[u]
        /\ UNCHANGED <<clock, fired, nextFire, cancel, ackFired, cancelled, register>>
    BY <1>12 DEF FireFails, SchedType
  <2>2. Pending(k)' => Pending(k)
    BY <2>1 DEF Pending, ListElements
  <2> QED BY <1>0, <2>1, <2>2, JobInvFrame
<1>13. ASSUME NEW t \in Threads, Fire(t) \/ FireUnscheduled(t) PROVE JobInv(k)'
  <2> DEFINE j == Head(todo[t])
  <2>1. CASE j = k
    BY <1>13, <2>1, FireJobInv, UnscheduledJobInv
  <2>2. CASE j # k
    <3>1. /\ todo[t] # <<>> /\ Submitted(j) /\ UNCHANGED <<clock, cancel, ackFired, register>>
          /\ \E r \in {Tail(todo[t]), <<>>} : todo' = [todo EXCEPT ![t] = r]
      BY <1>13 DEF Fire, FireUnscheduled
    <3>2. nextFire'[k] = nextFire[k] /\ cancelled'[k] = cancelled[k]
      BY <1>13, <2>2 DEF Fire, FireUnscheduled, SchedType
    <3>3. j \in Jobs
      BY <3>1, TodoHead
    <3>4. fired'[k] = fired[k]
      BY <2>2, <3>1, <3>3, SubmittedStep
    <3>5. Pending(k)' => Pending(k)
      BY <3>1, FireInvHead
    <3> QED BY <1>0, <3>1, <3>2, <3>4, <3>5, JobInvFrame
  <2> QED BY <2>1, <2>2
<1> QED BY <1>2, <1>3, <1>4, <1>5, <1>6, <1>7, <1>8, <1>9, <1>10, <1>11, <1>12, <1>13
        DEF Next, Registration, StopStep, LoopStep

LEMMA InitFire == Init => FireInv
<1> SUFFICES ASSUME Init PROVE DueWhenListed /\ \A j \in Jobs : JobInv(j)
  BY DEF FireInv
<1>1. \A t \in Threads : ListElements(todo[t]) = {}
  BY DEF Init, ListElements
<1>2. DueWhenListed
  BY <1>1 DEF DueWhenListed
<1>3. ASSUME NEW j \in Jobs PROVE JobInv(j)
  BY DEF Init, JobInv, CancelInv, IntervalInv, OnceInv, CronInv
<1> QED BY <1>2, <1>3

(* However late its ticks come, a time-based job is submitted no more      *)
(* often than it was due, and its next time accounts for what it has made  *)
(* (tick and schedule_next of schedule.py).                                *)
THEOREM FireInvariance == Spec => []FireInv
<1>1. SubscriptionInv /\ FireInv /\ [Next]_vars => FireInv'
  BY DueStep, JobStep DEF SubscriptionInv, FireInv
<1> QED BY <1>1, InitFire, SubscriptionInvariance, PTL DEF Spec

(* An interval job fires at most once per interval elapsed, a cron job at  *)
(* most once per time of its expression, a one-shot job once, as long as   *)
(* stop() waits for the thread it stops.                                   *)
THEOREM FiresOncePerDueAlways == Spec => []FiresOncePerDue
<1>1. ASSUME SubscriptionInv, FireInv PROVE FiresOncePerDue
  <2> SUFFICES ASSUME WaitOnStop = {TRUE}, NEW j \in Jobs
               PROVE  /\ Kind[j] = "interval" => fired[j] * Period[j] <= clock
                      /\ Kind[j] = "cron" /\ Regular(j) => fired[j] <= Cardinality(CronTimes(j))
                      /\ Kind[j] = "once" => fired[j] <= 1
    BY DEF FiresOncePerDue
  <2>1. JobInv(j) /\ SchedType /\ ListInv
    BY <1>1 DEF FireInv, SubscriptionInv
  <2>2. /\ fired[j] \in Nat /\ clock \in Nat /\ Period[j] \in Nat /\ nextFire[j] \in Nat
    BY <2>1, SchedulerAssumption DEF SchedType
  <2>3. ~IsEvent(j) /\ register[j] # "listed" => fired[j] = 0
    BY <2>1, <2>2 DEF ListInv
  <2>4. Kind[j] = "interval" => fired[j] * Period[j] <= clock
    <3>1. 0 * Period[j] = 0 /\ 0 <= clock
      BY <2>2
    <3> QED BY <2>1, <2>3, <3>1 DEF JobInv, IntervalInv, IsEvent
  <2>5. Kind[j] = "cron" /\ Regular(j) => fired[j] <= Cardinality(CronTimes(j))
    <3>1. IsFiniteSet(CronTimes(j)) /\ Times(j, clock, nextFire[j]) \subseteq CronTimes(j)
      <4>1. IsFiniteSet(1 .. clock)
        BY <2>2, FS_Interval
      <4> QED BY <4>1, FS_Subset DEF CronTimes, Times, CronTime
    <3>2. /\ Cardinality(Times(j, clock, nextFire[j])) <= Cardinality(CronTimes(j))
          /\ Cardinality(CronTimes(j)) \in Nat
      BY <3>1, FS_Subset, FS_CardinalityType
    <3>3. Cardinality(Times(j, clock, nextFire[j])) \in Nat
      BY <2>2, TimesMonotone
    <3>4. CASE register[j] = "listed"
      BY <2>1, <2>2, <3>2, <3>3, <3>4 DEF JobInv, CronInv
    <3>5. CASE register[j] # "listed"
      BY <2>3, <3>2, <3>5 DEF IsEvent
    <3> QED BY <3>4, <3>5
  <2>6. Kind[j] = "once" => fired[j] <= 1
    BY <2>1 DEF JobInv, OnceInv
  <2> QED BY <2>4, <2>5, <2>6
<1> QED BY <1>1, SubscriptionInvariance, FireInvariance, PTL

(* After cancel() has returned, a time-based job fires once more at most:  *)
(* from the list of the tick that was under way.                           *)
THEOREM OneMoreFireAlways == Spec => []OneMoreFire
<1>1. ASSUME SubscriptionInv, FireInv PROVE OneMoreFire
  <2> SUFFICES ASSUME WaitOnStop = {TRUE}, NEW j \in Jobs, cancel[j] = "acked", ~IsEvent(j)
               PROVE  fired[j] <= ackFired[j] + 1
    BY DEF OneMoreFire
  <2>1. fired[j] <= ackFired[j] + (IF Pending(j) THEN 0 ELSE 1)
    BY <1>1 DEF FireInv, JobInv, CancelInv
  <2>2. fired[j] \in Nat /\ ackFired[j] \in Nat
    BY <1>1 DEF SubscriptionInv, SchedType
  <2> QED BY <2>1, <2>2
<1> QED BY <1>1, SubscriptionInvariance, FireInvariance, PTL

=============================================================================
