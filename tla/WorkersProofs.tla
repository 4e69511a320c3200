--------------------------- MODULE WorkersProofs ----------------------------
(***************************************************************************)
(* Theorems about the threads behind the dispatcher: a body whose handle   *)
(* holds a slot waits only behind bodies that have outlived theirs.        *)
(***************************************************************************)
EXTENDS Workers, ListProofs, FiniteSetTheorems, TLAPS

(* The dispatcher hands out a slot per worker at most.                     *)
SlotInv == IsFiniteSet(Holders) /\ Cardinality(Holders) <= Workers["main"]

(* Where a call can be: no executor before it has been given one, no body  *)
(* of a pool task before its wait has begun.                               *)
PlaceInv ==
  \A h \in Handles :
    /\ phase[h] \in {"new", "asking"} => job[h] = "none" /\ body[h] = "none" /\ on[h] = NoExecutor
    /\ phase[h] = "given" => job[h] = "none" /\ body[h] = "none" /\ on[h] # NoExecutor
    /\ phase[h] = "asking" => Kind[h] # "await"
    /\ on[h] # NoExecutor => Kind[h] # "await" /\ on[h][1] = PoolOf(h)
    /\ on[h] = NoExecutor => body[h] = "none"
    /\ Kind[h] = "pool" /\ job[h] \in {"none", "queued"} => body[h] = "none"
    /\ Kind[h] = "pool" /\ job[h] = "queued" => on[h] # NoExecutor

(* The queues hold what waits, once, each on the executor it was given.    *)
JobQueueInv  == Distinct(defaultQ) /\ \A h \in ListElements(defaultQ) : job[h] = "queued"
BodyQueueInv ==
  \A e \in Executors : /\ Distinct(queue[e])
                       /\ \A h \in ListElements(queue[e]) : body[h] = "queued" /\ on[h] = e

WorkInv == TypeOK /\ SlotInv /\ PlaceInv /\ JobQueueInv /\ BodyQueueInv

LEMMA InitWork == Init => WorkInv
<1> SUFFICES ASSUME Init PROVE WorkInv
  OBVIOUS
<1>1. TypeOK
  BY DEF Init, TypeOK, Executors
<1>2. Holders = {}
  BY DEF Init, Holders
<1>3. SlotInv
  BY <1>2, FS_EmptySet, WorkersAssumption DEF SlotInv, Pools
<1>4. PlaceInv
  BY DEF Init, PlaceInv
<1>5. JobQueueInv /\ BodyQueueInv
  BY EmptyElements DEF Init, JobQueueInv, BodyQueueInv
<1> QED BY <1>1, <1>3, <1>4, <1>5 DEF WorkInv

(* What the coroutine was given is an executor of its pool.                *)
LEMMA GivenExecutor ==
  ASSUME TypeOK, NEW h \in Handles
  PROVE  /\ PoolOf(h) \in Pools
         /\ (shut # "closing" => Given(PoolOf(h)) \in Executors)
         /\ Given(PoolOf(h))[1] = PoolOf(h) /\ Given(PoolOf(h)) # NoExecutor
         /\ Given(PoolOf(h))[2] \in 0 .. 2
<1>1. PoolOf(h) \in Pools
  BY DEF PoolOf, Pools
<1>2. PoolOf(h) # "none"
  BY DEF PoolOf
<1>3. current[PoolOf(h)] \in 0 .. 2
  BY <1>1 DEF TypeOK
<1> QED BY <1>1, <1>2, <1>3 DEF Given, Executors, NoExecutor

(* A step that leaves the phases alone hands out no slot; nor does one     *)
(* that ends or advances a coroutine already dispatched.                   *)
LEMMA SlotInvFrame ==
  ASSUME SlotInv, Holders' \subseteq Holders, WorkersAssumption
  PROVE  SlotInv'
<1>1. Holders' = Holders \cap Holders'
  OBVIOUS
<1>2. /\ IsFiniteSet(Holders') /\ Cardinality(Holders') <= Cardinality(Holders)
      /\ Cardinality(Holders') \in Nat /\ Cardinality(Holders) \in Nat
  BY FS_Subset, FS_CardinalityType DEF SlotInv
<1>3. Workers["main"] \in Nat
  BY DEF WorkersAssumption, Pools
<1> QED BY <1>2, <1>3 DEF SlotInv

LEMMA DispatchWork == ASSUME WorkInv, NEW h \in Handles, Dispatch(h) PROVE WorkInv'
<1>1. /\ phase[h] = "new" /\ HasCapacity(h) /\ phase' = [phase EXCEPT ![h] = "asking"]
      /\ UNCHANGED <<poolKind, cancelEvent, poked, workVars, execVars>>
  BY DEF Dispatch, Becomes
<1>6. Kind[h] # "await"
  BY DEF Dispatch
<1> USE DEF workVars, execVars
<1>2. TypeOK'
  BY <1>1 DEF WorkInv, TypeOK
<1>3. SlotInv'
  <2>1. CASE Kind[h] # "pool"
    <3>1. Holders' \subseteq Holders
      BY <1>1, <2>1 DEF Holders, WorkInv, TypeOK
    <3> QED BY <3>1, SlotInvFrame, WorkersAssumption DEF WorkInv
  <2>2. CASE Kind[h] = "pool"
    <3>1. Holders' = Holders \cup {h} /\ h \notin Holders
      BY <1>1, <2>2 DEF Holders, WorkInv, TypeOK
    <3>2. IsFiniteSet(Holders) /\ Cardinality(Holders) < Workers["main"]
      BY <1>1, <2>2 DEF HasCapacity, WorkInv, SlotInv
    <3>3. /\ IsFiniteSet(Holders') /\ Cardinality(Holders') = Cardinality(Holders) + 1
          /\ Cardinality(Holders) \in Nat /\ Workers["main"] \in Nat
      BY <3>1, <3>2, FS_AddElement, FS_CardinalityType, WorkersAssumption DEF Pools
    <3> QED BY <3>2, <3>3 DEF SlotInv
  <2> QED BY <2>1, <2>2
<1>4. PlaceInv'
  BY <1>1, <1>6 DEF WorkInv, TypeOK, PlaceInv
<1>5. JobQueueInv' /\ BodyQueueInv'
  BY <1>1 DEF WorkInv, JobQueueInv, BodyQueueInv
<1> QED BY <1>2, <1>3, <1>4, <1>5 DEF WorkInv

LEMMA AwaitHandleWork == ASSUME WorkInv, NEW h \in Handles, AwaitHandle(h) PROVE WorkInv'
<1>1. /\ phase[h] = "new" /\ Kind[h] = "await"
      /\ UNCHANGED <<poolKind, cancelEvent, poked, body, queue, execVars>>
      /\ \/ phase' = [phase EXCEPT ![h] = "over"] /\ UNCHANGED <<job, defaultQ>>
         \/ /\ phase' = [phase EXCEPT ![h] = "waiting"] /\ job' = [job EXCEPT ![h] = "queued"]
            /\ defaultQ' = Append(defaultQ, h)
  BY DEF AwaitHandle, Becomes
<1> USE DEF execVars
<1>10. /\ defaultQ \in Seq(Handles) /\ ListElements(defaultQ) \subseteq Handles
       /\ Distinct(defaultQ) /\ h \notin ListElements(defaultQ)
  BY <1>1 DEF WorkInv, TypeOK, PlaceInv, JobQueueInv, ListElements
<1>11. /\ Append(defaultQ, h) \in Seq(Handles) /\ Distinct(Append(defaultQ, h))
       /\ ListElements(Append(defaultQ, h)) = ListElements(defaultQ) \cup {h}
  BY <1>10, AppendedElements
<1>2. TypeOK'
  <2>1. /\ defaultQ' \in Seq(Handles)
        /\ phase' \in [Handles -> {"new", "asking", "given", "waiting", "closing", "over"}]
        /\ job' \in [Handles -> {"none", "queued", "blocked", "returned"}]
    BY <1>1, <1>11 DEF WorkInv, TypeOK
  <2> QED BY <1>1, <2>1 DEF WorkInv, TypeOK
<1>3. SlotInv'
  <2>1. Holders' \subseteq Holders
    BY <1>1 DEF Holders, WorkInv, TypeOK
  <2> QED BY <2>1, SlotInvFrame, WorkersAssumption DEF WorkInv
<1>4. PlaceInv'
  BY <1>1 DEF WorkInv, TypeOK, PlaceInv
<1>5. JobQueueInv'
  <2>1. CASE UNCHANGED <<job, defaultQ>>
    BY <2>1 DEF WorkInv, JobQueueInv
  <2>2. CASE job' = [job EXCEPT ![h] = "queued"] /\ defaultQ' = Append(defaultQ, h)
    <3>1. \A g \in Handles : g = h \/ job[g] = "queued" => job'[g] = "queued"
      BY <2>2 DEF WorkInv, TypeOK
    <3> QED BY <1>10, <1>11, <2>2, <3>1 DEF WorkInv, JobQueueInv
  <2> QED BY <1>1, <2>1, <2>2
<1>6. BodyQueueInv'
  BY <1>1 DEF WorkInv, BodyQueueInv
<1> QED BY <1>2, <1>3, <1>4, <1>5, <1>6 DEF WorkInv

LEMMA GetExecutorWork == ASSUME WorkInv, NEW h \in Handles, GetExecutor(h) PROVE WorkInv'
<1> SUFFICES ASSUME NEW e, e = Given(PoolOf(h)) PROVE WorkInv'
  OBVIOUS
<1> USE DEF workVars
<1>1. /\ phase[h] = "asking" /\ e \in Executors /\ e[1] = PoolOf(h) /\ e # NoExecutor
      /\ current' = [current EXCEPT ![e[1]] = e[2]] /\ on' = [on EXCEPT ![h] = e]
      /\ phase' = [phase EXCEPT ![h] = "given"]
      /\ UNCHANGED <<poolKind, cancelEvent, poked, workVars, shut, closed>>
      /\ PoolOf(h) \in Pools /\ e[2] \in 0 .. 2
  BY GivenExecutor DEF GetExecutor, Becomes, WorkInv
<1>2. job[h] = "none" /\ body[h] = "none" /\ on[h] = NoExecutor /\ Kind[h] # "await"
  BY <1>1 DEF WorkInv, PlaceInv
<1>3. TypeOK'
  <2>1. current' \in [Pools -> 0 .. 2] /\ on' \in [Handles -> Executors \cup {NoExecutor}]
    BY <1>1 DEF WorkInv, TypeOK
  <2> QED BY <1>1, <2>1 DEF WorkInv, TypeOK
<1>4. SlotInv'
  <2>1. Holders' \subseteq Holders
    BY <1>1 DEF Holders, WorkInv, TypeOK
  <2> QED BY <2>1, SlotInvFrame, WorkersAssumption DEF WorkInv
<1>5. PlaceInv'
  BY <1>1, <1>2 DEF WorkInv, TypeOK, PlaceInv
<1>6. JobQueueInv'
  BY <1>1 DEF WorkInv, JobQueueInv
<1>7. BodyQueueInv'
  <2>1. \A x \in Executors : \A g \in ListElements(queue[x]) : g \in Handles \ {h}
    BY <1>2 DEF WorkInv, TypeOK, BodyQueueInv, ListElements
  <2>2. \A g \in Handles \ {h} : on'[g] = on[g]
    BY <1>1 DEF WorkInv, TypeOK
  <2> QED BY <1>1, <2>1, <2>2 DEF WorkInv, BodyQueueInv
<1> QED BY <1>3, <1>4, <1>5, <1>6, <1>7 DEF WorkInv

LEMMA HandOverWork == ASSUME WorkInv, NEW h \in Handles, HandOver(h) PROVE WorkInv'
<1> SUFFICES ASSUME NEW e, e = on[h] PROVE WorkInv'
  OBVIOUS
<1> USE DEF execVars
<1>1. /\ phase[h] = "given" /\ UNCHANGED <<poolKind, cancelEvent, poked, execVars>>
      /\ phase' = [phase EXCEPT ![h] = "waiting"] \/ phase' = [phase EXCEPT ![h] = "over"]
  BY DEF HandOver, Becomes
<1>2. \/ UNCHANGED workVars
      \/ /\ Kind[h] = "pool" /\ job' = [job EXCEPT ![h] = "queued"]
         /\ defaultQ' = Append(defaultQ, h) /\ UNCHANGED <<body, queue>>
      \/ /\ Kind[h] = "offload" /\ body' = [body EXCEPT ![h] = "queued"]
         /\ queue' = [queue EXCEPT ![e] = Append(queue[e], h)] /\ UNCHANGED <<job, defaultQ>>
  BY DEF HandOver
<1>9. job[h] = "none" /\ body[h] = "none" /\ on[h] # NoExecutor /\ e \in Executors
  BY <1>1 DEF WorkInv, PlaceInv, TypeOK
<1> USE DEF workVars
<1>10. h \notin ListElements(defaultQ) /\ \A x \in Executors : h \notin ListElements(queue[x])
  BY <1>9 DEF WorkInv, JobQueueInv, BodyQueueInv
<1>11. /\ ListElements(defaultQ) \subseteq Handles
       /\ \A x \in Executors : queue[x] \in Seq(Handles) /\ ListElements(queue[x]) \subseteq Handles
  BY DEF WorkInv, TypeOK, ListElements
<1>12. /\ Append(defaultQ, h) \in Seq(Handles) /\ Distinct(Append(defaultQ, h))
       /\ ListElements(Append(defaultQ, h)) = ListElements(defaultQ) \cup {h}
  BY <1>10, AppendedElements DEF WorkInv, TypeOK, JobQueueInv
<1>13. /\ Append(queue[e], h) \in Seq(Handles) /\ Distinct(Append(queue[e], h))
       /\ ListElements(Append(queue[e], h)) = ListElements(queue[e]) \cup {h}
  BY <1>9, <1>10, <1>11, AppendedElements DEF WorkInv, BodyQueueInv
<1>3. TypeOK'
  <2>1. phase' \in [Handles -> {"new", "asking", "given", "waiting", "closing", "over"}]
    BY <1>1 DEF WorkInv, TypeOK
  <2>2. /\ job' \in [Handles -> {"none", "queued", "blocked", "returned"}]
        /\ body' \in [Handles -> {"none", "queued", "running", "done"}]
    BY <1>2 DEF WorkInv, TypeOK
  <2>4. defaultQ' \in Seq(Handles)
    BY <1>2, <1>12 DEF WorkInv, TypeOK
  <2>3. queue' \in [Executors -> Seq(Handles)]
    BY <1>2, <1>13 DEF WorkInv, TypeOK
  <2> QED BY <1>1, <2>1, <2>2, <2>3, <2>4 DEF WorkInv, TypeOK
<1>4. SlotInv'
  <2>1. Holders' \subseteq Holders
    BY <1>1 DEF Holders, WorkInv, TypeOK
  <2> QED BY <2>1, SlotInvFrame, WorkersAssumption DEF WorkInv
<1>5. PlaceInv'
  BY <1>1, <1>2, <1>9 DEF WorkInv, TypeOK, PlaceInv
<1>6. JobQueueInv'
  <2>1. CASE UNCHANGED <<job, defaultQ>>
    BY <2>1 DEF WorkInv, JobQueueInv
  <2>2. CASE job' = [job EXCEPT ![h] = "queued"] /\ defaultQ' = Append(defaultQ, h)
    <3>1. \A g \in Handles : g = h \/ job[g] = "queued" => job'[g] = "queued"
      BY <2>2 DEF WorkInv, TypeOK
    <3> QED BY <1>11, <1>12, <2>2, <3>1 DEF WorkInv, JobQueueInv
  <2> QED BY <1>2, <2>1, <2>2
<1>7. BodyQueueInv'
  <2>1. \A g \in Handles \ {h} : body'[g] = body[g]
    BY <1>2 DEF WorkInv, TypeOK
  <2>2. CASE UNCHANGED <<body, queue>>
    BY <1>1, <2>2 DEF WorkInv, BodyQueueInv
  <2>3. CASE body' = [body EXCEPT ![h] = "queued"] /\ queue' = [queue EXCEPT ![e] = Append(queue[e], h)]
    <3>1. /\ on'[h] = e /\ body'[h] = "queued" /\ queue'[e] = Append(queue[e], h)
          /\ \A x \in Executors \ {e} : queue'[x] = queue[x]
      BY <1>1, <1>9, <2>3 DEF WorkInv, TypeOK
    <3>2. ASSUME NEW x \in Executors \ {e}
          PROVE  Distinct(queue'[x]) /\ \A g \in ListElements(queue'[x]) : body'[g] = "queued" /\ on'[g] = x
      BY <1>1, <1>10, <1>11, <2>1, <3>1 DEF WorkInv, BodyQueueInv
    <3>3. ASSUME NEW g \in ListElements(queue'[e]) PROVE body'[g] = "queued" /\ on'[g] = e
      <4>1. CASE g = h
        BY <3>1, <4>1
      <4>2. CASE g # h
        <5>1. g \in ListElements(queue[e]) /\ g \in Handles \ {h}
          BY <1>9, <1>11, <1>13, <3>1, <3>3, <4>2
        <5>2. body[g] = "queued" /\ on[g] = e
          BY <1>9, <5>1 DEF WorkInv, BodyQueueInv
        <5> QED BY <1>1, <2>1, <5>1, <5>2
      <4> QED BY <4>1, <4>2
    <3> QED BY <1>13, <3>1, <3>2, <3>3 DEF BodyQueueInv
  <2> QED BY <1>2, <2>2, <2>3
<1> QED BY <1>3, <1>4, <1>5, <1>6, <1>7 DEF WorkInv

LEMMA QueueTypes ==
  ASSUME TypeOK
  PROVE  /\ ListElements(defaultQ) \subseteq Handles
         /\ \A e \in Executors : ListElements(queue[e]) \subseteq Handles
BY DEF TypeOK, ListElements

(* A coroutine goes on, or ends, and nothing else happens.                 *)
LEMMA PhaseWork ==
  ASSUME WorkInv, NEW h \in Handles, NEW p \in {"closing", "over"}, Becomes(h, p),
         phase[h] \in {"waiting", "closing"}, UNCHANGED <<poolKind, cancelEvent, workVars, execVars>>,
         poked' \subseteq poked
  PROVE  WorkInv'
<1> USE DEF workVars, execVars
<1>1. phase' = [phase EXCEPT ![h] = p]
  BY DEF Becomes
<1>2. TypeOK'
  BY <1>1 DEF WorkInv, TypeOK
<1>3. SlotInv'
  <2>1. Holders' \subseteq Holders
    BY <1>1 DEF Holders, WorkInv, TypeOK
  <2> QED BY <2>1, SlotInvFrame, WorkersAssumption DEF WorkInv
<1>4. PlaceInv'
  BY <1>1 DEF WorkInv, TypeOK, PlaceInv
<1>5. JobQueueInv' /\ BodyQueueInv'
  BY DEF WorkInv, JobQueueInv, BodyQueueInv
<1> QED BY <1>2, <1>3, <1>4, <1>5 DEF WorkInv

(* A coroutine that is cancelled takes its job off the default executor's  *)
(* queue.                                                                  *)
LEMMA CancelLandsWork == ASSUME WorkInv, NEW h \in Handles, CancelLands(h) PROVE WorkInv'
<1> DEFINE p == IF Kind[h] = "offload" THEN "closing" ELSE "over"
<1>1. /\ phase[h] \in {"waiting", "closing"} /\ poked' \subseteq poked /\ Becomes(h, p)
      /\ phase' = [phase EXCEPT ![h] = p] /\ p \in {"closing", "over"}
      /\ UNCHANGED <<poolKind, cancelEvent, body, queue, execVars>>
  BY DEF CancelLands, Becomes
<1> HIDE DEF p
<1>2. CASE job[h] # "queued"
  <2>1. UNCHANGED <<job, defaultQ>>
    BY <1>2 DEF CancelLands
  <2> QED BY <1>1, <2>1, PhaseWork DEF workVars
<1>3. CASE job[h] = "queued"
  <2> USE DEF execVars
  <2>1. job' = [job EXCEPT ![h] = "none"] /\ defaultQ' = Kept(defaultQ, Handles \ {h})
    BY <1>3 DEF CancelLands
  <2>2. /\ defaultQ' \in Seq(Handles) /\ Distinct(defaultQ')
        /\ ListElements(defaultQ') = ListElements(defaultQ) \cap (Handles \ {h})
    BY <2>1, KeptElements DEF WorkInv, TypeOK, JobQueueInv
  <2>3. TypeOK'
    BY <1>1, <2>1, <2>2 DEF WorkInv, TypeOK
  <2>4. SlotInv'
    <3>1. Holders' \subseteq Holders
      BY <1>1 DEF Holders, WorkInv, TypeOK
    <3> QED BY <3>1, SlotInvFrame, WorkersAssumption DEF WorkInv
  <2>5. PlaceInv'
    BY <1>1, <1>3, <2>1 DEF WorkInv, TypeOK, PlaceInv
  <2>6. JobQueueInv'
    BY <2>1, <2>2 DEF WorkInv, TypeOK, JobQueueInv
  <2>7. BodyQueueInv'
    BY <1>1 DEF WorkInv, BodyQueueInv
  <2> QED BY <2>3, <2>4, <2>5, <2>6, <2>7 DEF WorkInv
<1> QED BY <1>2, <1>3

(* A thread that waited, or ran a body, is done with it.                   *)
LEMMA JobWork ==
  ASSUME WorkInv, NEW h \in Handles, job[h] = "blocked", job' = [job EXCEPT ![h] = "returned"],
         UNCHANGED <<poolKind, phase, poked, defaultQ, body, queue, execVars>>,
         cancelEvent' \in [Handles -> BOOLEAN]
  PROVE  WorkInv'
<1> USE DEF execVars
<1>1. TypeOK'
  BY DEF WorkInv, TypeOK
<1>2. Holders' = Holders
  BY DEF Holders
<1>3. PlaceInv'
  BY DEF WorkInv, TypeOK, PlaceInv
<1>4. JobQueueInv' /\ BodyQueueInv'
  BY QueueTypes DEF WorkInv, TypeOK, JobQueueInv, BodyQueueInv
<1> QED BY <1>1, <1>2, <1>3, <1>4 DEF WorkInv, SlotInv

LEMMA TimesOutWork == ASSUME WorkInv, NEW h \in Handles, TimesOut(h) PROVE WorkInv'
<1> USE DEF execVars
<1>1. /\ job[h] = "blocked" /\ job' = [job EXCEPT ![h] = "returned"] /\ GiveUp(h)
      /\ UNCHANGED <<poolKind, phase, poked, defaultQ, execVars>>
  BY DEF TimesOut
<1>2. cancelEvent' \in [Handles -> BOOLEAN]
  BY <1>1 DEF GiveUp, WorkInv, TypeOK
<1>3. CASE UNCHANGED <<body, queue>>
  BY <1>1, <1>2, <1>3, JobWork
<1>4. CASE TakenOff(h)
  <2> DEFINE e == on[h]
             r == Kept(queue[e], Handles \ {h})
  <2>1. /\ body[h] = "queued" /\ body' = [body EXCEPT ![h] = "none"]
        /\ queue' = [queue EXCEPT ![e] = r]
    BY <1>4 DEF TakenOff
  <2>2. e \in Executors /\ e # NoExecutor
    BY <2>1 DEF WorkInv, TypeOK, PlaceInv
  <2>3. /\ r \in Seq(Handles) /\ Distinct(r)
        /\ ListElements(r) = ListElements(queue[e]) \cap (Handles \ {h})
    BY <2>2, KeptElements DEF WorkInv, TypeOK, BodyQueueInv
  <2> HIDE DEF r
  <2>4. TypeOK'
    <3>1. queue' \in [Executors -> Seq(Handles)]
      BY <2>1, <2>3 DEF WorkInv, TypeOK
    <3>2. /\ body' \in [Handles -> {"none", "queued", "running", "done"}]
          /\ job' \in [Handles -> {"none", "queued", "blocked", "returned"}]
      BY <1>1, <2>1 DEF WorkInv, TypeOK
    <3> QED BY <1>1, <1>2, <3>1, <3>2 DEF WorkInv, TypeOK
  <2>5. Holders' = Holders
    BY <1>1 DEF Holders
  <2>6. PlaceInv'
    BY <1>1, <2>1 DEF WorkInv, TypeOK, PlaceInv
  <2>7. JobQueueInv'
    BY <1>1, QueueTypes DEF WorkInv, TypeOK, JobQueueInv
  <2>8. BodyQueueInv'
    <3>1. /\ queue'[e] = r /\ \A x \in Executors \ {e} : queue'[x] = queue[x]
          /\ \A g \in Handles \ {h} : body'[g] = body[g]
      BY <2>1, <2>2 DEF WorkInv, TypeOK
    <3>2. \A x \in Executors : \A g \in ListElements(queue'[x]) :
            g \in Handles \ {h} /\ g \in ListElements(queue[x])
      <4>1. \A x \in Executors \ {e} : h \notin ListElements(queue[x])
        BY DEF WorkInv, BodyQueueInv
      <4> QED BY <2>3, <3>1, <4>1, QueueTypes DEF WorkInv
    <3>3. \A x \in Executors : Distinct(queue'[x])
      BY <2>3, <3>1 DEF WorkInv, BodyQueueInv
    <3> QED BY <1>1, <3>1, <3>2, <3>3 DEF WorkInv, BodyQueueInv
  <2> QED BY <2>4, <2>5, <2>6, <2>7, <2>8 DEF WorkInv, SlotInv
<1> QED BY <1>1, <1>3, <1>4 DEF GiveUp

LEMMA DefaultTakesWork == WorkInv /\ DefaultTakes => WorkInv'
<1> SUFFICES ASSUME WorkInv, DefaultTakes, NEW h, h = Head(defaultQ) PROVE WorkInv'
  OBVIOUS
<1> USE DEF loopVars, execVars
<1>1. /\ defaultQ # <<>> /\ defaultQ' = Tail(defaultQ)
      /\ UNCHANGED <<poolKind, loopVars, execVars>>
  BY DEF DefaultTakes
<1>2. /\ h \in Handles /\ h \in ListElements(defaultQ) /\ defaultQ' \in Seq(Handles)
      /\ Distinct(defaultQ') /\ ListElements(defaultQ') = ListElements(defaultQ) \ {h}
  BY <1>1, TailElements DEF WorkInv, TypeOK, JobQueueInv
<1>3. job[h] = "queued" /\ phase[h] \notin {"new", "asking", "given"}
  BY <1>2 DEF WorkInv, JobQueueInv, PlaceInv
<1>4. PICK j \in {"blocked", "returned"} : job' = [job EXCEPT ![h] = j]
  BY <1>1 DEF DefaultTakes
<1>5. JobQueueInv'
  BY <1>2, <1>4, QueueTypes DEF WorkInv, TypeOK, JobQueueInv
<1>6. SlotInv'
  <2>1. Holders' = Holders
    BY <1>1 DEF Holders
  <2> QED BY <2>1 DEF WorkInv, SlotInv
<1>7. CASE UNCHANGED <<body, queue>>
  <2>1. TypeOK'
    BY <1>1, <1>2, <1>4, <1>7 DEF WorkInv, TypeOK
  <2>2. PlaceInv'
    BY <1>1, <1>3, <1>4, <1>7 DEF WorkInv, TypeOK, PlaceInv
  <2>3. BodyQueueInv'
    BY <1>1, <1>7 DEF WorkInv, BodyQueueInv
  <2> QED BY <1>5, <1>6, <2>1, <2>2, <2>3 DEF WorkInv
<1>8. CASE Kind[h] = "pool" /\ body' = [body EXCEPT ![h] = "queued"]
           /\ queue' = [queue EXCEPT ![on[h]] = Append(queue[on[h]], h)]
  <2> DEFINE e == on[h]
             a == Append(queue[e], h)
  <2>1. body[h] = "none" /\ e # NoExecutor /\ e \in Executors
    BY <1>2, <1>3, <1>8 DEF WorkInv, PlaceInv, TypeOK
  <2>2. \A x \in Executors : h \notin ListElements(queue[x])
    BY <2>1 DEF WorkInv, BodyQueueInv
  <2>3. queue[e] \in Seq(Handles) /\ Distinct(queue[e])
    BY <2>1 DEF WorkInv, TypeOK, BodyQueueInv
  <2>4. a \in Seq(Handles) /\ Distinct(a) /\ ListElements(a) = ListElements(queue[e]) \cup {h}
    BY <1>2, <2>1, <2>2, <2>3, AppendedElements
  <2> HIDE DEF a
  <2>5. /\ queue'[e] = a /\ \A x \in Executors \ {e} : queue'[x] = queue[x]
        /\ body'[h] = "queued" /\ \A g \in Handles \ {h} : body'[g] = body[g]
    BY <1>2, <1>8, <2>1 DEF WorkInv, TypeOK, a
  <2>6. TypeOK'
    <3>1. queue' \in [Executors -> Seq(Handles)]
      BY <1>8, <2>1, <2>4 DEF WorkInv, TypeOK, a
    <3>2. /\ body' \in [Handles -> {"none", "queued", "running", "done"}]
          /\ job' \in [Handles -> {"none", "queued", "blocked", "returned"}]
      BY <1>4, <1>8 DEF WorkInv, TypeOK
    <3> QED BY <1>1, <1>2, <3>1, <3>2 DEF WorkInv, TypeOK
  <2>7. PlaceInv'
    BY <1>1, <1>2, <1>3, <1>4, <2>1, <2>5 DEF WorkInv, TypeOK, PlaceInv
  <2>8. BodyQueueInv'
    <3>1. \A x \in Executors : Distinct(queue'[x])
      BY <2>4, <2>5 DEF WorkInv, BodyQueueInv
    <3>2. ASSUME NEW x \in Executors, NEW g \in ListElements(queue'[x])
          PROVE  body'[g] = "queued" /\ on[g] = x
      <4>1. CASE g = h
        <5>1. x = e
          BY <2>2, <2>5, <3>2, <4>1
        <5> QED BY <2>5, <4>1, <5>1
      <4>2. CASE g # h
        <5>1. g \in ListElements(queue[x]) /\ g \in Handles \ {h}
          BY <2>4, <2>5, <3>2, <4>2, QueueTypes DEF WorkInv
        <5> QED BY <2>5, <5>1 DEF WorkInv, BodyQueueInv
      <4> QED BY <4>1, <4>2
    <3> QED BY <1>1, <3>1, <3>2 DEF BodyQueueInv
  <2> QED BY <1>5, <1>6, <2>6, <2>7, <2>8 DEF WorkInv
<1> QED BY <1>7, <1>8 DEF DefaultTakes

LEMMA WorkerTakesWork == ASSUME WorkInv, NEW e \in Executors, WorkerTakes(e) PROVE WorkInv'
<1> SUFFICES ASSUME NEW h, h = Head(queue[e]) PROVE WorkInv'
  OBVIOUS
<1> USE DEF loopVars, execVars
<1>1. /\ queue[e] # <<>> /\ body' = [body EXCEPT ![h] = "running"]
      /\ queue' = [queue EXCEPT ![e] = Tail(queue[e])]
      /\ UNCHANGED <<poolKind, loopVars, job, defaultQ, execVars>>
  BY DEF WorkerTakes
<1> DEFINE r == Tail(queue[e])
<1>2. queue[e] \in Seq(Handles) /\ Distinct(queue[e])
  BY DEF WorkInv, TypeOK, BodyQueueInv
<1>3. /\ h \in Handles /\ h \in ListElements(queue[e]) /\ r \in Seq(Handles) /\ Distinct(r)
      /\ ListElements(r) = ListElements(queue[e]) \ {h}
  BY <1>1, <1>2, TailElements
<1>4. body[h] = "queued" /\ on[h] = e
  BY <1>3 DEF WorkInv, BodyQueueInv
<1>5. /\ queue'[e] = r /\ \A x \in Executors \ {e} : queue'[x] = queue[x]
      /\ \A g \in Handles \ {h} : body'[g] = body[g]
      /\ queue' \in [Executors -> Seq(Handles)]
  <2> HIDE DEF r
  <2>1. queue' = [queue EXCEPT ![e] = r]
    BY <1>1 DEF r
  <2> QED BY <1>1, <1>3, <2>1 DEF WorkInv, TypeOK
<1> HIDE DEF r
<1>6. TypeOK'
  BY <1>1, <1>5 DEF WorkInv, TypeOK
<1>7. Holders' = Holders
  BY <1>1 DEF Holders
<1>8. PlaceInv'
  BY <1>1, <1>3, <1>4, <1>5 DEF WorkInv, TypeOK, PlaceInv
<1>9. BodyQueueInv'
  <2>1. \A x \in Executors : Distinct(queue'[x])
    BY <1>3, <1>5 DEF WorkInv, BodyQueueInv
  <2>2. ASSUME NEW x \in Executors, NEW g \in ListElements(queue'[x])
        PROVE  g \in ListElements(queue[x]) /\ g \in Handles \ {h}
    <3>1. x # e => h \notin ListElements(queue[x])
      BY <1>4 DEF WorkInv, BodyQueueInv
    <3> QED BY <1>3, <1>5, <2>2, <3>1, QueueTypes DEF WorkInv
  <2> QED BY <1>1, <1>5, <2>1, <2>2 DEF WorkInv, BodyQueueInv
<1>10. JobQueueInv'
  BY <1>1 DEF WorkInv, JobQueueInv
<1> QED BY <1>6, <1>7, <1>8, <1>9, <1>10 DEF WorkInv, SlotInv

LEMMA BodyEndsWork == ASSUME WorkInv, NEW h \in Handles, BodyEnds(h) PROVE WorkInv'
<1> USE DEF loopVars, execVars
<1>1. /\ body[h] = "running" /\ body' = [body EXCEPT ![h] = "done"]
      /\ UNCHANGED <<poolKind, loopVars, job, defaultQ, queue, execVars>>
  BY DEF BodyEnds
<1>2. TypeOK'
  BY <1>1 DEF WorkInv, TypeOK
<1>3. Holders' = Holders
  BY <1>1 DEF Holders
<1>4. PlaceInv'
  BY <1>1 DEF WorkInv, TypeOK, PlaceInv
<1>5. BodyQueueInv'
  BY <1>1, QueueTypes DEF WorkInv, TypeOK, BodyQueueInv
<1>6. JobQueueInv'
  BY <1>1 DEF WorkInv, JobQueueInv
<1> QED BY <1>2, <1>3, <1>4, <1>5, <1>6 DEF WorkInv, SlotInv

(* What touches no call.                                                   *)
LEMMA CallsFrame ==
  ASSUME WorkInv, UNCHANGED <<poolKind, phase, workVars, on>>,
         cancelEvent' \in [Handles -> BOOLEAN], poked' \subseteq Handles,
         current' \in [Pools -> 0 .. 2], shut' \in {"no", "closing", "done"},
         closed' \subseteq Executors
  PROVE  WorkInv'
<1> USE DEF workVars
<1>1. TypeOK'
  BY DEF WorkInv, TypeOK
<1>2. Holders' = Holders
  BY DEF Holders
<1>3. PlaceInv' /\ JobQueueInv' /\ BodyQueueInv'
  BY DEF WorkInv, PlaceInv, JobQueueInv, BodyQueueInv
<1> QED BY <1>1, <1>2, <1>3 DEF WorkInv, SlotInv

LEMMA NextWork == WorkInv /\ [Next]_vars => WorkInv'
<1> SUFFICES ASSUME WorkInv, [Next]_vars PROVE WorkInv'
  OBVIOUS
<1> USE DEF loopVars, execVars
<1>1. CASE UNCHANGED vars \/ BeginShutdown
  BY <1>1, CallsFrame DEF vars, BeginShutdown, WorkInv, TypeOK
<1>2. CASE EndShutdown
  <2>1. current' \in [Pools -> 0 .. 2]
    BY <1>2 DEF EndShutdown
  <2> QED BY <1>2, <2>1, CallsFrame DEF EndShutdown, WorkInv, TypeOK
<1>3. ASSUME NEW p \in Pools, CloseExecutor(p) PROVE WorkInv'
  <2>1. <<p, 1>> \in Executors
    BY DEF Executors
  <2> QED BY <1>3, <2>1, CallsFrame DEF CloseExecutor, WorkInv, TypeOK
<1>4. ASSUME NEW h \in Handles, Cancel(h) PROVE WorkInv'
  BY <1>4, CallsFrame DEF Cancel, WorkInv, TypeOK
<1>5. ASSUME NEW h \in Handles, Settle(h) \/ OffloadEnds(h) \/ PollerGone(h) PROVE WorkInv'
  <2>1. /\ Becomes(h, "over") \/ Becomes(h, "closing")
        /\ UNCHANGED <<poolKind, cancelEvent, poked, workVars, execVars>>
    BY <1>5 DEF Settle, OffloadEnds, PollerGone
  <2>2. phase[h] \in {"waiting", "closing"}
    BY <1>5 DEF Settle, OffloadEnds, PollerGone
  <2> QED BY <2>1, <2>2, PhaseWork
<1>6. ASSUME NEW h \in Handles, WaitReturns(h) PROVE WorkInv'
  BY <1>6, JobWork DEF WaitReturns, WorkInv, TypeOK
<1> QED BY <1>1, <1>2, <1>3, <1>4, <1>5, <1>6, DispatchWork, AwaitHandleWork, GetExecutorWork, HandOverWork,
           CancelLandsWork, TimesOutWork, DefaultTakesWork, WorkerTakesWork, BodyEndsWork
        DEF Next, CoroutineStep, ShutdownStep

(* Slots, executors and queues agree with the coroutines, through cancels, *)
(* timeouts and a shutdown (_dispatch_one, _get_pool_executor, execute).   *)
THEOREM WorkInvariance == Spec => []WorkInv
BY InitWork, NextWork, PTL DEF Spec

(* When every worker of the pool is busy and a body whose handle holds a   *)
(* slot has none, one of them is run by a body whose handle is over: the   *)
(* slots of Runner._pool_in_use never promise more workers than there are. *)
THEOREM QueuedBehindRunawaysAlways == Spec => []QueuedBehindRunaways
<1>1. WorkInv => QueuedBehindRunaways
  <2> SUFFICES ASSUME WorkInv, NEW e \in Executors, e[1] = "main", NEW i \in DOMAIN queue[e],
                      ~Over(queue[e][i]), Cardinality(Running(e)) = Workers["main"],
                      \A g \in Running(e) : ~Over(g)
               PROVE  FALSE
    BY DEF QueuedBehindRunaways
  <2> DEFINE h == queue[e][i]
  <2>1. h \in ListElements(queue[e]) /\ h \in Handles
    BY DEF WorkInv, TypeOK, ListElements
  <2>2. body[h] = "queued" /\ on[h] = e
    BY <2>1 DEF WorkInv, BodyQueueInv
  <2>3. ASSUME NEW g \in Handles, on[g] = e, ~Over(g) PROVE g \in Holders
    <3>1. on[g] # NoExecutor
      BY <2>3 DEF NoExecutor
    <3>2. Kind[g] # "await" /\ PoolOf(g) = "main" /\ phase[g] # "new"
      BY <2>3, <3>1 DEF WorkInv, PlaceInv
    <3> QED BY <2>3, <3>2, WorkersAssumption DEF Holders, Over, PoolOf
  <2>4. Running(e) \cup {h} \subseteq Holders /\ h \notin Running(e)
    BY <2>1, <2>2, <2>3 DEF Running
  <2>5. IsFiniteSet(Holders) /\ Cardinality(Holders) <= Workers["main"]
    BY DEF WorkInv, SlotInv
  <2>6. IsFiniteSet(Running(e)) /\ Cardinality(Running(e) \cup {h}) <= Cardinality(Holders)
    BY <2>4, <2>5, FS_Subset
  <2>7. Cardinality(Running(e) \cup {h}) = Workers["main"] + 1
    BY <2>4, <2>6, FS_AddElement
  <2>8. Cardinality(Holders) \in Nat /\ Workers["main"] \in Nat
    BY <2>5, FS_CardinalityType, WorkersAssumption DEF Pools
  <2> QED BY <2>5, <2>6, <2>7, <2>8
<1> QED BY <1>1, WorkInvariance, PTL

=============================================================================
