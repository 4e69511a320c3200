--------------------------- MODULE DispatchProofs ---------------------------
(***************************************************************************)
(* Theorems about Dispatch, for every set of handles, pools and            *)
(* configurations: type correctness, the inductive invariant IInv with the *)
(* slot accounting, the pool capacities and the dependency gate, the       *)
(* stability of terminal statuses, the refinement of Workflow; then, for a *)
(* run, the verdicts on dependencies, the attempts, the cancellations and  *)
(* that it never stalls.                                                   *)
(***************************************************************************)
EXTENDS Dispatch, FiniteSetTheorems, TLAPS

-----------------------------------------------------------------------------
(* Type correctness.  TypeOK is inductive by itself; the steps of a        *)
(* coroutine all go through Exit or StartAttempt.                          *)

LEMMA AttemptPhaseType ==
  ASSUME NEW h PROVE AttemptPhase(h) \in {"async", "inline", "pool"}
BY DEF AttemptPhase

LEMMA Decrement ==
  ASSUME NEW S, NEW f \in [S -> Nat], NEW x, f[x] > 0
  PROVE  [f EXCEPT ![x] = @ - 1] \in [S -> Nat]
<1>1. CASE x \in S
  BY <1>1
<1>2. CASE x \notin S
  <2>1. [f EXCEPT ![x] = @ - 1] = f
    BY <1>2
  <2> QED BY <2>1
<1> QED BY <1>1, <1>2

LEMMA Increment ==
  ASSUME NEW S, NEW f \in [S -> Nat], NEW x
  PROVE  [f EXCEPT ![x] = @ + 1] \in [S -> Nat]
<1>1. CASE x \in S
  BY <1>1
<1>2. CASE x \notin S
  <2>1. [f EXCEPT ![x] = @ + 1] = f
    BY <1>2
  <2> QED BY <2>1
<1> QED BY <1>1, <1>2

LEMMA ReleaseSlotType ==
  ASSUME TypeOK, NEW h, ReleaseSlot(h)
  PROVE  poolRunning' \in [Pools -> Nat] /\ poolUnpriv' \in [Pools -> Nat]
<1>0. poolRunning \in [Pools -> Nat] /\ poolUnpriv \in [Pools -> Nat]
  BY DEF TypeOK
<1>1. poolRunning' \in [Pools -> Nat]
  BY <1>0, Decrement DEF ReleaseSlot
<1>2. poolUnpriv' \in [Pools -> Nat]
  BY <1>0, Decrement DEF ReleaseSlot
<1> QED BY <1>1, <1>2

ExecType == /\ status' \in [Handles -> Statuses]
            /\ error' \in [Handles -> Errors]
            /\ phase' \in [Handles -> Phases]
            /\ aioCancel' \in [Handles -> SUBSET {"posted", "called"}]
            /\ future' \in [Handles -> Results \cup {"none", "pending"}]
            /\ attempts' \in [Handles -> Nat]
            /\ poolRunning' \in [Pools -> Nat]
            /\ poolUnpriv' \in [Pools -> Nat]

LEMMA ExitType ==
  ASSUME TypeOK, NEW h \in Handles, NEW s \in Statuses, NEW e \in Errors, Exit(h, s, e)
  PROVE  ExecType
<1>1. poolRunning' \in [Pools -> Nat] /\ poolUnpriv' \in [Pools -> Nat]
  BY ReleaseSlotType DEF Exit
<1>2. status' \in [Handles -> Statuses] /\ error' \in [Handles -> Errors]
  BY DEF Exit, Complete, TypeOK
<1>3. phase' \in [Handles -> Phases] /\ attempts' \in [Handles -> Nat]
  BY DEF Exit, TypeOK, Phases
<1>4. /\ aioCancel' \in [Handles -> SUBSET {"posted", "called"}]
      /\ future' \in [Handles -> Results \cup {"none", "pending"}]
  BY DEF Exit, TypeOK
<1> QED BY <1>1, <1>2, <1>3, <1>4 DEF ExecType

LEMMA StartAttemptType ==
  ASSUME TypeOK, NEW h \in Handles, StartAttempt(h)
  PROVE  ExecType
<1>1. status' \in [Handles -> Statuses] /\ attempts' \in [Handles -> Nat]
  BY DEF StartAttempt, TypeOK, Statuses
<1>2. phase' \in [Handles -> Phases]
  BY AttemptPhaseType DEF StartAttempt, TypeOK, Phases
<1>3. future' \in [Handles -> Results \cup {"none", "pending"}]
  BY DEF StartAttempt, TypeOK
<1> QED BY <1>1, <1>2, <1>3 DEF StartAttempt, ExecType, TypeOK, slots

LEMMA AttemptEndedType ==
  ASSUME TypeOK, NEW h \in Handles, NEW r \in Results, AttemptEnded(h, r)
  PROVE  ExecType
<1>0. /\ {"COMPLETED", "CANCELLED", "FAILED"} \subseteq Statuses
      /\ {"none", "cancelled", "timeout"} \subseteq Errors
      /\ FailureOf(h, "body") \in Errors
  BY DEF Statuses, TerminalStatuses, Errors, FailureOf
<1>1. ASSUME NEW retryable \in BOOLEAN, AttemptFailed(h, retryable) PROVE ExecType
  <2>1. CASE Exit(h, "CANCELLED", "cancelled") \/ Exit(h, "FAILED", FailureOf(h, "body"))
    BY <1>0, <2>1, ExitType
  <2>2. CASE StartAttempt(h)
    BY <2>2, StartAttemptType
  <2>3. CASE /\ phase' = [phase EXCEPT ![h] = "backoff"]
             /\ future' = [future EXCEPT ![h] = "none"]
             /\ UNCHANGED <<status, error, aioCancel, attempts, slots>>
    BY <2>3 DEF TypeOK, ExecType, Phases, slots
  <2> QED BY <1>1, <2>1, <2>2, <2>3 DEF AttemptFailed
<1>2. CASE r = "error" \/ r = "fatal"
  BY <1>1, <1>2 DEF AttemptEnded
<1>3. CASE r \in {"ok", "cancel", "timeout"}
  <2>1. \/ Exit(h, "COMPLETED", "none") \/ Exit(h, "CANCELLED", "cancelled")
        \/ Exit(h, "FAILED", "timeout")
    BY <1>3 DEF AttemptEnded
  <2> QED BY <1>0, <2>1, ExitType
<1> QED BY <1>2, <1>3 DEF Results

LEMMA InitType == Init => TypeOK
<1> SUFFICES ASSUME Init PROVE TypeOK
  OBVIOUS
<1>1. /\ "PENDING" \in Statuses /\ "none" \in Errors /\ "none" \in Phases /\ "off" \in Loops
  BY DEF Statuses, Errors, Phases, Loops
<1>2. /\ task \in [Handles -> TaskConfigs \cup {NoTask}] /\ deps \in [Handles -> SUBSET Handles]
      /\ status \in [Handles -> Statuses] /\ error \in [Handles -> Errors]
      /\ cancelEvent \in [Handles -> BOOLEAN] /\ phase \in [Handles -> Phases]
  BY <1>1 DEF Init
<1>3. /\ aioCancel \in [Handles -> SUBSET {"posted", "called"}]
      /\ future \in [Handles -> Results \cup {"none", "pending"}]
      /\ attempts \in [Handles -> Nat]
      /\ poolRunning \in [Pools -> Nat] /\ poolUnpriv \in [Pools -> Nat]
  BY DEF Init
<1> QED BY <1>1, <1>2, <1>3 DEF Init, TypeOK

LEMMA NextType == TypeOK /\ [Next]_vars => TypeOK'
<1> SUFFICES ASSUME TypeOK, [Next]_vars PROVE TypeOK'
  OBVIOUS
<1> USE DEF registry, cancelVars, slots, execVars, passVars, loopVars, signals
<1>1. ASSUME NEW h \in Handles, NEW c \in TaskConfigs, NEW D \in SUBSET Registered,
             Submit(h, c, D)
      PROVE  TypeOK'
  BY <1>1 DEF Submit, TypeOK, Registered
<1>2. ASSUME NEW h \in Handles, CallerStep(h) PROVE TypeOK'
  <2>1. CASE WakeLoop(h) BY <2>1 DEF WakeLoop, TypeOK
  <2>2. CASE Cancel(h) BY <2>2 DEF Cancel, TypeOK
  <2>3. CASE NotifyCancel(h) BY <2>3 DEF NotifyCancel, TypeOK
  <2> QED BY <1>2, <2>1, <2>2, <2>3 DEF CallerStep
<1>3. ASSUME NEW h \in Handles, AwaitStep(h) PROVE TypeOK'
  <2>0. /\ {"CANCELLED", "FAILED"} \subseteq Statuses
        /\ "cancelled" \in Errors /\ FailureOf(h, "interrupted") \in Errors
    BY DEF Statuses, TerminalStatuses, Errors, FailureOf
  <2>1. CASE BeginExecute(h)
    <3>1. ExecType
      BY <2>0, <2>1, ExitType, StartAttemptType DEF BeginExecute
    <3> QED BY <2>1, <3>1 DEF BeginExecute, ExecType, TypeOK
  <2>2. CASE PoolResumes(h)
    <3>1. ExecType
      BY <2>2, AttemptEndedType DEF PoolResumes
    <3> QED BY <2>2, <3>1 DEF PoolResumes, ExecType, TypeOK
  <2>3. CASE BackoffEnds(h)
    <3>1. ExecType
      BY <2>3, StartAttemptType DEF BackoffEnds
    <3> QED BY <2>3, <3>1 DEF BackoffEnds, ExecType, TypeOK
  <2>4. CASE ThrowCancelled(h)
    <3>1. ExecType
      <4>1. CASE Exit(h, "CANCELLED", "cancelled") \/ Exit(h, "FAILED", FailureOf(h, "interrupted"))
        BY <2>0, <4>1, ExitType
      <4>2. CASE /\ aioCancel' = [aioCancel EXCEPT ![h] = IF "called" \in @ THEN @ \ {"called"} ELSE {}]
                 /\ UNCHANGED <<cancelEvent, status, error, phase, future, attempts, slots>>
        BY <4>2 DEF ExecType, TypeOK
      <4> QED BY <2>4, <4>1, <4>2 DEF ThrowCancelled
    <3>2. cancelEvent' \in [Handles -> BOOLEAN]
      BY <2>4 DEF ThrowCancelled, TypeOK
    <3> QED BY <2>4, <3>1, <3>2 DEF ThrowCancelled, ExecType, TypeOK
  <2> QED BY <1>3, <2>1, <2>2, <2>3, <2>4 DEF AwaitStep
<1>4. ASSUME NEW h \in Handles, BodyStep(h) PROVE TypeOK'
  <2> PICK r \in Results : AsyncBodyEnds(h, r) \/ InlineBodyEnds(h, r) \/ WorkerEnds(h, r)
    BY <1>4 DEF BodyStep
  <2>1. CASE AsyncBodyEnds(h, r)
    <3>1. ExecType
      BY <2>1, AttemptEndedType DEF AsyncBodyEnds
    <3>2. cancelEvent' \in [Handles -> BOOLEAN]
      BY <2>1 DEF AsyncBodyEnds, TypeOK
    <3> QED BY <2>1, <3>1, <3>2 DEF AsyncBodyEnds, ExecType, TypeOK
  <2>2. CASE InlineBodyEnds(h, r)
    <3>1. ExecType
      BY <2>2, AttemptEndedType DEF InlineBodyEnds
    <3> QED BY <2>2, <3>1 DEF InlineBodyEnds, ExecType, TypeOK
  <2>3. CASE WorkerEnds(h, r)
    BY <2>3 DEF WorkerEnds, TypeOK
  <2> QED BY <2>1, <2>2, <2>3
<1>5. ASSUME NEW h \in Handles, PassStep(h) PROVE TypeOK'
  <2>1. CASE Postpone(h) BY <2>1 DEF Postpone, TypeOK
  <2>2. CASE MarkSkipped(h)
    BY <2>2 DEF MarkSkipped, Resolve, Complete, TypeOK, Statuses, TerminalStatuses, Errors
  <2>3. CASE MarkDepFailed(h)
    BY <2>3 DEF MarkDepFailed, Resolve, Complete, TypeOK, Statuses, TerminalStatuses, Errors
  <2>4. CASE StartHandle(h)
    <3>1. /\ poolRunning' \in [Pools -> Nat] /\ poolUnpriv' \in [Pools -> Nat]
      <4>1. poolRunning \in [Pools -> Nat] /\ poolUnpriv \in [Pools -> Nat]
        BY DEF TypeOK
      <4> QED BY <2>4, <4>1, Increment DEF StartHandle
    <3>2. status' \in [Handles -> Statuses] /\ phase' \in [Handles -> Phases]
      BY <2>4 DEF StartHandle, TypeOK, Statuses, Phases
    <3> QED BY <2>4, <3>1, <3>2 DEF StartHandle, TypeOK
  <2> QED BY <1>5, <2>1, <2>2, <2>3, <2>4 DEF PassStep
<1>6. ASSUME NEW e \in {"new_work", "stop"}, SetEvent(e) PROVE TypeOK'
  BY <1>6 DEF SetEvent, TypeOK
<1>7. ASSUME NEW m \in Modes, Enter(m) PROVE TypeOK'
  BY <1>7, ConfigAssumption DEF Enter, TypeOK, Pending, Registered, Loops
<1>8. CASE Stop BY <1>8 DEF Stop, TypeOK
<1>9. CASE LoopStep
  <2>1. CASE BindLoopEvents BY <2>1 DEF BindLoopEvents, TypeOK, Loops
  <2>2. CASE ObserveStop BY <2>2 DEF ObserveStop, TypeOK, Loops
  <2>3. CASE BeginPass BY <2>3 DEF BeginPass, TypeOK, Loops, Pending, Registered
  <2>4. CASE EndPass BY <2>4 DEF EndPass, AfterPass, TypeOK, Loops
  <2>5. CASE Reap BY <2>5 DEF Reap, CancelInFlight, Unfinished, TypeOK, Loops
  <2>6. CASE WakeUp BY <2>6 DEF WakeUp, TypeOK, Loops
  <2>7. CASE Leave BY <2>7 DEF Leave, TypeOK, Loops
  <2> QED BY <1>9, <2>1, <2>2, <2>3, <2>4, <2>5, <2>6, <2>7 DEF LoopStep
<1>10. CASE Interrupt BY <1>10 DEF Interrupt, CancelInFlight, Unfinished, TypeOK, Loops
<1>11. CASE UNCHANGED vars BY <1>11 DEF vars, TypeOK
<1> QED BY <1>1, <1>2, <1>3, <1>4, <1>5, <1>6, <1>7, <1>8, <1>9, <1>10, <1>11
        DEF Next, SubmitSome

(* Every variable of the runner keeps its type: no counter goes negative,  *)
(* no status, phase or signal leaves its set.                              *)
THEOREM TypeCorrect == Spec => []TypeOK
BY InitType, NextType, PTL DEF Spec

-----------------------------------------------------------------------------
(* The shape of a step of a coroutine: it ends, or it stays in flight.     *)

Executing == {"async", "inline", "pool", "backoff"}
ExecErrors == Errors \ {"dependency"}

ExitStep(h) ==
  /\ phase' = [phase EXCEPT ![h] = "finished"]
  /\ \E s \in {"COMPLETED", "FAILED", "CANCELLED"} : status' = [status EXCEPT ![h] = s]
  /\ \E e \in ExecErrors : error' = [error EXCEPT ![h] = e]
  /\ ReleaseSlot(h)

StayStep(h) ==
  /\ \E q \in Executing \cup {phase[h]} : phase' = [phase EXCEPT ![h] = q]
  /\ \E s \in {status[h], "RUNNING", "RETRYING"} : status' = [status EXCEPT ![h] = s]
  /\ UNCHANGED <<error, poolRunning, poolUnpriv>>

CoroutineStep(h) == /\ Holds(h)
                    /\ UNCHANGED <<registry, loopVars>>
                    /\ ExitStep(h) \/ StayStep(h)

LEMMA ExitShape ==
  ASSUME NEW h, NEW s \in {"COMPLETED", "FAILED", "CANCELLED"}, NEW e \in ExecErrors, Exit(h, s, e)
  PROVE  ExitStep(h)
BY DEF Exit, Complete, ExitStep

LEMMA StartAttemptShape ==
  ASSUME NEW h, StartAttempt(h)
  PROVE  StayStep(h)
<1>1. \E q \in Executing : phase' = [phase EXCEPT ![h] = q]
  BY AttemptPhaseType DEF StartAttempt, Executing
<1>2. \E s \in {"RUNNING", "RETRYING"} : status' = [status EXCEPT ![h] = s]
  BY DEF StartAttempt
<1> QED BY <1>1, <1>2 DEF StartAttempt, StayStep, slots

(* A step that leaves the phase and the status of h alone is a stay too.   *)
LEMMA QuietShape ==
  ASSUME TypeOK, NEW h \in Handles, Holds(h), UNCHANGED <<phase, status, error, slots>>
  PROVE  StayStep(h)
<1>1. phase = [phase EXCEPT ![h] = phase[h]]
  BY DEF TypeOK
<1>2. status = [status EXCEPT ![h] = status[h]]
  BY DEF TypeOK
<1> QED BY <1>1, <1>2 DEF StayStep, slots

LEMMA AttemptEndedShape ==
  ASSUME TypeOK, NEW h \in Handles, NEW r \in Results, AttemptEnded(h, r)
  PROVE  ExitStep(h) \/ StayStep(h)
<1>0. {"none", "cancelled", "timeout", "exhausted", "body"} \subseteq ExecErrors
  BY DEF ExecErrors, Errors
<1>1. ASSUME NEW retryable \in BOOLEAN, AttemptFailed(h, retryable)
      PROVE  ExitStep(h) \/ StayStep(h)
  <2>1. CASE Exit(h, "CANCELLED", "cancelled") \/ Exit(h, "FAILED", FailureOf(h, "body"))
    BY <1>0, <2>1, ExitShape DEF FailureOf
  <2>2. CASE StartAttempt(h)
    BY <2>2, StartAttemptShape
  <2>3. CASE /\ phase' = [phase EXCEPT ![h] = "backoff"]
             /\ UNCHANGED <<status, error, slots>>
    <3>1. status' = [status EXCEPT ![h] = status[h]]
      BY <2>3 DEF TypeOK
    <3> QED BY <2>3, <3>1 DEF StayStep, Executing, slots
  <2> QED BY <1>1, <2>1, <2>2, <2>3 DEF AttemptFailed
<1>2. CASE r = "error" \/ r = "fatal"
  BY <1>1, <1>2 DEF AttemptEnded
<1>3. CASE r \in {"ok", "cancel", "timeout"}
  <2>1. \/ Exit(h, "COMPLETED", "none") \/ Exit(h, "CANCELLED", "cancelled")
        \/ Exit(h, "FAILED", "timeout")
    BY <1>3 DEF AttemptEnded
  <2> QED BY <1>0, <2>1, ExitShape
<1> QED BY <1>2, <1>3 DEF Results

LEMMA CoroutineShape ==
  ASSUME TypeOK, NEW h \in Handles, AwaitStep(h) \/ BodyStep(h)
  PROVE  CoroutineStep(h)
<1> USE DEF Holds, Settled
<1>0. {"cancelled", "exhausted", "interrupted"} \subseteq ExecErrors
  BY DEF ExecErrors, Errors
<1>1. CASE BeginExecute(h)
  BY <1>0, <1>1, ExitShape, StartAttemptShape DEF BeginExecute, CoroutineStep
<1>2. CASE PoolResumes(h)
  BY <1>2, AttemptEndedShape DEF PoolResumes, CoroutineStep
<1>3. CASE BackoffEnds(h)
  BY <1>3, StartAttemptShape DEF BackoffEnds, CoroutineStep
<1>4. CASE ThrowCancelled(h)
  <2>1. Holds(h) /\ UNCHANGED <<registry, loopVars>>
    BY <1>4 DEF ThrowCancelled
  <2>2. CASE Exit(h, "CANCELLED", "cancelled") \/ Exit(h, "FAILED", FailureOf(h, "interrupted"))
    BY <1>0, <2>1, <2>2, ExitShape DEF FailureOf, CoroutineStep
  <2>3. CASE UNCHANGED <<phase, status, error, slots>>
    BY <2>1, <2>3, QuietShape DEF CoroutineStep
  <2> QED BY <1>4, <2>2, <2>3 DEF ThrowCancelled
<1>5. ASSUME NEW r \in Results, AsyncBodyEnds(h, r) \/ InlineBodyEnds(h, r)
      PROVE  CoroutineStep(h)
  BY <1>5, AttemptEndedShape DEF AsyncBodyEnds, InlineBodyEnds, CoroutineStep
<1>6. ASSUME NEW r \in Results, WorkerEnds(h, r) PROVE CoroutineStep(h)
  <2>1. Holds(h) /\ UNCHANGED <<registry, loopVars, phase, status, error, slots>>
    BY <1>6 DEF WorkerEnds
  <2> QED BY <2>1, QuietShape DEF CoroutineStep
<1> QED BY <1>1, <1>2, <1>3, <1>4, <1>5, <1>6 DEF AwaitStep, BodyStep

(* What a step of the runner can do to the handles.                        *)
BookkeepingStep == UNCHANGED <<registry, status, error, phase, slots>>

StepKinds ==
  \/ \E h \in Handles, c \in TaskConfigs : \E D \in SUBSET Registered : Submit(h, c, D)
  \/ \E h \in Handles : CoroutineStep(h) \/ StartHandle(h) \/ MarkSkipped(h) \/ MarkDepFailed(h)
  \/ BookkeepingStep

LEMMA NextKinds == TypeOK /\ [Next]_vars => StepKinds
<1> SUFFICES ASSUME TypeOK, [Next]_vars PROVE StepKinds
  OBVIOUS
<1> USE DEF execVars
<1>1. CASE SubmitSome
  BY <1>1 DEF SubmitSome, StepKinds
<1>2. ASSUME NEW h \in Handles, AwaitStep(h) \/ BodyStep(h) PROVE StepKinds
  BY <1>2, CoroutineShape DEF StepKinds
<1>3. ASSUME NEW h \in Handles, CallerStep(h) PROVE BookkeepingStep
  BY <1>3 DEF CallerStep, WakeLoop, Cancel, NotifyCancel, BookkeepingStep
<1>4. ASSUME NEW h \in Handles, PassStep(h) PROVE StepKinds
  <2>1. CASE Postpone(h) BY <2>1 DEF Postpone, BookkeepingStep, StepKinds
  <2> QED BY <1>4, <2>1 DEF PassStep, StepKinds
<1>5. ASSUME NEW e, SetEvent(e) PROVE BookkeepingStep
  BY <1>5 DEF SetEvent, BookkeepingStep
<1>6. ASSUME NEW m, Enter(m) PROVE BookkeepingStep
  BY <1>6 DEF Enter, BookkeepingStep
<1>7. CASE Stop BY <1>7 DEF Stop, BookkeepingStep, StepKinds
<1>8. CASE LoopStep
  <2>1. BookkeepingStep
    BY <1>8 DEF LoopStep, BindLoopEvents, ObserveStop, BeginPass, EndPass, Reap, WakeUp,
                Leave, BookkeepingStep
  <2> QED BY <2>1 DEF StepKinds
<1>9. CASE Interrupt BY <1>9 DEF Interrupt, BookkeepingStep, StepKinds
<1>10. CASE UNCHANGED vars BY <1>10 DEF vars, BookkeepingStep, StepKinds
<1> QED BY <1>1, <1>2, <1>3, <1>4, <1>5, <1>6, <1>7, <1>8, <1>9, <1>10 DEF Next, StepKinds

-----------------------------------------------------------------------------
(* The slots.                                                              *)

LEMMA HoldersFinite ==
  ASSUME NEW p PROVE IsFiniteSet(Holders(p)) /\ IsFiniteSet(UnprivHolders(p))
<1>1. Holders(p) \in SUBSET Handles /\ UnprivHolders(p) \in SUBSET Handles
  BY DEF Holders, UnprivHolders
<1> QED BY <1>1, HandlesAssumption, FS_Subset

(* A registered handle names a pool of the runner.                         *)
LEMMA PoolOfType ==
  ASSUME TypeOK, NEW h \in Handles, task[h] # NoTask
  PROVE  PoolOf(h) \in Pools
<1>1. task[h] \in TaskConfig
  BY ConfigAssumption DEF TypeOK
<1> QED BY <1>1 DEF TaskConfig, PoolOf

LEMMA HoldersSame ==
  ASSUME NEW p, \A k \in Handles : Holds(k)' = Holds(k),
         \A k \in Handles : Holds(k) => task'[k] = task[k]
  PROVE  Holders(p)' = Holders(p) /\ UnprivHolders(p)' = UnprivHolders(p)
<1>1. Holders(p)' = Holders(p)
  BY DEF Holders, PoolOf
<1>2. \A k \in Holders(p) : IsPrivileged(k)' = IsPrivileged(k)
  BY DEF Holders, IsPrivileged, PoolOf
<1> QED BY <1>1, <1>2 DEF UnprivHolders

(* The coroutine of h ends and no other changes.                           *)
LEMMA HoldersExit ==
  ASSUME TypeOK, NEW h \in Handles, NEW p, UNCHANGED task,
         phase' = [phase EXCEPT ![h] = "finished"]
  PROVE  Holders(p)' = Holders(p) \ {h} /\ UnprivHolders(p)' = UnprivHolders(p) \ {h}
<1>1. \A k \in Handles : Holds(k)' <=> (Holds(k) /\ k # h)
  BY DEF Holds, Settled, TypeOK
<1>2. Holders(p)' = Holders(p) \ {h}
  BY <1>1 DEF Holders, PoolOf
<1>3. \A k \in Handles : IsPrivileged(k)' = IsPrivileged(k)
  BY DEF IsPrivileged, PoolOf
<1> QED BY <1>2, <1>3 DEF UnprivHolders, Holders

(* The coroutine of h is created.                                          *)
LEMMA HoldersStart ==
  ASSUME TypeOK, NEW h \in Handles, NEW p, UNCHANGED task,
         phase' = [phase EXCEPT ![h] = "created"]
  PROVE  /\ Holders(p)' = IF PoolOf(h) = p THEN Holders(p) \cup {h} ELSE Holders(p)
         /\ UnprivHolders(p)' = IF PoolOf(h) = p /\ ~IsPrivileged(h)
                                THEN UnprivHolders(p) \cup {h} ELSE UnprivHolders(p)
<1>1. \A k \in Handles : Holds(k)' <=> (Holds(k) \/ k = h)
  BY DEF Holds, Settled, TypeOK
<1>2. Holders(p)' = IF PoolOf(h) = p THEN Holders(p) \cup {h} ELSE Holders(p)
  BY <1>1 DEF Holders, PoolOf
<1>3. \A k \in Handles : IsPrivileged(k)' = IsPrivileged(k)
  BY DEF IsPrivileged, PoolOf
<1> QED BY <1>2, <1>3 DEF UnprivHolders, Holders

LEMMA SlotsExit ==
  ASSUME IInv, NEW h \in Handles, CoroutineStep(h), ExitStep(h)
  PROVE  SlotAccounting' /\ PoolCapacity'
<1> DEFINE P == PoolOf(h)
<1>1. P \in Pools /\ poolRunning \in [Pools -> Nat] /\ poolUnpriv \in [Pools -> Nat]
  BY PoolOfType DEF IInv, TypeOK, ViewsAgree, RegistryAgrees, CoroutineStep, Holds, Settled
<1>2. h \in Holders(P) /\ (h \in UnprivHolders(P) <=> ~IsPrivileged(h))
  BY DEF CoroutineStep, Holders, UnprivHolders
<1>3. Cardinality(Holders(P)) > 0
  BY <1>2, HoldersFinite, FS_EmptySet, FS_CardinalityType
<1>4. ~IsPrivileged(h) => Cardinality(UnprivHolders(P)) > 0
  BY <1>2, HoldersFinite, FS_EmptySet, FS_CardinalityType
<1>5. /\ poolRunning' = [poolRunning EXCEPT ![P] = @ - 1]
      /\ poolUnpriv' = IF IsPrivileged(h) THEN poolUnpriv ELSE [poolUnpriv EXCEPT ![P] = @ - 1]
  BY <1>1, <1>3, <1>4 DEF ExitStep, ReleaseSlot, IInv, SlotAccounting
<1>6. ASSUME NEW p \in Pools
      PROVE  /\ Cardinality(Holders(p)') = IF p = P THEN Cardinality(Holders(p)) - 1
                                           ELSE Cardinality(Holders(p))
             /\ Cardinality(UnprivHolders(p)') = IF p = P /\ ~IsPrivileged(h)
                                                 THEN Cardinality(UnprivHolders(p)) - 1
                                                 ELSE Cardinality(UnprivHolders(p))
  <2>1. Holders(p)' = Holders(p) \ {h} /\ UnprivHolders(p)' = UnprivHolders(p) \ {h}
    BY HoldersExit DEF CoroutineStep, ExitStep, registry, IInv
  <2>2. /\ h \in Holders(p) <=> p = P
        /\ h \in UnprivHolders(p) <=> (p = P /\ ~IsPrivileged(h))
    BY DEF CoroutineStep, Holders, UnprivHolders
  <2> QED BY <2>1, <2>2, HoldersFinite, FS_RemoveElement
<1>7. ASSUME NEW p \in Pools
      PROVE  Cardinality(Holders(p)) \in Nat /\ Cardinality(UnprivHolders(p)) \in Nat
  BY HoldersFinite, FS_CardinalityType
<1>8. ASSUME NEW p \in Pools PROVE MaxWorkers[p] \in Nat /\ UnprivilegedCap(p) \in Int
  BY PoolAssumption DEF UnprivilegedCap
<1>9. SlotAccounting'
  BY <1>1, <1>5, <1>6 DEF IInv, SlotAccounting
<1>10. PoolCapacity'
  <2>1. ASSUME NEW p \in Pools
        PROVE  /\ Cardinality(Holders(p)') <= MaxWorkers[p]
               /\ Cardinality(UnprivHolders(p)') <= UnprivilegedCap(p)
    BY <1>6, <1>7, <1>8 DEF IInv, PoolCapacity
  <2> QED BY <2>1 DEF PoolCapacity, UnprivilegedCap
<1> QED BY <1>9, <1>10

LEMMA SlotsStart ==
  ASSUME IInv, NEW h \in Handles, StartHandle(h)
  PROVE  SlotAccounting' /\ PoolCapacity'
<1> DEFINE P == PoolOf(h)
<1>1. Readiness(h) = "go" /\ ~Done(h) /\ h \in remaining \ running
  BY DEF StartHandle, IInv, ViewsAgree, DispatcherAgrees
<1>2. HasCapacity(h)
  <2>1. task[h] \in TaskConfig
    BY <1>1, ConfigAssumption DEF IInv, TypeOK, ViewsAgree, DispatcherAgrees, Registered
  <2>2. task[h].policy \in {"fail", "skip", "run-anyway"}
    BY <2>1 DEF TaskConfig, Policies
  <2> QED BY <1>1, <2>2 DEF Readiness
<1>3. P \in Pools /\ poolRunning \in [Pools -> Nat] /\ poolUnpriv \in [Pools -> Nat]
  BY <1>1, PoolOfType DEF IInv, TypeOK, ViewsAgree, DispatcherAgrees, Registered
<1>4. ~Holds(h)
  BY <1>1 DEF IInv, ViewsAgree, CoroutinesAgree
<1>5. ASSUME NEW p \in Pools
      PROVE  /\ Cardinality(Holders(p)') = IF p = P THEN Cardinality(Holders(p)) + 1
                                           ELSE Cardinality(Holders(p))
             /\ Cardinality(UnprivHolders(p)') = IF p = P /\ ~IsPrivileged(h)
                                                 THEN Cardinality(UnprivHolders(p)) + 1
                                                 ELSE Cardinality(UnprivHolders(p))
  <2>1. /\ Holders(p)' = IF P = p THEN Holders(p) \cup {h} ELSE Holders(p)
        /\ UnprivHolders(p)' = IF P = p /\ ~IsPrivileged(h)
                               THEN UnprivHolders(p) \cup {h} ELSE UnprivHolders(p)
    BY HoldersStart DEF StartHandle, registry, IInv
  <2>2. h \notin Holders(p) /\ h \notin UnprivHolders(p)
    BY <1>4 DEF Holders, UnprivHolders
  <2> QED BY <2>1, <2>2, HoldersFinite, FS_AddElement
<1>6. ASSUME NEW p \in Pools
      PROVE  Cardinality(Holders(p)) \in Nat /\ Cardinality(UnprivHolders(p)) \in Nat
  BY HoldersFinite, FS_CardinalityType
<1>7. ASSUME NEW p \in Pools PROVE MaxWorkers[p] \in Nat /\ UnprivilegedCap(p) \in Int
  BY PoolAssumption DEF UnprivilegedCap
<1>8. SlotAccounting'
  BY <1>3, <1>5 DEF IInv, SlotAccounting, StartHandle
<1>9. PoolCapacity'
  <2>1. ASSUME NEW p \in Pools
        PROVE  /\ Cardinality(Holders(p)') <= MaxWorkers[p]
               /\ Cardinality(UnprivHolders(p)') <= UnprivilegedCap(p)
    <3>1. CASE p # P
      BY <1>5, <3>1 DEF IInv, PoolCapacity
    <3>2. CASE p = P
      <4>1. Cardinality(Holders(p)) < MaxWorkers[p]
        BY <1>2, <3>2 DEF HasCapacity, IInv, SlotAccounting
      <4>2. IsPrivileged(h) \/ Cardinality(UnprivHolders(p)) < UnprivilegedCap(p)
        BY <1>2, <3>2 DEF HasCapacity, IInv, SlotAccounting
      <4>3. Cardinality(UnprivHolders(p)) <= UnprivilegedCap(p)
        BY DEF IInv, PoolCapacity
      <4> QED BY <1>5, <1>6, <1>7, <3>2, <4>1, <4>2, <4>3
    <3> QED BY <3>1, <3>2
  <2> QED BY <2>1 DEF PoolCapacity, UnprivilegedCap
<1> QED BY <1>8, <1>9

LEMMA SlotsSame ==
  ASSUME IInv, UNCHANGED slots, \A k \in Handles : Holds(k)' = Holds(k),
         \A k \in Handles : Holds(k) => task'[k] = task[k]
  PROVE  SlotAccounting' /\ PoolCapacity'
<1>1. \A p \in Pools : Holders(p)' = Holders(p) /\ UnprivHolders(p)' = UnprivHolders(p)
  BY HoldersSame
<1> QED BY <1>1 DEF IInv, SlotAccounting, PoolCapacity, slots, UnprivilegedCap

LEMMA NextSlots == IInv /\ [Next]_vars => SlotAccounting' /\ PoolCapacity'
<1> SUFFICES ASSUME IInv, [Next]_vars PROVE SlotAccounting' /\ PoolCapacity'
  OBVIOUS
<1> USE DEF Holds, Settled
<1>0. StepKinds
  BY NextKinds DEF IInv
<1>1. ASSUME NEW h \in Handles, NEW c \in TaskConfigs, NEW D \in SUBSET Registered,
             Submit(h, c, D)
      PROVE  SlotAccounting' /\ PoolCapacity'
  BY <1>1, SlotsSame DEF Submit, execVars, slots, IInv, TypeOK, ViewsAgree, RegistryAgrees
<1>2. ASSUME NEW h \in Handles, CoroutineStep(h) PROVE SlotAccounting' /\ PoolCapacity'
  <2>1. CASE ExitStep(h)
    BY <1>2, <2>1, SlotsExit
  <2>2. CASE StayStep(h)
    <3>1. \A k \in Handles : Holds(k)' = Holds(k)
      BY <1>2, <2>2 DEF CoroutineStep, StayStep, Executing, IInv, TypeOK
    <3> QED BY <1>2, <2>2, <3>1, SlotsSame DEF CoroutineStep, StayStep, registry, slots
  <2> QED BY <1>2, <2>1, <2>2 DEF CoroutineStep
<1>3. ASSUME NEW h \in Handles, StartHandle(h) PROVE SlotAccounting' /\ PoolCapacity'
  BY <1>3, SlotsStart
<1>4. ASSUME NEW h \in Handles, MarkSkipped(h) \/ MarkDepFailed(h)
      PROVE  SlotAccounting' /\ PoolCapacity'
  BY <1>4, SlotsSame DEF MarkSkipped, MarkDepFailed, Resolve, registry, slots
<1>5. CASE BookkeepingStep
  BY <1>5, SlotsSame DEF BookkeepingStep, registry, slots
<1> QED BY <1>0, <1>1, <1>2, <1>3, <1>4, <1>5 DEF StepKinds

-----------------------------------------------------------------------------
(* The three views of the runner.                                          *)

LEMMA ViewsSubmit ==
  ASSUME IInv, NEW h \in Handles, NEW c \in TaskConfigs, NEW D \in SUBSET Registered,
         Submit(h, c, D)
  PROVE  ViewsAgree'
<1> USE DEF Submit, execVars, slots, loopVars, passVars, Holds, Settled, Done
<1>1. Registered' = Registered \cup {h}
  BY ConfigAssumption DEF IInv, TypeOK, Registered
<1>2. RegistryAgrees'
  BY <1>1, ConfigAssumption DEF IInv, TypeOK, ViewsAgree, RegistryAgrees
<1>3. CoroutinesAgree'
  BY DEF IInv, ViewsAgree, CoroutinesAgree
<1>4. DispatcherAgrees'
  BY <1>1 DEF IInv, ViewsAgree, DispatcherAgrees
<1> QED BY <1>2, <1>3, <1>4 DEF ViewsAgree

LEMMA ViewsCoroutine ==
  ASSUME IInv, NEW h \in Handles, CoroutineStep(h)
  PROVE  ViewsAgree'
<1>1. /\ UNCHANGED <<task, deps, loop, remaining, running, scan>>
      /\ h \in running /\ ~Done(h) /\ task[h] # NoTask /\ loop \notin {"off", "snap"}
  BY DEF CoroutineStep, registry, loopVars, passVars, IInv, ViewsAgree, RegistryAgrees,
         CoroutinesAgree, DispatcherAgrees, Holds, Settled
<1>2. \A k \in Handles \ {h} : phase'[k] = phase[k] /\ status'[k] = status[k]
  BY DEF CoroutineStep, ExitStep, StayStep, IInv, TypeOK
<1>3. \/ phase'[h] = "finished" /\ status'[h] \in TerminalStatuses
      \/ phase'[h] \notin {"none", "finished"} /\ status'[h] \notin TerminalStatuses
  <2>1. CASE ExitStep(h)
    BY <2>1 DEF ExitStep, IInv, TypeOK, TerminalStatuses
  <2>2. CASE StayStep(h)
    BY <1>1, <2>2 DEF CoroutineStep, Holds, Settled, StayStep, Executing, IInv, TypeOK,
                      TerminalStatuses, Done
  <2> QED BY <2>1, <2>2 DEF CoroutineStep
<1>4. RegistryAgrees'
  BY <1>1, <1>2 DEF IInv, ViewsAgree, RegistryAgrees, Registered
<1>5. CoroutinesAgree'
  BY <1>1, <1>2, <1>3 DEF IInv, ViewsAgree, CoroutinesAgree, Holds, Settled, Done
<1>6. DispatcherAgrees'
  BY <1>1, <1>2 DEF IInv, ViewsAgree, DispatcherAgrees, Settled, Done, Registered
<1> QED BY <1>4, <1>5, <1>6 DEF ViewsAgree

(* A step that leaves the handles alone: what is left to show is that the  *)
(* dispatcher agrees.                                                      *)
LEMMA ViewsBookkeeping ==
  ASSUME IInv, BookkeepingStep, DispatcherAgrees',
         \A k \in Handles : Holds(k) => k \in running'
  PROVE  ViewsAgree'
<1> USE DEF BookkeepingStep, registry
<1>1. RegistryAgrees'
  BY DEF IInv, ViewsAgree, RegistryAgrees, Registered
<1>2. CoroutinesAgree'
  BY DEF IInv, ViewsAgree, CoroutinesAgree, Holds, Settled, Done
<1> QED BY <1>1, <1>2 DEF ViewsAgree

LEMMA ViewsIdle ==
  ASSUME IInv, BookkeepingStep, UNCHANGED <<loop, remaining, running>>, scan' \subseteq scan
  PROVE  ViewsAgree'
<1>1. DispatcherAgrees'
  BY DEF BookkeepingStep, registry, IInv, ViewsAgree, DispatcherAgrees, Registered, Done, Settled
<1>2. \A k \in Handles : Holds(k) => k \in running'
  BY DEF IInv, ViewsAgree, CoroutinesAgree
<1> QED BY <1>1, <1>2, ViewsBookkeeping

LEMMA ViewsEnter ==
  ASSUME IInv, NEW m, Enter(m)
  PROVE  ViewsAgree'
<1>1. BookkeepingStep
  BY DEF Enter, BookkeepingStep, execVars
<1>2. DispatcherAgrees'
  BY DEF Enter, registry, execVars, Pending, IInv, ViewsAgree, DispatcherAgrees, Registered,
         Done, Settled
<1>3. \A k \in Handles : ~Holds(k)
  BY DEF Enter, IInv, ViewsAgree, DispatcherAgrees, Holds
<1> QED BY <1>1, <1>2, <1>3, ViewsBookkeeping

LEMMA ViewsLoopStep ==
  ASSUME IInv, LoopStep \/ Interrupt
  PROVE  ViewsAgree'
<1> USE DEF execVars, passVars
<1>0. BookkeepingStep
  BY DEF LoopStep, BindLoopEvents, ObserveStop, BeginPass, EndPass, Reap, WakeUp, Leave,
         Interrupt, BookkeepingStep
<1>1. /\ Registered' = Registered
      /\ \A k \in Handles : (Done(k)' <=> Done(k)) /\ (Settled(k)' <=> Settled(k))
  BY <1>0 DEF BookkeepingStep, registry, Registered, Done, Settled
<1>2. \A k \in Handles : Holds(k) => k \in running
  BY DEF IInv, ViewsAgree, CoroutinesAgree
<1>3. CASE \/ BindLoopEvents \/ ObserveStop \/ EndPass \/ WakeUp \/ Interrupt
  <2>1. UNCHANGED <<remaining, running, scan>> /\ loop # "off" /\ loop' \notin {"off", "snap", "scan"}
    BY <1>3 DEF BindLoopEvents, ObserveStop, EndPass, AfterPass, WakeUp, Interrupt
  <2>2. DispatcherAgrees'
    BY <1>1, <2>1 DEF IInv, TypeOK, ViewsAgree, DispatcherAgrees
  <2> QED BY <1>0, <1>2, <2>1, <2>2, ViewsBookkeeping
<1>4. CASE BeginPass
  <2>1. PICK A \in SUBSET Pending : remaining' = remaining \cup A
    BY <1>4 DEF BeginPass
  <2>2. /\ running' = running /\ scan' = remaining' \ running
        /\ loop = "top" /\ loop' = "scan"
    BY <1>4 DEF BeginPass
  <2>3. DispatcherAgrees'
    BY <1>1, <2>1, <2>2 DEF IInv, TypeOK, ViewsAgree, DispatcherAgrees, Pending, Registered
  <2> QED BY <1>0, <1>2, <2>2, <2>3, ViewsBookkeeping
<1>5. CASE Reap
  <2>1. /\ remaining' = remaining \ (running \ Unfinished) /\ running' = Unfinished
        /\ loop = "wait" /\ loop' \in {"abort", "top"}
    BY <1>5 DEF Reap
  <2>2. DispatcherAgrees'
    BY <1>1, <2>1 DEF IInv, TypeOK, ViewsAgree, DispatcherAgrees, Unfinished
  <2>3. \A k \in Handles : Holds(k) => k \in running'
    BY <1>2, <2>1 DEF Unfinished, Holds, Settled
  <2> QED BY <1>0, <2>2, <2>3, ViewsBookkeeping
<1>6. CASE Leave
  <2>1. UNCHANGED <<remaining, running, scan>> /\ loop' = "off" /\ Unfinished = {}
    BY <1>6 DEF Leave
  <2>2. \A k \in Handles : Settled(k)
    BY <1>2, <2>1 DEF Unfinished, Holds, Settled
  <2>3. DispatcherAgrees'
    BY <1>1, <2>1, <2>2 DEF IInv, ViewsAgree, DispatcherAgrees
  <2> QED BY <1>0, <1>2, <2>1, <2>3, ViewsBookkeeping
<1> QED BY <1>3, <1>4, <1>5, <1>6 DEF LoopStep

(* The pass starts h: it enters running.                                   *)
LEMMA ViewsStart ==
  ASSUME IInv, NEW h \in Handles, StartHandle(h)
  PROVE  ViewsAgree'
<1>1. /\ UNCHANGED <<task, deps, remaining>> /\ loop = "scan" /\ loop' = "scan"
      /\ running' = running \cup {h} /\ scan' = scan \ {h}
      /\ phase' = [phase EXCEPT ![h] = "created"] /\ status' = [status EXCEPT ![h] = "READY"]
  BY DEF StartHandle, registry
<1>2. ~Done(h) /\ task[h] # NoTask
  BY DEF StartHandle, IInv, ViewsAgree, DispatcherAgrees, Registered
<1>3. \A k \in Handles \ {h} : phase'[k] = phase[k] /\ status'[k] = status[k]
  BY <1>1 DEF IInv, TypeOK
<1>4. phase'[h] = "created" /\ status'[h] = "READY"
  BY <1>1 DEF IInv, TypeOK
<1>5. RegistryAgrees'
  BY <1>1, <1>2, <1>3 DEF IInv, ViewsAgree, RegistryAgrees, Registered
<1>6. CoroutinesAgree'
  BY <1>1, <1>3, <1>4 DEF IInv, ViewsAgree, CoroutinesAgree, Holds, Settled, Done, TerminalStatuses
<1>7. DispatcherAgrees'
  BY <1>1, <1>3 DEF IInv, TypeOK, ViewsAgree, DispatcherAgrees, Done, Registered
<1> QED BY <1>5, <1>6, <1>7 DEF ViewsAgree

(* The pass settles h without starting it: h leaves remaining.             *)
LEMMA ViewsMark ==
  ASSUME IInv, NEW h \in Handles, MarkSkipped(h) \/ MarkDepFailed(h)
  PROVE  ViewsAgree'
<1>1. /\ UNCHANGED <<task, deps, phase, running>> /\ loop = "scan" /\ loop' = "scan"
      /\ remaining' = remaining \ {h} /\ scan' = scan \ {h}
      /\ \E s \in TerminalStatuses : status' = [status EXCEPT ![h] = s]
  BY DEF MarkSkipped, MarkDepFailed, Resolve, Complete, registry, TerminalStatuses
<1>2. task[h] # NoTask /\ ~Holds(h)
  BY DEF MarkSkipped, MarkDepFailed, Resolve, IInv, ViewsAgree, CoroutinesAgree,
         DispatcherAgrees, Registered
<1>3. \A k \in Handles \ {h} : status'[k] = status[k]
  BY <1>1 DEF IInv, TypeOK
<1>4. Done(h)'
  BY <1>1 DEF IInv, TypeOK, Done
<1>5. RegistryAgrees'
  BY <1>1, <1>2, <1>3 DEF IInv, ViewsAgree, RegistryAgrees, Registered
<1>6. CoroutinesAgree'
  BY <1>1, <1>2, <1>3, <1>4 DEF IInv, ViewsAgree, CoroutinesAgree, Holds, Settled, Done
<1>7. DispatcherAgrees'
  BY <1>1, <1>3 DEF IInv, TypeOK, ViewsAgree, DispatcherAgrees, Done, Registered
<1> QED BY <1>5, <1>6, <1>7 DEF ViewsAgree

LEMMA NextViews == IInv /\ [Next]_vars => ViewsAgree'
<1> SUFFICES ASSUME IInv, [Next]_vars PROVE ViewsAgree'
  OBVIOUS
<1> USE DEF execVars, loopVars, passVars, BookkeepingStep
<1>1. CASE SubmitSome
  BY <1>1, ViewsSubmit DEF SubmitSome
<1>2. ASSUME NEW h \in Handles, AwaitStep(h) \/ BodyStep(h) PROVE ViewsAgree'
  BY <1>2, CoroutineShape, ViewsCoroutine DEF IInv
<1>3. ASSUME NEW h \in Handles, CallerStep(h) PROVE ViewsAgree'
  <2>1. BookkeepingStep /\ UNCHANGED <<loop, remaining, running, scan>>
    BY <1>3 DEF CallerStep, WakeLoop, Cancel, NotifyCancel
  <2> QED BY <2>1, ViewsIdle
<1>4. ASSUME NEW h \in Handles, PassStep(h) PROVE ViewsAgree'
  <2>1. CASE Postpone(h)
    <3>1. BookkeepingStep /\ UNCHANGED <<loop, remaining, running>> /\ scan' \subseteq scan
      BY <2>1 DEF Postpone
    <3> QED BY <3>1, ViewsIdle
  <2>2. CASE StartHandle(h) BY <2>2, ViewsStart
  <2>3. CASE MarkSkipped(h) \/ MarkDepFailed(h) BY <2>3, ViewsMark
  <2> QED BY <1>4, <2>1, <2>2, <2>3 DEF PassStep
<1>5. CASE Stop \/ (\E e \in {"new_work", "stop"} : SetEvent(e)) \/ UNCHANGED vars
  <2>1. BookkeepingStep /\ UNCHANGED <<loop, remaining, running, scan>>
    BY <1>5 DEF Stop, SetEvent, vars
  <2> QED BY <2>1, ViewsIdle
<1>6. CASE \E m \in Modes : Enter(m)
  BY <1>6, ViewsEnter
<1>7. CASE LoopStep \/ Interrupt
  BY <1>7, ViewsLoopStep
<1> QED BY <1>1, <1>2, <1>3, <1>4, <1>5, <1>6, <1>7 DEF Next

-----------------------------------------------------------------------------
(* Terminal statuses and the dependency gate.                              *)

(* A handle that is done keeps its status and its error.                   *)
LEMMA NextTerminal ==
  IInv /\ [Next]_vars =>
    \A k \in Handles : Done(k) => status'[k] = status[k] /\ error'[k] = error[k]
<1> SUFFICES ASSUME IInv, [Next]_vars, NEW k \in Handles, Done(k)
             PROVE  status'[k] = status[k] /\ error'[k] = error[k]
  OBVIOUS
<1>0. StepKinds
  BY NextKinds DEF IInv
<1>1. ASSUME NEW h \in Handles, CoroutineStep(h) PROVE UNCHANGED <<status[k], error[k]>>
  <2>1. h # k
    BY <1>1 DEF CoroutineStep, IInv, ViewsAgree, CoroutinesAgree
  <2> QED BY <1>1, <2>1 DEF CoroutineStep, ExitStep, StayStep, IInv, TypeOK
<1>2. ASSUME NEW h \in Handles, StartHandle(h) \/ MarkSkipped(h) \/ MarkDepFailed(h)
      PROVE  UNCHANGED <<status[k], error[k]>>
  <2>1. h # k
    BY <1>2 DEF StartHandle, MarkSkipped, MarkDepFailed, Resolve, IInv, ViewsAgree,
                DispatcherAgrees
  <2> QED BY <1>2, <2>1 DEF StartHandle, MarkSkipped, MarkDepFailed, Resolve, Complete, IInv, TypeOK
<1>3. CASE \E h \in Handles, c \in TaskConfigs : \E D \in SUBSET Registered : Submit(h, c, D)
  BY <1>3 DEF Submit, execVars
<1>4. CASE BookkeepingStep
  BY <1>4 DEF BookkeepingStep
<1> QED BY <1>0, <1>1, <1>2, <1>3, <1>4 DEF StepKinds

LEMMA NextGate == IInv /\ [Next]_vars => DependencyGate'
<1> SUFFICES ASSUME IInv, [Next]_vars, NEW k \in Handles, phase'[k] # "none"
             PROVE  DepsDone(k)' /\ (FailedDeps(k)' # {} => task'[k].policy = "run-anyway")
  BY DEF DependencyGate
<1>0. StepKinds
  BY NextKinds DEF IInv
<1>1. \A d \in Handles : Done(d) => Done(d)' /\ status'[d] = status[d]
  BY NextTerminal DEF Done
<1>2. deps[k] \subseteq Handles
  BY DEF IInv, TypeOK
<1>3. ASSUME phase[k] # "none", UNCHANGED <<task[k], deps[k]>>
      PROVE  DepsDone(k)' /\ (FailedDeps(k)' # {} => task'[k].policy = "run-anyway")
  BY <1>1, <1>2, <1>3 DEF IInv, DependencyGate, DepsDone, FailedDeps
<1>4. ASSUME NEW h \in Handles, NEW c \in TaskConfigs, NEW D \in SUBSET Registered,
             Submit(h, c, D)
      PROVE  phase[k] # "none" /\ UNCHANGED <<task[k], deps[k]>>
  <2>1. phase[k] # "none"
    BY <1>4 DEF Submit, execVars
  <2>2. h # k
    BY <1>4, <2>1 DEF Submit, IInv, ViewsAgree, RegistryAgrees
  <2> QED BY <1>4, <2>1, <2>2 DEF Submit, IInv, TypeOK
<1>5. ASSUME NEW h \in Handles, CoroutineStep(h)
      PROVE  phase[k] # "none" /\ UNCHANGED <<task[k], deps[k]>>
  BY <1>5 DEF CoroutineStep, ExitStep, StayStep, Holds, Settled, registry, IInv, TypeOK
<1>6. ASSUME NEW h \in Handles, StartHandle(h), h # k
      PROVE  phase[k] # "none" /\ UNCHANGED <<task[k], deps[k]>>
  BY <1>6 DEF StartHandle, registry, IInv, TypeOK
<1>7. ASSUME StartHandle(k)
      PROVE  DepsDone(k)' /\ (FailedDeps(k)' # {} => task'[k].policy = "run-anyway")
  <2>1. Readiness(k) = "go" /\ ~Done(k) /\ UNCHANGED registry
    BY <1>7 DEF StartHandle, IInv, ViewsAgree, DispatcherAgrees
  <2>2. task[k] \in TaskConfig
    BY <1>7, ConfigAssumption DEF StartHandle, IInv, TypeOK, ViewsAgree, DispatcherAgrees, Registered
  <2>3. task[k].policy \in {"fail", "skip", "run-anyway"}
    BY <2>2 DEF TaskConfig, Policies
  <2>4. DepsDone(k) /\ (FailedDeps(k) # {} => task[k].policy = "run-anyway")
    BY <2>1, <2>3 DEF Readiness
  <2> QED BY <1>1, <1>2, <2>1, <2>4 DEF DepsDone, FailedDeps, registry
<1>8. ASSUME (\E h \in Handles : MarkSkipped(h) \/ MarkDepFailed(h)) \/ BookkeepingStep
      PROVE  phase[k] # "none" /\ UNCHANGED <<task[k], deps[k]>>
  BY <1>8 DEF MarkSkipped, MarkDepFailed, Resolve, BookkeepingStep, registry
<1> QED BY <1>0, <1>3, <1>4, <1>5, <1>6, <1>7, <1>8 DEF StepKinds

-----------------------------------------------------------------------------
(* The inductive invariant and what follows from it.                       *)

LEMMA InitInv == Init => IInv
<1> SUFFICES ASSUME Init PROVE IInv
  OBVIOUS
<1>1. TypeOK
  BY InitType
<1>2. \A h \in Handles : phase[h] = "none" /\ status[h] = "PENDING" /\ deps[h] = {}
  BY DEF Init
<1>3. ViewsAgree
  BY <1>2 DEF Init, ViewsAgree, RegistryAgrees, CoroutinesAgree, DispatcherAgrees, Holds,
              Settled
<1>4. \A p \in Pools : Holders(p) = {} /\ UnprivHolders(p) = {}
  BY <1>2 DEF Holders, UnprivHolders, Holds, Settled
<1>5. SlotAccounting
  BY <1>4, FS_EmptySet DEF Init, SlotAccounting
<1>6. PoolCapacity
  <2>1. \A p \in Pools : MaxWorkers[p] >= 0 /\ UnprivilegedCap(p) >= 0
    BY PoolAssumption DEF UnprivilegedCap
  <2> QED BY <1>4, <2>1, FS_EmptySet DEF PoolCapacity
<1>7. DependencyGate
  BY <1>2 DEF DependencyGate
<1> QED BY <1>1, <1>3, <1>5, <1>6, <1>7 DEF IInv

LEMMA NextInv == IInv /\ [Next]_vars => IInv'
BY NextType, NextViews, NextSlots, NextGate DEF IInv

(* IInv is an invariant: the registry, the coroutines and the dispatcher   *)
(* agree, and the slots, capacities and gate below hold.                   *)
THEOREM Invariance == Spec => []IInv
BY InitInv, NextInv, PTL DEF Spec

(* Each slot counter of _pool_running and _pool_running_unprivileged is    *)
(* the number of live coroutines it stands for.                            *)
THEOREM SlotsAccounted == Spec => []SlotAccounting
<1>1. IInv => SlotAccounting
  BY DEF IInv
<1> QED BY <1>1, Invariance, PTL

(* No pool exceeds max_workers, nor its unprivileged share.                *)
THEOREM CapacityKept == Spec => []PoolCapacity
<1>1. IInv => PoolCapacity
  BY DEF IInv
<1> QED BY <1>1, Invariance, PTL

(* No handle runs before its dependencies have settled as its policy asks. *)
THEOREM GateKept == Spec => []DependencyGate
<1>1. IInv => DependencyGate
  BY DEF IInv
<1> QED BY <1>1, Invariance, PTL

(* arun()/aserve() leave no coroutine behind.                              *)
THEOREM QuietAfterwards == Spec => []QuietWhenOff
<1>1. IInv => QuietWhenOff
  BY DEF IInv, ViewsAgree, DispatcherAgrees, QuietWhenOff
<1> QED BY <1>1, Invariance, PTL

(* A terminal status and its error never change.                           *)
THEOREM TerminalForever == Spec => TerminalStable
<1>1. IInv /\ [Next]_vars =>
        [\A h \in Handles : Done(h) => status'[h] = status[h] /\ error'[h] = error[h]]_vars
  BY NextTerminal
<1> QED BY <1>1, Invariance, PTL DEF Spec, TerminalStable

(* A handle gets at most one coroutine.                                    *)
THEOREM NeverRestarted == Spec => StartedOnce
<1>1. IInv /\ [Next]_vars =>
        [\A h \in Handles : phase[h] \notin {"none", "created"} => phase'[h] # "created"]_vars
  <2> SUFFICES ASSUME IInv, [Next]_vars, NEW k \in Handles, phase[k] \notin {"none", "created"}
               PROVE  phase'[k] # "created"
    OBVIOUS
  <2>0. StepKinds
    BY NextKinds DEF IInv
  <2>1. ASSUME NEW h \in Handles, CoroutineStep(h) PROVE phase'[k] # "created"
    BY <2>1 DEF CoroutineStep, ExitStep, StayStep, Executing, IInv, TypeOK
  <2>2. ASSUME NEW h \in Handles, StartHandle(h) PROVE phase'[k] # "created"
    <3>1. h # k
      BY <2>2 DEF StartHandle, IInv, ViewsAgree, CoroutinesAgree, DispatcherAgrees, Holds, Settled
    <3> QED BY <2>2, <3>1 DEF StartHandle, IInv, TypeOK
  <2>3. ASSUME NEW h \in Handles, MarkSkipped(h) \/ MarkDepFailed(h) PROVE phase'[k] # "created"
    BY <2>3 DEF MarkSkipped, MarkDepFailed, Resolve
  <2>4. CASE \E h \in Handles, c \in TaskConfigs : \E D \in SUBSET Registered : Submit(h, c, D)
    BY <2>4 DEF Submit, execVars
  <2>5. CASE BookkeepingStep
    BY <2>5 DEF BookkeepingStep
  <2> QED BY <2>0, <2>1, <2>2, <2>3, <2>4, <2>5 DEF StepKinds
<1> QED BY <1>1, Invariance, PTL DEF Spec, StartedOnce

-----------------------------------------------------------------------------
(* The refinement of Workflow.                                             *)

LEMMA StateUpdate ==
  ASSUME NEW h \in Handles, NEW x,
         \A k \in Handles \ {h} :
           task'[k] = task[k] /\ status'[k] = status[k] /\ phase'[k] = phase[k],
         HandleState'[h] = x
  PROVE  HandleState' = [HandleState EXCEPT ![h] = x]
<1>1. \A k \in Handles \ {h} : HandleState'[k] = HandleState[k]
  BY DEF HandleState, Done
<1>2. HandleState = [k \in Handles |-> HandleState[k]]
      /\ HandleState' = [k \in Handles |-> HandleState'[k]]
  BY DEF HandleState
<1> QED BY <1>1, <1>2

(* What is active is what holds a slot.                                    *)
LEMMA ActiveIsHolder ==
  ASSUME IInv, NEW p
  PROVE  W!Active(p) = Holders(p) /\ W!ActiveUnpriv(p) = UnprivHolders(p)
<1>1. ASSUME NEW k \in Handles PROVE HandleState[k] = "active" <=> Holds(k)
  BY DEF HandleState, IInv, ViewsAgree, RegistryAgrees, CoroutinesAgree, Holds, Settled, Done,
         TerminalStatuses
<1>2. W!Active(p) = Holders(p)
  BY <1>1 DEF W!Active, Holders, PoolOf
<1>3. \A k \in Handles : W!Privileged(k) <=> IsPrivileged(k)
  BY DEF W!Privileged, IsPrivileged, PoolOf
<1>4. Holders(p) \subseteq Handles
  BY DEF Holders
<1>5. W!ActiveUnpriv(p) = UnprivHolders(p)
  BY <1>2, <1>3, <1>4 DEF W!ActiveUnpriv, UnprivHolders
<1> QED BY <1>2, <1>5

(* Workflow counts with the same Cardinality.                              *)
LEMMA SameCardinality == \A S : W!Cardinality(S) = Cardinality(S)
BY DEF W!Cardinality, Cardinality

LEMMA DepsMap ==
  ASSUME IInv, NEW h \in Handles
  PROVE  /\ W!DepsSettled(h) <=> DepsDone(h)
         /\ W!DepsCompleted(h) <=> FailedDeps(h) = {}
<1>1. \A d \in deps[h] : d \in Handles /\ task[d] # NoTask
  BY DEF IInv, TypeOK, ViewsAgree, RegistryAgrees, Registered
<1>2. ASSUME NEW d \in deps[h]
      PROVE  /\ HandleState[d] \in W!Terminal <=> Done(d)
             /\ HandleState[d] = "COMPLETED" <=> status[d] = "COMPLETED"
  BY <1>1, <1>2 DEF HandleState, W!Terminal, Done, TerminalStatuses
<1>3. \A d \in deps[h] : (HandleState[d] \in W!Terminal <=> Done(d))
                        /\ (HandleState[d] = "COMPLETED" <=> status[d] = "COMPLETED")
  BY <1>2
<1>4. W!DepsSettled(h) <=> DepsDone(h)
  BY <1>3 DEF W!DepsSettled, DepsDone
<1>5. W!DepsCompleted(h) <=> FailedDeps(h) = {}
  BY <1>3 DEF W!DepsCompleted, FailedDeps
<1> QED BY <1>4, <1>5

LEMMA InitRefines == Init => W!WInit
BY DEF Init, W!WInit, HandleState

LEMMA SubmitRefines ==
  ASSUME IInv, NEW h \in Handles, NEW c \in TaskConfigs, NEW D \in SUBSET Registered,
         Submit(h, c, D)
  PROVE  W!WSubmit(h, c, D)
<1>1. HandleState[h] = "absent"
  BY DEF Submit, HandleState
<1>2. \A d \in D : HandleState[d] # "absent"
  BY DEF Registered, HandleState, Done, TerminalStatuses
<1>3. UNCHANGED <<status, phase>> /\ task' = [task EXCEPT ![h] = c]
  BY DEF Submit, execVars
<1>4. HandleState'[h] = "waiting"
  BY <1>3, ConfigAssumption DEF Submit, HandleState, IInv, TypeOK, ViewsAgree, RegistryAgrees,
                                Done, TerminalStatuses
<1>5. HandleState' = [HandleState EXCEPT ![h] = "waiting"]
  BY <1>3, <1>4, StateUpdate DEF IInv, TypeOK
<1> QED BY <1>1, <1>2, <1>5 DEF Submit, W!WSubmit

LEMMA CoroutineRefines ==
  ASSUME IInv, NEW h \in Handles, CoroutineStep(h)
  PROVE  (\E s \in W!Terminal : W!WSettle(h, s)) \/ UNCHANGED W!wvars
<1>1. UNCHANGED <<task, deps>> /\ task[h] # NoTask /\ ~Done(h) /\ phase[h] \notin {"none", "finished"}
  BY DEF CoroutineStep, registry, IInv, ViewsAgree, RegistryAgrees, CoroutinesAgree, Holds, Settled
<1>2. HandleState[h] = "active"
  BY <1>1 DEF HandleState
<1>3. \A k \in Handles \ {h} :
        task'[k] = task[k] /\ status'[k] = status[k] /\ phase'[k] = phase[k]
  BY <1>1 DEF CoroutineStep, ExitStep, StayStep, IInv, TypeOK
<1>4. CASE ExitStep(h)
  <2>1. PICK s \in {"COMPLETED", "FAILED", "CANCELLED"} : status' = [status EXCEPT ![h] = s]
    BY <1>4 DEF ExitStep
  <2>2. HandleState'[h] = s
    BY <1>1, <2>1 DEF HandleState, IInv, TypeOK, Done, TerminalStatuses
  <2>3. HandleState' = [HandleState EXCEPT ![h] = s]
    BY <1>3, <2>2, StateUpdate
  <2> QED BY <1>1, <1>2, <2>3 DEF W!WSettle, W!Terminal
<1>5. CASE StayStep(h)
  <2>1. status'[h] \notin TerminalStatuses /\ phase'[h] # "none"
    BY <1>1, <1>5 DEF StayStep, Executing, IInv, TypeOK, Done, TerminalStatuses
  <2>2. HandleState'[h] = "active"
    BY <1>1, <2>1 DEF HandleState, Done
  <2>3. HandleState' = [HandleState EXCEPT ![h] = "active"]
    BY <1>3, <2>2, StateUpdate
  <2>4. HandleState' = HandleState
    BY <1>2, <2>3 DEF HandleState
  <2> QED BY <1>1, <2>4 DEF W!wvars
<1> QED BY <1>4, <1>5 DEF CoroutineStep

LEMMA StartRefines ==
  ASSUME IInv, NEW h \in Handles, StartHandle(h)
  PROVE  W!WStart(h)
<1>1. /\ Readiness(h) = "go" /\ ~Done(h) /\ task[h] # NoTask /\ UNCHANGED <<task, deps>>
      /\ h \notin running
  BY DEF StartHandle, registry, IInv, ViewsAgree, DispatcherAgrees, Registered
<1>2. phase[h] = "none"
  BY <1>1 DEF IInv, ViewsAgree, CoroutinesAgree, Holds, Settled
<1>3. HandleState[h] = "waiting"
  BY <1>1, <1>2 DEF HandleState
<1>4. task[h].policy \in {"fail", "skip", "run-anyway"}
  BY <1>1, ConfigAssumption DEF IInv, TypeOK, TaskConfig, Policies
<1>5. DepsDone(h) /\ (FailedDeps(h) = {} \/ task[h].policy = "run-anyway") /\ HasCapacity(h)
  BY <1>1, <1>4 DEF Readiness
<1>6. PoolOf(h) \in Pools
  BY <1>1, PoolOfType DEF IInv
<1>7. W!SlotFree(h)
  <2>1. /\ Cardinality(Holders(PoolOf(h))) < MaxWorkers[PoolOf(h)]
        /\ \/ IsPrivileged(h)
           \/ Cardinality(UnprivHolders(PoolOf(h))) < MaxWorkers[PoolOf(h)] - ReservedSlots[PoolOf(h)]
    BY <1>5, <1>6 DEF HasCapacity, UnprivilegedCap, IInv, SlotAccounting
  <2>2. W!Privileged(h) <=> IsPrivileged(h)
    BY DEF W!Privileged, IsPrivileged, PoolOf
  <2>3. /\ W!Active(PoolOf(h)) = Holders(PoolOf(h))
        /\ W!ActiveUnpriv(PoolOf(h)) = UnprivHolders(PoolOf(h))
    BY ActiveIsHolder
  <2> QED BY <2>1, <2>2, <2>3, SameCardinality DEF W!SlotFree, PoolOf
<1>8. HandleState' = [HandleState EXCEPT ![h] = "active"]
  <2>1. \A k \in Handles \ {h} :
          task'[k] = task[k] /\ status'[k] = status[k] /\ phase'[k] = phase[k]
    BY <1>1 DEF StartHandle, IInv, TypeOK
  <2>2. HandleState'[h] = "active"
    BY <1>1 DEF StartHandle, HandleState, Done, TerminalStatuses, IInv, TypeOK
  <2> QED BY <2>1, <2>2, StateUpdate
<1> QED BY <1>1, <1>3, <1>5, <1>7, <1>8, DepsMap DEF W!WStart

LEMMA MarkRefines ==
  ASSUME IInv, NEW h \in Handles, MarkSkipped(h) \/ MarkDepFailed(h)
  PROVE  W!WRefuse(h)
<1>1. /\ ~Done(h) /\ task[h] # NoTask /\ UNCHANGED <<task, deps, phase>> /\ h \notin running
  BY DEF MarkSkipped, MarkDepFailed, Resolve, registry, IInv, ViewsAgree, DispatcherAgrees, Registered
<1>2. HandleState[h] = "waiting"
  BY <1>1 DEF HandleState, IInv, ViewsAgree, CoroutinesAgree, Holds, Settled
<1>3. task[h].policy \in {"fail", "skip", "run-anyway"}
  BY <1>1, ConfigAssumption DEF IInv, TypeOK, TaskConfig, Policies
<1>4. \/ Readiness(h) = "skip" /\ status' = [status EXCEPT ![h] = "SKIPPED"]
      \/ Readiness(h) = "fail" /\ status' = [status EXCEPT ![h] = "FAILED"]
  BY DEF MarkSkipped, MarkDepFailed, Resolve, Complete
<1>5. DepsDone(h) /\ FailedDeps(h) # {} /\ task[h].policy = Readiness(h)
  BY <1>1, <1>3, <1>4 DEF Readiness
<1>6. \A k \in Handles \ {h} :
        task'[k] = task[k] /\ status'[k] = status[k] /\ phase'[k] = phase[k]
  BY <1>1, <1>4 DEF IInv, TypeOK
<1>7. status'[h] \in TerminalStatuses /\ HandleState'[h] = status'[h]
  BY <1>1, <1>4 DEF IInv, TypeOK, HandleState, Done, TerminalStatuses
<1>8. HandleState' = [HandleState EXCEPT ![h] = status'[h]]
  BY <1>6, <1>7, StateUpdate
<1>9. \/ Readiness(h) = "skip" /\ status'[h] = "SKIPPED"
      \/ Readiness(h) = "fail" /\ status'[h] = "FAILED"
  BY <1>4 DEF IInv, TypeOK
<1>10. W!DepsSettled(h) /\ ~W!DepsCompleted(h)
  BY <1>5, DepsMap
<1> QED BY <1>1, <1>2, <1>5, <1>8, <1>9, <1>10 DEF W!WRefuse

LEMMA NextRefines == IInv /\ [Next]_vars => [W!WNext]_(W!wvars)
<1> SUFFICES ASSUME IInv, [Next]_vars PROVE W!WNext \/ UNCHANGED W!wvars
  OBVIOUS
<1>0. StepKinds
  BY NextKinds DEF IInv
<1>1. ASSUME NEW h \in Handles, NEW c \in TaskConfigs, NEW D \in SUBSET Registered,
             Submit(h, c, D)
      PROVE  W!WNext
  <2>1. D \in SUBSET Handles
    BY DEF Registered
  <2> QED BY <1>1, <2>1, SubmitRefines DEF W!WNext
<1>2. ASSUME NEW h \in Handles, CoroutineStep(h) PROVE W!WNext \/ UNCHANGED W!wvars
  BY <1>2, CoroutineRefines DEF W!WNext
<1>3. ASSUME NEW h \in Handles, StartHandle(h) PROVE W!WNext
  BY <1>3, StartRefines DEF W!WNext
<1>4. ASSUME NEW h \in Handles, MarkSkipped(h) \/ MarkDepFailed(h) PROVE W!WNext
  BY <1>4, MarkRefines DEF W!WNext
<1>5. CASE BookkeepingStep
  BY <1>5 DEF BookkeepingStep, registry, W!wvars, HandleState, Done
<1> QED BY <1>0, <1>1, <1>2, <1>3, <1>4, <1>5 DEF StepKinds

(* The dispatch loop with its coroutines and its counters does what        *)
(* Workflow promises: every step is a step of Workflow or a stutter.       *)
THEOREM Refinement == Spec => ImplementsWorkflow
BY InitRefines, NextRefines, Invariance, PTL DEF Spec, ImplementsWorkflow, W!WSpec

-----------------------------------------------------------------------------
(***************************************************************************)
(* What a run decides and leaves behind: the verdicts on dependencies,     *)
(* that no run gives up while a handle could move, the attempts a handle   *)
(* gets, and what becomes of a cancellation.  The proofs rest on IInv.     *)
(***************************************************************************)

(* The verdicts on dependencies.                                           *)

(* DependencyVerdict is not inductive alone: a handle that was failed for  *)
(* its dependencies must stay out of the reach of the coroutines, which it *)
(* does because it is done.                                                *)
ErrorsAgree ==
  \A h \in Handles : /\ task[h] = NoTask => error[h] = "none"
                     /\ error[h] = "dependency" => status[h] = "FAILED"

VerdictInv == DependencyVerdict /\ ErrorsAgree

Verdict(k) ==
  /\ status[k] = "SKIPPED" => task[k].policy = "skip"
  /\ error[k] = "dependency" => task[k].policy = "fail"
  /\ (status[k] = "SKIPPED" \/ error[k] = "dependency") =>
       DepsDone(k) /\ FailedDeps(k) # {} /\ phase[k] = "none"
  /\ task[k] = NoTask => error[k] = "none"
  /\ error[k] = "dependency" => status[k] = "FAILED"

LEMMA VerdictPerHandle == VerdictInv <=> \A k \in Handles : Verdict(k)
BY DEF VerdictInv, DependencyVerdict, ErrorsAgree, Verdict

(* Dependencies that are done stay done, and failed ones stay failed.      *)
LEMMA SettledDepsStay ==
  ASSUME IInv, [Next]_vars, NEW k \in Handles, UNCHANGED deps[k], DepsDone(k)
  PROVE  /\ DepsDone(k)'
         /\ FailedDeps(k)' = FailedDeps(k)
<1>1. deps[k] \subseteq Handles
  BY DEF IInv, TypeOK
<1>2. \A d \in deps[k] : Done(d)' /\ status'[d] = status[d]
  BY <1>1, NextTerminal DEF DepsDone, Done
<1> QED BY <1>2 DEF DepsDone, FailedDeps

(* A handle the pass looks at is registered, waits and was never started.  *)
LEMMA ScannedWaits ==
  ASSUME IInv, NEW h \in Handles, loop = "scan", h \in scan
  PROVE  ~Done(h) /\ phase[h] = "none" /\ task[h] \in TaskConfig
<1>1. h \in remaining \ running
  BY DEF IInv, ViewsAgree, DispatcherAgrees
<1>2. ~Done(h) /\ task[h] # NoTask
  BY <1>1 DEF IInv, ViewsAgree, DispatcherAgrees, Registered
<1>3. phase[h] = "none"
  BY <1>1, <1>2 DEF IInv, ViewsAgree, CoroutinesAgree, Holds, Settled
<1> QED BY <1>2, <1>3, ConfigAssumption DEF IInv, TypeOK

LEMMA NextVerdict == IInv /\ VerdictInv /\ [Next]_vars => VerdictInv'
<1> SUFFICES ASSUME IInv, VerdictInv, [Next]_vars, NEW k \in Handles PROVE Verdict(k)'
  <2>1. (\A k \in Handles : Verdict(k)') => VerdictInv'
    BY DEF VerdictInv, DependencyVerdict, ErrorsAgree, Verdict
  <2> QED BY <2>1
<1>0. StepKinds /\ Verdict(k)
  BY NextKinds, VerdictPerHandle DEF IInv
<1>1. ASSUME UNCHANGED <<task[k], deps[k], status[k], error[k], phase[k]>>
      PROVE  Verdict(k)'
  BY <1>0, <1>1, SettledDepsStay DEF Verdict
<1>2. ASSUME NEW h \in Handles, NEW c \in TaskConfigs, NEW D \in SUBSET Registered,
             Submit(h, c, D)
      PROVE  Verdict(k)'
  <2>1. CASE h # k
    BY <1>1, <1>2, <2>1 DEF Submit, execVars, IInv, TypeOK
  <2>2. CASE h = k
    <3>1. status'[k] = "PENDING" /\ error'[k] = "none"
      BY <1>0, <1>2, <2>2 DEF Submit, execVars, Verdict, IInv, ViewsAgree, RegistryAgrees
    <3> QED BY <3>1 DEF Verdict
  <2> QED BY <2>1, <2>2
<1>3. ASSUME NEW h \in Handles, CoroutineStep(h) PROVE Verdict(k)'
  <2>1. CASE h # k
    BY <1>1, <1>3, <2>1 DEF CoroutineStep, ExitStep, StayStep, registry, IInv, TypeOK
  <2>2. CASE h = k
    <3>1. ~Done(k) /\ task'[k] # NoTask
      BY <1>3, <2>2 DEF CoroutineStep, registry, IInv, ViewsAgree, RegistryAgrees,
                        CoroutinesAgree, Holds, Settled
    <3>2. error[k] # "dependency"
      BY <1>0, <3>1 DEF Verdict, Done, TerminalStatuses
    <3>3. status'[k] # "SKIPPED" /\ error'[k] # "dependency"
      BY <1>3, <2>2, <3>1, <3>2 DEF CoroutineStep, ExitStep, StayStep, ExecErrors, IInv, TypeOK,
                                    Done, TerminalStatuses
    <3> QED BY <3>1, <3>3 DEF Verdict
  <2> QED BY <2>1, <2>2
<1>4. ASSUME NEW h \in Handles, StartHandle(h) PROVE Verdict(k)'
  <2>1. CASE h # k
    BY <1>1, <1>4, <2>1 DEF StartHandle, registry, IInv, TypeOK
  <2>2. CASE h = k
    <3>1. ~Done(k) /\ task[k] # NoTask
      BY <1>4, <2>2, ScannedWaits DEF StartHandle, IInv, ViewsAgree, DispatcherAgrees, Registered
    <3>2. error[k] # "dependency"
      BY <1>0, <3>1 DEF Verdict, Done, TerminalStatuses
    <3>3. status'[k] = "READY" /\ error'[k] = error[k] /\ task'[k] = task[k]
      BY <1>4, <2>2 DEF StartHandle, registry, IInv, TypeOK
    <3> QED BY <3>1, <3>2, <3>3 DEF Verdict
  <2> QED BY <2>1, <2>2
<1>5. ASSUME NEW h \in Handles, MarkSkipped(h) \/ MarkDepFailed(h) PROVE Verdict(k)'
  <2>1. CASE h # k
    BY <1>1, <1>5, <2>1 DEF MarkSkipped, MarkDepFailed, Resolve, Complete, registry, IInv, TypeOK
  <2>2. CASE h = k
    <3>1. ~Done(k) /\ phase[k] = "none" /\ task[k] \in TaskConfig /\ task[k] # NoTask
      BY <1>5, <2>2, ScannedWaits
         DEF MarkSkipped, MarkDepFailed, Resolve, IInv, ViewsAgree, DispatcherAgrees, Registered
    <3>2. task[k].policy \in {"fail", "skip", "run-anyway"}
      BY <3>1 DEF TaskConfig, Policies
    <3>3. UNCHANGED <<task, deps, phase>>
      BY <1>5, <2>2 DEF MarkSkipped, MarkDepFailed, Resolve, registry
    <3>4. \/ Readiness(k) = "skip" /\ status'[k] = "SKIPPED" /\ error'[k] = "none"
          \/ Readiness(k) = "fail" /\ status'[k] = "FAILED" /\ error'[k] = "dependency"
      BY <1>5, <2>2 DEF MarkSkipped, MarkDepFailed, Resolve, Complete, IInv, TypeOK
    <3>5. DepsDone(k) /\ FailedDeps(k) # {} /\ task[k].policy = Readiness(k)
      BY <3>1, <3>2, <3>4 DEF Readiness
    <3>6. DepsDone(k)' /\ FailedDeps(k)' # {}
      BY <3>3, <3>5, SettledDepsStay
    <3> QED BY <3>1, <3>3, <3>4, <3>5, <3>6 DEF Verdict
  <2> QED BY <2>1, <2>2
<1>6. CASE BookkeepingStep
  BY <1>1, <1>6 DEF BookkeepingStep, registry
<1> QED BY <1>0, <1>2, <1>3, <1>4, <1>5, <1>6 DEF StepKinds

(* SKIPPED and the dependency error are given by policy only, for a        *)
(* dependency that really did not complete, to a handle never started      *)
(* (_readiness, _mark_skipped, _mark_dep_failed).                          *)
THEOREM VerdictsJustified == Spec => []DependencyVerdict
<1>1. Init => VerdictInv
  BY DEF Init, VerdictInv, DependencyVerdict, ErrorsAgree
<1>2. VerdictInv => DependencyVerdict
  BY DEF VerdictInv
<1> QED BY <1>1, <1>2, NextVerdict, Invariance, PTL DEF Spec

-----------------------------------------------------------------------------
(* No run gives up while a handle can move.                                *)

(* Every set of handles has a member without a dependency in the set:      *)
(* submit() can only name handles that exist.                              *)
Acyclic == \A S \in SUBSET Handles : S # {} => \E h \in S : deps[h] \cap S = {}

(* What the run has taken in is settled or still remaining, and the same   *)
(* goes for the dependencies of what remains.                              *)
Tracked ==
  loop # "off" => /\ remaining \subseteq seen /\ seen \subseteq Registered
                  /\ \A h \in seen : Done(h) \/ h \in remaining
ClosedUnderDeps ==
  loop # "off" => \A h \in remaining : \A d \in deps[h] : Done(d) \/ d \in seen

(* A pass that has made no progress with nothing in flight has found every *)
(* handle it looked at waiting for a dependency.                           *)
PassedOver ==
  loop = "scan" /\ ~progress /\ running = {} =>
    \A h \in remaining \ scan : ~DepsDone(h)

(* What a one-shot run has to show for itself on its way to returning.     *)
RunState ==
  /\ outcome = "returned" => loop = "off"
  /\ loop = "idle" => mode = "serve"
  /\ mode = "run" /\ loop = "drain" => remaining = {} /\ running = {}
  /\ mode = "run" /\ loop \notin {"off", "abort"} => \A h \in seen : Raised(h) => h \in running

StallInv == Acyclic /\ Tracked /\ ClosedUnderDeps /\ PassedOver /\ RunState /\ RunSettlesSnapshot

(* The steps of the runner by what they do to the dispatcher.              *)
OutsideStep == UNCHANGED <<registry, status, error, phase, slots, loopVars>>

RunStep ==
  \/ \E h \in Handles, c \in TaskConfigs : \E D \in SUBSET Registered : Submit(h, c, D)
  \/ \E h \in Handles : CoroutineStep(h) \/ PassStep(h)
  \/ \E m \in Modes : Enter(m)
  \/ LoopStep
  \/ Interrupt
  \/ OutsideStep

LEMMA RunKinds == TypeOK /\ [Next]_vars => RunStep
<1> SUFFICES ASSUME TypeOK, [Next]_vars PROVE RunStep
  OBVIOUS
<1> USE DEF execVars
<1>1. CASE SubmitSome
  BY <1>1 DEF SubmitSome, RunStep
<1>2. ASSUME NEW h \in Handles, AwaitStep(h) \/ BodyStep(h) PROVE RunStep
  BY <1>2, CoroutineShape DEF RunStep
<1>3. ASSUME NEW h \in Handles, CallerStep(h) PROVE OutsideStep
  BY <1>3 DEF CallerStep, WakeLoop, Cancel, NotifyCancel, OutsideStep
<1>4. ASSUME NEW e, SetEvent(e) PROVE OutsideStep
  BY <1>4 DEF SetEvent, OutsideStep
<1>5. CASE Stop \/ UNCHANGED vars
  BY <1>5 DEF Stop, vars, OutsideStep, RunStep
<1> QED BY <1>1, <1>2, <1>3, <1>4, <1>5 DEF Next, RunStep

(* A handle that is registered keeps its dependencies, one that is done    *)
(* stays done.                                                             *)
LEMMA RegistryGrows ==
  ASSUME IInv, [Next]_vars
  PROVE  /\ Registered \subseteq Registered'
         /\ \A k \in Registered : deps'[k] = deps[k]
         /\ \A k \in Handles : Done(k) => Done(k)'
<1>0. StepKinds
  BY NextKinds DEF IInv
<1>1. ASSUME NEW h \in Handles, NEW c \in TaskConfigs, NEW D \in SUBSET Registered,
             Submit(h, c, D)
      PROVE  Registered \subseteq Registered' /\ \A k \in Registered : deps'[k] = deps[k]
  <2>1. \A k \in Registered : k # h
    BY <1>1 DEF Submit, Registered
  <2> QED BY <1>1, <2>1 DEF Submit, Registered, IInv, TypeOK
<1>2. UNCHANGED registry => Registered' = Registered /\ deps' = deps
  BY DEF registry, Registered
<1>3. UNCHANGED registry \/ \E h \in Handles, c \in TaskConfigs : \E D \in SUBSET Registered :
                              Submit(h, c, D)
  BY <1>0 DEF StepKinds, CoroutineStep, StartHandle, MarkSkipped, MarkDepFailed, Resolve,
              BookkeepingStep
<1>4. \A k \in Handles : Done(k) => Done(k)'
  BY NextTerminal DEF Done
<1> QED BY <1>1, <1>2, <1>3, <1>4

LEMMA NextAcyclic == IInv /\ Acyclic /\ [Next]_vars => Acyclic'
<1> SUFFICES ASSUME IInv, Acyclic, [Next]_vars PROVE Acyclic'
  OBVIOUS
<1>0. StepKinds
  BY NextKinds DEF IInv
<1>1. CASE UNCHANGED registry
  BY <1>1 DEF registry, Acyclic
<1>2. ASSUME NEW h \in Handles, NEW c \in TaskConfigs, NEW D \in SUBSET Registered,
             Submit(h, c, D)
      PROVE  Acyclic'
  <2>1. h \notin Registered /\ deps \in [Handles -> SUBSET Handles]
    BY <1>2 DEF Submit, Registered, IInv, TypeOK
  <2>2. deps' = [deps EXCEPT ![h] = D] /\ \A k \in Handles : deps[k] \subseteq Registered
    BY <1>2 DEF Submit, IInv, ViewsAgree, RegistryAgrees
  <2>3. ASSUME NEW S \in SUBSET Handles, S # {}
        PROVE  \E k \in S : deps'[k] \cap S = {}
    <3>1. CASE S \ {h} = {}
      <4>1. S = {h} /\ deps'[h] = D
        BY <2>1, <2>2, <2>3, <3>1
      <4> QED BY <2>1, <4>1
    <3>2. CASE S \ {h} # {}
      <4>1. PICK k \in S \ {h} : deps[k] \cap (S \ {h}) = {}
        BY <3>2 DEF Acyclic
      <4>2. deps'[k] = deps[k] /\ h \notin deps[k]
        BY <2>1, <2>2, <4>1
      <4> QED BY <4>1, <4>2
    <3> QED BY <3>1, <3>2
  <2> QED BY <2>3 DEF Acyclic
<1>3. UNCHANGED registry \/ \E h \in Handles, c \in TaskConfigs : \E D \in SUBSET Registered :
                              Submit(h, c, D)
  BY <1>0 DEF StepKinds, CoroutineStep, StartHandle, MarkSkipped, MarkDepFailed, Resolve,
              BookkeepingStep
<1> QED BY <1>1, <1>2, <1>3

LEMMA NextTracked ==
  IInv /\ Tracked /\ ClosedUnderDeps /\ [Next]_vars => Tracked' /\ ClosedUnderDeps'
<1> SUFFICES ASSUME IInv, Tracked, ClosedUnderDeps, [Next]_vars, loop' # "off"
             PROVE  /\ remaining' \subseteq seen' /\ seen' \subseteq Registered'
                    /\ \A k \in seen' : Done(k)' \/ k \in remaining'
                    /\ \A k \in remaining' : \A d \in deps'[k] : Done(d)' \/ d \in seen'
  BY DEF Tracked, ClosedUnderDeps
<1>0. RunStep
  BY RunKinds DEF IInv
<1> USE RegistryGrows DEF loopVars, passVars
<1>1. Registered \subseteq Handles /\ remaining \subseteq Registered
  BY DEF IInv, ViewsAgree, DispatcherAgrees, Registered
<1>2. \A k \in Registered : deps[k] \subseteq Registered
  BY <1>1 DEF IInv, ViewsAgree, RegistryAgrees
<1>3. ASSUME loop # "off", seen' = seen, remaining' \subseteq remaining,
             \A k \in remaining \ remaining' : Done(k)'
      PROVE  /\ remaining' \subseteq seen' /\ seen' \subseteq Registered'
             /\ \A k \in seen' : Done(k)' \/ k \in remaining'
             /\ \A k \in remaining' : \A d \in deps'[k] : Done(d)' \/ d \in seen'
  <2>1. remaining' \subseteq seen' /\ seen' \subseteq Registered'
    BY <1>3 DEF Tracked
  <2>2. ASSUME NEW k \in seen' PROVE Done(k)' \/ k \in remaining'
    BY <1>1, <1>3, <2>2 DEF Tracked
  <2>3. ASSUME NEW k \in remaining', NEW d \in deps'[k] PROVE Done(d)' \/ d \in seen'
    <3>1. k \in Registered /\ d \in deps[k] /\ d \in Handles
      BY <1>1, <1>2, <1>3, <2>3
    <3> QED BY <1>3, <3>1 DEF ClosedUnderDeps
  <2> QED BY <2>1, <2>2, <2>3
<1>4. CASE UNCHANGED loopVars
  BY <1>3, <1>4
<1>5. ASSUME NEW h \in Handles, PassStep(h), ~UNCHANGED loopVars
      PROVE  loop # "off" /\ seen' = seen /\ remaining' \subseteq remaining
             /\ \A k \in remaining \ remaining' : Done(k)'
  <2>1. CASE Postpone(h) \/ StartHandle(h)
    BY <2>1 DEF Postpone, StartHandle
  <2>2. CASE MarkSkipped(h) \/ MarkDepFailed(h)
    <3>1. status'[h] \in TerminalStatuses
      BY <2>2 DEF MarkSkipped, MarkDepFailed, Resolve, Complete, TerminalStatuses, IInv, TypeOK
    <3> QED BY <2>2, <3>1 DEF MarkSkipped, MarkDepFailed, Resolve, Done
  <2> QED BY <1>5, <2>1, <2>2 DEF PassStep
<1>6. ASSUME NEW m \in Modes, Enter(m)
      PROVE  /\ remaining' \subseteq seen' /\ seen' \subseteq Registered'
             /\ \A k \in seen' : Done(k)' \/ k \in remaining'
             /\ \A k \in remaining' : \A d \in deps'[k] : Done(d)' \/ d \in seen'
  <2>1. remaining' = Pending /\ seen' = Pending /\ UNCHANGED registry
    BY <1>6 DEF Enter
  <2>2. \A k \in Pending : \A d \in deps[k] : Done(d) \/ d \in Pending
    BY <1>1, <1>2 DEF Pending
  <2>3. \A k \in Pending : k \in Registered /\ k \in Handles /\ deps[k] \subseteq Handles
    BY <1>1, <1>2 DEF Pending
  <2>4. deps' = deps /\ Registered \subseteq Registered' /\ \A k \in Handles : Done(k) => Done(k)'
    BY <2>1 DEF registry
  <2>5. \A k \in Pending : \A d \in deps[k] : Done(d)' \/ d \in Pending
    BY <2>2, <2>3, <2>4
  <2> QED BY <2>1, <2>3, <2>4, <2>5
<1>7. CASE BeginPass
  <2>1. PICK A : /\ A = {} \/ A = Pending \ seen
                 /\ remaining' = remaining \cup A /\ seen' = seen \cup A
    BY <1>7 DEF BeginPass
  <2>2. loop # "off" /\ UNCHANGED registry
    BY <1>7 DEF BeginPass
  <2>3. /\ remaining' \subseteq seen' /\ seen' \subseteq Registered'
        /\ \A k \in seen' : Done(k)' \/ k \in remaining'
    BY <1>1, <2>1, <2>2 DEF Tracked, Pending
  <2>4. ASSUME NEW k \in remaining', NEW d \in deps'[k] PROVE Done(d)' \/ d \in seen'
    <3>1. k \in Registered /\ d \in deps[k] /\ d \in Registered
      BY <1>1, <1>2, <2>1, <2>2, <2>4 DEF Pending, registry
    <3>2. CASE k \in remaining
      BY <1>1, <2>1, <2>2, <3>1, <3>2 DEF ClosedUnderDeps
    <3>3. CASE k \in A
      BY <1>1, <2>1, <3>1, <3>3 DEF Pending
    <3> QED BY <2>1, <3>2, <3>3
  <2> QED BY <2>3, <2>4
<1>8. CASE Reap
  <2>1. /\ loop # "off" /\ seen' = seen /\ remaining' = remaining \ (running \ Unfinished)
    BY <1>8 DEF Reap
  <2>2. \A k \in running \ Unfinished : Done(k)
    BY DEF Unfinished, IInv, TypeOK, ViewsAgree, CoroutinesAgree
  <2> QED BY <1>1, <1>3, <2>1, <2>2
<1>9. CASE BindLoopEvents \/ ObserveStop \/ EndPass \/ WakeUp \/ Leave \/ Interrupt
  <2>1. loop # "off" /\ UNCHANGED <<seen, remaining>>
    BY <1>9 DEF BindLoopEvents, ObserveStop, EndPass, WakeUp, Leave, Interrupt
  <2> QED BY <1>3, <2>1
<1>10. UNCHANGED loopVars \/ (\E h \in Handles : PassStep(h)) \/ (\E m \in Modes : Enter(m))
       \/ LoopStep \/ Interrupt
  BY <1>0 DEF RunStep, Submit, CoroutineStep, OutsideStep
<1> QED BY <1>3, <1>4, <1>5, <1>6, <1>7, <1>8, <1>9, <1>10 DEF LoopStep

(* With nothing in flight the slots are all free, so what keeps a handle   *)
(* waiting is a dependency.                                                *)
LEMMA PostponedForDeps ==
  ASSUME IInv, NEW h \in Handles, Postpone(h), running = {}
  PROVE  ~DepsDone(h)
<1>1. ~Done(h) /\ task[h] \in TaskConfig /\ task[h] # NoTask
  BY ScannedWaits DEF Postpone, IInv, ViewsAgree, DispatcherAgrees, Registered
<1>2. PoolOf(h) \in Pools
  BY <1>1, PoolOfType DEF IInv
<1>3. Holders(PoolOf(h)) = {} /\ UnprivHolders(PoolOf(h)) = {}
  BY DEF Holders, UnprivHolders, IInv, ViewsAgree, CoroutinesAgree
<1>4. poolRunning[PoolOf(h)] = 0 /\ poolUnpriv[PoolOf(h)] = 0
  BY <1>2, <1>3, FS_EmptySet DEF IInv, SlotAccounting
<1>5. 0 < MaxWorkers[PoolOf(h)] /\ 0 < UnprivilegedCap(PoolOf(h))
  BY <1>2, PoolAssumption DEF UnprivilegedCap
<1>6. HasCapacity(h)
  BY <1>4, <1>5 DEF HasCapacity
<1>7. task[h].policy \in Policies
  BY <1>1 DEF TaskConfig
<1> QED BY <1>1, <1>6, <1>7 DEF Postpone, Readiness, Policies

LEMMA NextPassedOver == IInv /\ PassedOver /\ [Next]_vars => PassedOver'
<1> SUFFICES ASSUME IInv, PassedOver, [Next]_vars,
                    loop' = "scan", ~progress', running' = {},
                    NEW k \in remaining' \ scan'
             PROVE  ~DepsDone(k)'
  BY DEF PassedOver
<1> USE DEF loopVars, passVars
<1>0. RunStep
  BY RunKinds DEF IInv
<1>1. Registered \subseteq Handles /\ remaining \subseteq Registered
  BY DEF IInv, ViewsAgree, DispatcherAgrees, Registered
<1>2. ASSUME UNCHANGED <<loop, progress, running, remaining, deps[k], status>>,
             k \notin scan \/ ~DepsDone(k)
      PROVE  ~DepsDone(k)'
  BY <1>2 DEF PassedOver, DepsDone, Done, IInv, TypeOK
<1>3. ASSUME NEW h \in Handles, NEW c \in TaskConfigs, NEW D \in SUBSET Registered,
             Submit(h, c, D)
      PROVE  ~DepsDone(k)'
  <2>1. UNCHANGED <<loop, progress, running, remaining, status, scan>>
    BY <1>3 DEF Submit, execVars
  <2>2. deps'[k] = deps[k]
    BY <1>1, <2>1, RegistryGrows
  <2> QED BY <1>2, <2>1, <2>2
<1>4. ASSUME NEW h \in Handles, CoroutineStep(h) PROVE FALSE
  BY <1>4 DEF CoroutineStep, IInv, ViewsAgree, CoroutinesAgree
<1>5. ASSUME NEW h \in Handles, PassStep(h) PROVE ~DepsDone(k)'
  <2>1. Postpone(h)
    BY <1>5 DEF PassStep, StartHandle, MarkSkipped, MarkDepFailed, Resolve
  <2>2. UNCHANGED <<loop, progress, running, remaining, deps, status>> /\ scan' = scan \ {h}
    BY <2>1 DEF Postpone, registry, execVars
  <2>3. k = h => ~DepsDone(k)
    BY <2>1, <2>2, PostponedForDeps
  <2> QED BY <1>2, <2>2, <2>3
<1>6. ASSUME NEW m \in Modes, Enter(m) PROVE FALSE
  BY <1>6 DEF Enter
<1>7. CASE LoopStep \/ Interrupt
  <2>1. CASE BeginPass
    BY <2>1 DEF BeginPass
  <2>2. CASE BindLoopEvents \/ ObserveStop \/ EndPass \/ Reap \/ WakeUp \/ Leave \/ Interrupt
    BY <2>2 DEF BindLoopEvents, ObserveStop, EndPass, AfterPass, Reap, WakeUp, Leave, Interrupt
  <2> QED BY <1>7, <2>1, <2>2 DEF LoopStep
<1>8. CASE OutsideStep
  BY <1>2, <1>8 DEF OutsideStep, registry
<1> QED BY <1>0, <1>3, <1>4, <1>5, <1>6, <1>7, <1>8 DEF RunStep

(* The coroutine of h ends or goes on: the dispatcher has h in running.    *)
LEMMA RaisedSteps ==
  ASSUME IInv, [Next]_vars, NEW k \in Handles, Raised(k)', ~Raised(k)
  PROVE  k \in running /\ UNCHANGED loopVars
<1>0. StepKinds
  BY NextKinds DEF IInv
<1>1. ASSUME NEW h \in Handles, CoroutineStep(h) PROVE k \in running /\ UNCHANGED loopVars
  <2>1. h = k
    BY <1>1 DEF CoroutineStep, ExitStep, StayStep, Raised, IInv, TypeOK
  <2> QED BY <1>1, <2>1 DEF CoroutineStep, IInv, ViewsAgree, CoroutinesAgree
<1>2. ASSUME NEW h \in Handles, StartHandle(h) PROVE FALSE
  <2>1. h # k
    BY <1>2 DEF StartHandle, Raised, IInv, TypeOK
  <2> QED BY <1>2, <2>1 DEF StartHandle, Raised, IInv, TypeOK
<1>3. ASSUME NEW h \in Handles, MarkSkipped(h) \/ MarkDepFailed(h) PROVE FALSE
  <2>1. phase[h] = "none" /\ phase' = phase
    BY <1>3, ScannedWaits DEF MarkSkipped, MarkDepFailed, Resolve
  <2>2. h # k
    BY <2>1 DEF Raised
  <2> QED BY <1>3, <2>1, <2>2 DEF MarkSkipped, MarkDepFailed, Resolve, Complete, Raised, IInv, TypeOK
<1>4. ASSUME UNCHANGED <<status, phase>> PROVE FALSE
  BY <1>4 DEF Raised
<1>5. ASSUME NEW h \in Handles, NEW c \in TaskConfigs, NEW D \in SUBSET Registered,
             Submit(h, c, D)
      PROVE  FALSE
  BY <1>4, <1>5 DEF Submit, execVars
<1> QED BY <1>0, <1>1, <1>2, <1>3, <1>4, <1>5 DEF StepKinds, BookkeepingStep

LEMMA NextRunState == IInv /\ Tracked /\ RunState /\ [Next]_vars => RunState'
<1> SUFFICES ASSUME IInv, Tracked, RunState, [Next]_vars PROVE RunState'
  OBVIOUS
<1> USE DEF loopVars, passVars
<1>0. RunStep /\ seen \subseteq Handles /\ mode \in {"run", "serve"}
  BY RunKinds DEF IInv, TypeOK
<1> DEFINE Flags == /\ outcome = "returned" => loop = "off"
                    /\ loop = "idle" => mode = "serve"
                    /\ mode = "run" /\ loop = "drain" => remaining = {} /\ running = {}
           Raise == mode = "run" /\ loop \notin {"off", "abort"} =>
                      \A h \in seen : Raised(h) => h \in running
<1>1. Flags /\ Raise
  BY DEF RunState
<1>2. ASSUME Flags', Raise' PROVE RunState'
  BY <1>2 DEF RunState
<1>3. ASSUME UNCHANGED <<mode, seen, running>>, loop \notin {"off", "abort"} PROVE Raise'
  BY <1>0, <1>1, <1>3, RaisedSteps
<1>4. CASE UNCHANGED loopVars
  <2>1. Flags'
    BY <1>1, <1>4
  <2>2. loop \in {"off", "abort"} => Raise'
    BY <1>4
  <2> QED BY <1>2, <1>3, <1>4, <2>1, <2>2
<1>5. ASSUME NEW h \in Handles, PassStep(h) PROVE RunState'
  <2>1. UNCHANGED <<loop, mode, outcome, seen>> /\ loop = "scan" /\ running \subseteq running'
    BY <1>5 DEF PassStep, Postpone, StartHandle, MarkSkipped, MarkDepFailed, Resolve
  <2>2. \A k \in seen : Raised(k)' => Raised(k) \/ k \in running
    BY <1>0, RaisedSteps
  <2>3. Flags' /\ Raise'
    BY <1>1, <2>1, <2>2
  <2> QED BY <1>2, <2>3
<1>6. ASSUME NEW m \in Modes, Enter(m) PROVE RunState'
  <2>1. loop' = "snap" /\ outcome' = "none" /\ seen' = Pending /\ UNCHANGED <<status, phase>>
    BY <1>6 DEF Enter, execVars
  <2>2. \A k \in Pending : ~Raised(k)'
    BY <2>1 DEF Pending, Done, Raised, TerminalStatuses
  <2>3. Flags' /\ Raise'
    BY <2>1, <2>2
  <2> QED BY <1>2, <2>3
<1>7. CASE BindLoopEvents \/ ObserveStop \/ EndPass \/ WakeUp \/ Leave \/ Interrupt
  <2>1. UNCHANGED <<mode, seen, running, remaining>> /\ loop # "off"
    BY <1>7 DEF BindLoopEvents, ObserveStop, EndPass, WakeUp, Leave, Interrupt
  <2>2. Flags'
    BY <1>1, <1>0, <1>7 DEF BindLoopEvents, ObserveStop, StopSeen, EndPass, AfterPass, WakeUp,
                       Leave, Interrupt
  <2>3. loop = "abort" => loop' \in {"off", "abort"}
    BY <1>7 DEF BindLoopEvents, ObserveStop, EndPass, WakeUp, Leave, Interrupt, LoopSettled, LoopFree
  <2> QED BY <1>2, <1>3, <2>1, <2>2, <2>3
<1>8. CASE BeginPass
  <2>1. /\ loop = "top" /\ loop' = "scan" /\ UNCHANGED <<mode, running, outcome>>
        /\ mode = "run" => seen' = seen
    BY <1>8 DEF BeginPass
  <2>2. Flags'
    BY <1>1, <2>1
  <2>3. Raise'
    BY <1>3, <2>1
  <2> QED BY <1>2, <2>2, <2>3
<1>9. CASE Reap
  <2>1. /\ loop = "wait" /\ UNCHANGED <<mode, seen, outcome, status, phase>>
        /\ loop' \in {"abort", "top"}
        /\ loop' = "top" /\ mode = "run" => \A k \in running \ Unfinished : ~Raised(k)
    BY <1>9 DEF Reap
  <2>2. \A k \in Unfinished : ~Raised(k)
    BY DEF Unfinished, Raised
  <2>3. Flags'
    BY <1>1, <2>1
  <2>4. Raise'
    BY <1>1, <2>1, <2>2 DEF Raised
  <2> QED BY <1>2, <2>3, <2>4
<1>10. UNCHANGED loopVars \/ (\E h \in Handles : PassStep(h)) \/ (\E m \in Modes : Enter(m))
       \/ LoopStep \/ Interrupt
  BY <1>0 DEF RunStep, Submit, CoroutineStep, OutsideStep
<1> QED BY <1>4, <1>5, <1>6, <1>7, <1>8, <1>9, <1>10 DEF LoopStep

LEMMA NextSnapshot ==
  IInv /\ Tracked /\ RunState /\ RunSettlesSnapshot /\ [Next]_vars => RunSettlesSnapshot'
<1> SUFFICES ASSUME IInv, Tracked, RunState, RunSettlesSnapshot, [Next]_vars,
                    outcome' = "returned", mode' = "run", NEW k \in seen'
             PROVE  Done(k)' /\ ~Raised(k)'
  BY DEF RunSettlesSnapshot
<1> USE DEF loopVars, passVars
<1>0. RunStep /\ seen \subseteq Handles
  BY RunKinds DEF IInv, TypeOK
<1>1. CASE Leave
  <2>1. /\ loop = "drain" /\ mode = "run" /\ k \in seen /\ UNCHANGED <<status, phase>>
        /\ loop' = "off"
    BY <1>1 DEF Leave, execVars
  <2>2. remaining = {} /\ running = {} /\ (Raised(k) => k \in running)
    BY <2>1 DEF RunState
  <2> QED BY <2>1, <2>2 DEF Tracked, Done, Raised
<1>2. CASE UNCHANGED <<outcome, mode, seen>>
  <2>1. k \in Handles /\ Done(k) /\ ~Raised(k) /\ loop = "off"
    BY <1>0, <1>2 DEF RunSettlesSnapshot, RunState
  <2>2. Done(k)'
    BY <2>1, RegistryGrows
  <2>3. phase'[k] = phase[k] /\ status'[k] = status[k]
    <3>1. StepKinds /\ \A h \in Handles : Settled(h)
      BY <2>1, NextKinds DEF IInv, ViewsAgree, DispatcherAgrees
    <3> QED BY <2>1, <3>1 DEF StepKinds, Submit, execVars, CoroutineStep, Holds, StartHandle,
                  MarkSkipped, MarkDepFailed, Resolve, BookkeepingStep
  <2> QED BY <2>1, <2>2, <2>3 DEF Raised
<1>3. ASSUME ~Leave PROVE UNCHANGED <<outcome, mode, seen>>
  <2>1. ASSUME NEW m \in Modes, Enter(m) PROVE FALSE
    BY <2>1 DEF Enter
  <2>2. ASSUME NEW h \in Handles, PassStep(h) PROVE UNCHANGED <<outcome, mode, seen>>
    BY <2>2 DEF PassStep, Postpone, StartHandle, MarkSkipped, MarkDepFailed, Resolve
  <2>3. CASE UNCHANGED loopVars
    BY <2>3
  <2>4. CASE BindLoopEvents \/ ObserveStop \/ EndPass \/ WakeUp \/ Interrupt \/ Reap
    BY <2>4 DEF BindLoopEvents, ObserveStop, EndPass, WakeUp, Interrupt, Reap
  <2>5. CASE BeginPass
    BY <2>5 DEF BeginPass, RunState
  <2>6. UNCHANGED loopVars \/ (\E h \in Handles : PassStep(h)) \/ (\E m \in Modes : Enter(m))
        \/ LoopStep \/ Interrupt
    BY <1>0 DEF RunStep, Submit, CoroutineStep, OutsideStep
  <2> QED BY <1>3, <2>1, <2>2, <2>3, <2>4, <2>5, <2>6 DEF LoopStep
<1> QED BY <1>1, <1>2, <1>3

LEMMA InitStall == Init => StallInv
<1> SUFFICES ASSUME Init PROVE StallInv
  OBVIOUS
<1>1. Acyclic
  BY DEF Init, Acyclic
<1>2. Tracked /\ ClosedUnderDeps /\ PassedOver /\ RunState /\ RunSettlesSnapshot
  BY DEF Init, Tracked, ClosedUnderDeps, PassedOver, RunState, RunSettlesSnapshot
<1> QED BY <1>1, <1>2 DEF StallInv

(* At every state of a run the dependencies form no cycle, what the         *)
(* snapshot holds is closed under them, and a handle that the dispatcher    *)
(* has passed over has a reason that lasts (_run_pending, _readiness).      *)
THEOREM StallInvariance == Spec => []StallInv
<1>1. IInv /\ StallInv /\ [Next]_vars => StallInv'
  BY NextAcyclic, NextTracked, NextPassedOver, NextRunState, NextSnapshot DEF StallInv
<1> QED BY <1>1, InitStall, Invariance, PTL DEF Spec

(* At the end of a pass without progress, what remains would hold a handle *)
(* whose dependencies have all settled: so nothing remains, and the        *)
(* "Runner deadlocked" error of _run_pending is unreachable.               *)
THEOREM NeverGivesUp == Spec => []NeverStalls
<1>1. IInv /\ StallInv => NeverStalls
  <2> SUFFICES ASSUME IInv, StallInv, loop = "scan", scan = {}, AfterPass \in {"idle", "abort"},
                      remaining # {}
               PROVE  FALSE
    BY DEF NeverStalls
  <2>1. running = {} /\ ~progress
    BY DEF AfterPass
  <2>2. ASSUME NEW k \in remaining PROVE deps[k] \cap remaining # {}
    <3>1. PICK d \in deps[k] : ~Done(d)
      BY <2>1, <2>2 DEF StallInv, PassedOver, DepsDone
    <3>2. d \in remaining
      BY <2>2, <3>1 DEF StallInv, ClosedUnderDeps, Tracked
    <3> QED BY <3>1, <3>2
  <2>3. remaining \in SUBSET Handles
    BY DEF IInv, TypeOK
  <2> QED BY <2>2, <2>3 DEF StallInv, Acyclic
<1> QED BY <1>1, StallInvariance, Invariance, PTL

(* arun() returns with its whole snapshot settled and, under               *)
(* on_task_error="raise", without having swallowed a failure.              *)
THEOREM SnapshotSettled == Spec => []RunSettlesSnapshot
<1>1. StallInv => RunSettlesSnapshot
  BY DEF StallInv
<1> QED BY <1>1, StallInvariance, PTL

-----------------------------------------------------------------------------
(* Attempts and cancellation.                                              *)

(* What the attempts of a handle rest on: the count starts with the first  *)
(* attempt, a backoff is entered only with an attempt left, and a result   *)
(* waits in future only while the coroutine waits for its worker.          *)
AttemptsBounded ==
  \A h \in Handles :
    /\ phase[h] \in {"none", "created"} => attempts[h] = 0
    /\ task[h] # NoTask => attempts[h] <= task[h].maxAttempts
    /\ phase[h] = "backoff" => attempts[h] < task[h].maxAttempts
FuturesOfWorkers == \A h \in Handles : phase[h] # "pool" => future[h] = "none"

ExecInv == AttemptsBounded /\ FuturesOfWorkers /\ NoLostCancel

Exec(k) ==
  /\ phase[k] \in {"none", "created"} => attempts[k] = 0
  /\ task[k] # NoTask => attempts[k] <= task[k].maxAttempts
  /\ phase[k] = "backoff" => attempts[k] < task[k].maxAttempts
  /\ phase[k] # "pool" => future[k] = "none"
  /\ cancelEvent[k] /\ phase[k] \in {"backoff", "pool"} =>
       aioCancel[k] # {} \/ k \in notifying \/ future[k] = "timeout"

LEMMA ExecPerHandle == ExecInv <=> \A k \in Handles : Exec(k)
BY DEF ExecInv, AttemptsBounded, FuturesOfWorkers, NoLostCancel, Exec

(* How a coroutine moves from one suspension to the next: it ends, makes   *)
(* an attempt, sleeps before the next one, or goes on waiting.             *)
ExitMove(h) == /\ phase'[h] = "finished" /\ future'[h] = "none"
               /\ attempts'[h] = attempts[h]
BeginMove(h) == /\ phase'[h] \in {"async", "inline", "pool"}
                /\ phase'[h] # "pool" => future'[h] = "none"
                /\ attempts'[h] = attempts[h] + 1
                /\ aioCancel'[h] = aioCancel[h]
SleepMove(h) == /\ phase'[h] = "backoff" /\ future'[h] = "none"
                /\ attempts'[h] = attempts[h]
RetryMove(h) == /\ BeginMove(h) \/ SleepMove(h)
                /\ ~cancelEvent[h] /\ attempts[h] < task[h].maxAttempts
Aside(k)     == UNCHANGED <<phase[k], future[k], attempts[k], aioCancel[k]>>

LEMMA ExitMoves ==
  ASSUME TypeOK, NEW h \in Handles, NEW s, NEW e, Exit(h, s, e)
  PROVE  ExitMove(h) /\ \A k \in Handles \ {h} : Aside(k)
BY DEF Exit, ExitMove, Aside, TypeOK

LEMMA StartMoves ==
  ASSUME TypeOK, NEW h \in Handles, StartAttempt(h)
  PROVE  BeginMove(h) /\ \A k \in Handles \ {h} : Aside(k)
<1>1. attempts'[h] = attempts[h] + 1 /\ phase'[h] = AttemptPhase(h)
  BY DEF StartAttempt, TypeOK
<1>2. AttemptPhase(h) # "pool" => future'[h] = "none"
  BY DEF StartAttempt, TypeOK
<1> QED BY <1>1, <1>2, AttemptPhaseType DEF StartAttempt, BeginMove, Aside, TypeOK

(* An attempt that ended is followed by another only if it failed with a   *)
(* retryable error, the handle is not cancelled and an attempt is left.    *)
LEMMA AttemptEndedMoves ==
  ASSUME TypeOK, NEW h \in Handles, task[h] # NoTask, NEW r \in Results, AttemptEnded(h, r)
  PROVE  /\ ExitMove(h) \/ (r = "error" /\ RetryMove(h))
         /\ \A k \in Handles \ {h} : Aside(k)
<1>0. task[h].maxAttempts \in Nat /\ attempts[h] \in Nat
  BY ConfigAssumption DEF TypeOK, TaskConfig
<1>1. ASSUME NEW retryable \in BOOLEAN, AttemptFailed(h, retryable)
      PROVE  /\ ExitMove(h) \/ (retryable /\ RetryMove(h))
             /\ \A k \in Handles \ {h} : Aside(k)
  <2>1. CASE cancelEvent[h] \/ ~retryable \/ attempts[h] >= task[h].maxAttempts
    BY <1>1, <2>1, ExitMoves DEF AttemptFailed
  <2>2. CASE ~(cancelEvent[h] \/ ~retryable \/ attempts[h] >= task[h].maxAttempts)
    <3>1. CASE task[h].delay
      BY <1>0, <1>1, <2>2, <3>1 DEF AttemptFailed, RetryMove, SleepMove, Aside, TypeOK
    <3>2. CASE ~task[h].delay
      BY <1>0, <1>1, <2>2, <3>2, StartMoves DEF AttemptFailed, RetryMove
    <3> QED BY <3>1, <3>2
  <2> QED BY <2>1, <2>2
<1>2. CASE r = "error"
  BY <1>1, <1>2 DEF AttemptEnded
<1>3. CASE r = "fatal"
  BY <1>1, <1>3 DEF AttemptEnded
<1>4. CASE r \in {"ok", "cancel", "timeout"}
  BY <1>4, ExitMoves DEF AttemptEnded
<1> QED BY <1>2, <1>3, <1>4 DEF Results

(* A step of the coroutine of h, with what it does to the cancel event.    *)
Executes(h) ==
  \/ ExitMove(h)
  \/ RetryMove(h) /\ phase[h] # "backoff" /\ ~cancelEvent'[h]
  \/ BeginMove(h) /\ phase[h] = "backoff" /\ cancelEvent'[h] = cancelEvent[h]
  \/ /\ phase[h] = "pool" /\ phase'[h] = "pool" /\ future[h] = "pending"
     /\ cancelEvent'[h] => cancelEvent[h] \/ future'[h] = "timeout"
     /\ UNCHANGED <<attempts[h], aioCancel[h]>>
  \/ phase[h] = "async" /\ UNCHANGED <<phase[h], future[h], attempts[h]>>

LEMMA CoroutineMoves ==
  ASSUME IInv, ExecInv, NEW h \in Handles, AwaitStep(h) \/ BodyStep(h)
  PROVE  /\ task[h] # NoTask /\ Executes(h)
         /\ \A k \in Handles \ {h} : Aside(k) /\ cancelEvent'[k] = cancelEvent[k]
         /\ UNCHANGED <<registry, notifying>>
<1>0. Exec(h) /\ TypeOK /\ task[h] # NoTask
  BY CoroutineShape, ExecPerHandle DEF IInv, CoroutineStep, ViewsAgree, RegistryAgrees, Holds, Settled
<1>1. task[h].maxAttempts \in Nat \ {0} /\ attempts[h] \in Nat
  BY <1>0, ConfigAssumption DEF TypeOK, TaskConfig
<1> USE <1>0 DEF cancelVars
<1>2. CASE BeginExecute(h)
  <2>1. UNCHANGED <<registry, cancelEvent, notifying>> /\ phase[h] = "created" /\ attempts[h] = 0
    BY <1>2 DEF BeginExecute, Exec
  <2>2. CASE cancelEvent[h]
    BY <1>2, <2>1, <2>2, ExitMoves DEF BeginExecute, Executes
  <2>3. CASE ~cancelEvent[h]
    BY <1>1, <1>2, <2>1, <2>3, StartMoves DEF BeginExecute, Executes, RetryMove
  <2> QED BY <2>2, <2>3
<1>3. CASE PoolResumes(h)
  BY <1>3, AttemptEndedMoves DEF PoolResumes, Executes, RetryMove
<1>4. CASE BackoffEnds(h)
  BY <1>4, StartMoves DEF BackoffEnds, Executes
<1>5. CASE ThrowCancelled(h)
  <2>1. UNCHANGED <<registry, notifying>> /\ \A k \in Handles \ {h} : cancelEvent'[k] = cancelEvent[k]
    BY <1>5 DEF ThrowCancelled, TypeOK
  <2>2. CASE \E s, e : Exit(h, s, e)
    BY <2>1, <2>2, ExitMoves DEF Executes
  <2>3. CASE /\ phase[h] = "async"
             /\ aioCancel' = [aioCancel EXCEPT ![h] = IF "called" \in @ THEN @ \ {"called"} ELSE {}]
             /\ UNCHANGED <<cancelEvent, status, error, phase, future, attempts, slots>>
    BY <2>1, <2>3 DEF Executes, Aside, TypeOK
  <2> QED BY <1>5, <2>2, <2>3 DEF ThrowCancelled
<1>6. ASSUME NEW r \in Results, AsyncBodyEnds(h, r)
      PROVE  /\ Executes(h)
             /\ \A k \in Handles \ {h} : Aside(k) /\ cancelEvent'[k] = cancelEvent[k]
             /\ UNCHANGED <<registry, notifying>>
  <2>1. /\ ExitMove(h) \/ (r = "error" /\ RetryMove(h))
        /\ \A k \in Handles \ {h} : Aside(k)
    BY <1>6, AttemptEndedMoves DEF AsyncBodyEnds
  <2>2. /\ \A k \in Handles \ {h} : cancelEvent'[k] = cancelEvent[k]
        /\ r = "error" => cancelEvent'[h] = cancelEvent[h]
        /\ phase[h] = "async" /\ UNCHANGED <<registry, notifying>>
    BY <1>6 DEF AsyncBodyEnds, TypeOK
  <2> QED BY <2>1, <2>2 DEF Executes, RetryMove
<1>7. ASSUME NEW r \in Results, InlineBodyEnds(h, r)
      PROVE  /\ Executes(h)
             /\ \A k \in Handles \ {h} : Aside(k) /\ cancelEvent'[k] = cancelEvent[k]
             /\ UNCHANGED <<registry, notifying>>
  BY <1>7, AttemptEndedMoves DEF InlineBodyEnds, Executes, RetryMove
<1>8. ASSUME NEW r \in Results, WorkerEnds(h, r)
      PROVE  /\ Executes(h)
             /\ \A k \in Handles \ {h} : Aside(k) /\ cancelEvent'[k] = cancelEvent[k]
             /\ UNCHANGED <<registry, notifying>>
  BY <1>8 DEF WorkerEnds, Executes, Aside, TypeOK
<1> QED BY <1>2, <1>3, <1>4, <1>5, <1>6, <1>7, <1>8 DEF AwaitStep, BodyStep

LEMMA NextExec == IInv /\ ExecInv /\ [Next]_vars => ExecInv'
<1> SUFFICES ASSUME IInv, ExecInv, [Next]_vars, NEW k \in Handles PROVE Exec(k)'
  <2>1. (\A k \in Handles : Exec(k)') => ExecInv'
    BY DEF ExecInv, AttemptsBounded, FuturesOfWorkers, NoLostCancel, Exec
  <2> QED BY <2>1
<1>0. Exec(k) /\ attempts[k] \in Nat /\ (task[k] # NoTask => task[k].maxAttempts \in Nat \ {0})
  BY ExecPerHandle, ConfigAssumption DEF IInv, TypeOK, TaskConfig
<1> USE DEF execVars
<1>1. ASSUME UNCHANGED <<task[k], attempts[k], phase[k], future[k], cancelEvent[k]>>,
             phase[k] \in {"backoff", "pool"} /\ (aioCancel[k] # {} \/ k \in notifying) =>
               aioCancel'[k] # {} \/ k \in notifying'
      PROVE  Exec(k)'
  BY <1>0, <1>1 DEF Exec
<1>2. ASSUME NEW h \in Handles, NEW c \in TaskConfigs, NEW D \in SUBSET Registered,
             Submit(h, c, D)
      PROVE  Exec(k)'
  <2>1. CASE h # k
    BY <1>1, <1>2, <2>1 DEF Submit, cancelVars, IInv, TypeOK
  <2>2. CASE h = k
    <3>1. phase'[k] = "none" /\ task'[k] = c /\ attempts'[k] = 0 /\ future'[k] = "none"
      BY <1>0, <1>2, <2>2 DEF Submit, Exec, IInv, TypeOK, ViewsAgree, RegistryAgrees
    <3>2. c.maxAttempts \in Nat
      BY ConfigAssumption DEF TaskConfig
    <3> QED BY <3>1, <3>2 DEF Exec
  <2> QED BY <2>1, <2>2
<1>3. ASSUME NEW h \in Handles, AwaitStep(h) \/ BodyStep(h) PROVE Exec(k)'
  <2>1. /\ task[h] # NoTask /\ Executes(h)
        /\ \A g \in Handles \ {h} : Aside(g) /\ cancelEvent'[g] = cancelEvent[g]
        /\ UNCHANGED <<registry, notifying>>
    BY <1>3, CoroutineMoves
  <2>2. CASE h # k
    BY <1>1, <2>1, <2>2 DEF Aside, registry
  <2>3. CASE h = k
    <3>1. task'[k] = task[k] /\ notifying' = notifying /\ task[k].maxAttempts \in Nat \ {0}
      BY <1>0, <2>1, <2>3 DEF registry
    <3>2. CASE ExitMove(k)
      BY <1>0, <3>1, <3>2 DEF ExitMove, Exec
    <3>3. CASE RetryMove(k) /\ ~cancelEvent'[k]
      BY <1>0, <3>1, <3>3 DEF RetryMove, BeginMove, SleepMove, Exec
    <3>4. CASE BeginMove(k) /\ phase[k] = "backoff" /\ cancelEvent'[k] = cancelEvent[k]
      BY <1>0, <3>1, <3>4 DEF BeginMove, Exec
    <3>5. CASE /\ phase[k] = "pool" /\ phase'[k] = "pool" /\ future[k] = "pending"
               /\ cancelEvent'[k] => cancelEvent[k] \/ future'[k] = "timeout"
               /\ UNCHANGED <<attempts[k], aioCancel[k]>>
      BY <1>0, <3>1, <3>5 DEF Exec
    <3>6. CASE phase[k] = "async" /\ UNCHANGED <<phase[k], future[k], attempts[k]>>
      BY <1>0, <3>1, <3>6 DEF Exec
    <3> QED BY <2>1, <2>3, <3>2, <3>3, <3>4, <3>5, <3>6 DEF Executes
  <2> QED BY <2>2, <2>3
<1>4. ASSUME NEW h \in Handles, CallerStep(h) PROVE Exec(k)'
  <2>1. CASE WakeLoop(h)
    BY <1>1, <2>1 DEF WakeLoop, registry, cancelVars
  <2>2. CASE Cancel(h)
    BY <1>0, <2>2 DEF Cancel, Exec, registry, IInv, TypeOK
  <2>3. CASE NotifyCancel(h)
    <3>1. phase[k] \in {"backoff", "pool"} /\ h = k => aioCancel'[k] # {}
      BY <2>3 DEF NotifyCancel, Settled, IInv, TypeOK
    <3>2. h # k => aioCancel'[k] = aioCancel[k] /\ (k \in notifying => k \in notifying')
      BY <2>3 DEF NotifyCancel, IInv, TypeOK
    <3> QED BY <1>1, <2>3, <3>1, <3>2 DEF NotifyCancel, registry
  <2> QED BY <1>4, <2>1, <2>2, <2>3 DEF CallerStep
<1>5. ASSUME NEW h \in Handles, PassStep(h) PROVE Exec(k)'
  <2>1. CASE Postpone(h)
    BY <1>1, <2>1 DEF Postpone, registry, cancelVars
  <2>2. CASE MarkSkipped(h) \/ MarkDepFailed(h)
    BY <1>1, <2>2 DEF MarkSkipped, MarkDepFailed, Resolve, registry, cancelVars
  <2>3. CASE StartHandle(h)
    <3>1. CASE h # k
      BY <1>1, <2>3, <3>1 DEF StartHandle, registry, cancelVars, IInv, TypeOK
    <3>2. CASE h = k
      <4>1. phase[k] = "none" /\ phase'[k] = "created" /\ UNCHANGED <<task, attempts, future>>
        BY <2>3, <3>2, ScannedWaits DEF StartHandle, registry, IInv, TypeOK
      <4> QED BY <1>0, <4>1 DEF Exec
    <3> QED BY <3>1, <3>2
  <2> QED BY <1>5, <2>1, <2>2, <2>3 DEF PassStep
<1>6. CASE Stop \/ (\E e \in {"new_work", "stop"} : SetEvent(e)) \/ UNCHANGED vars
           \/ (\E m \in Modes : Enter(m)) \/ BindLoopEvents \/ ObserveStop \/ BeginPass
           \/ EndPass \/ WakeUp \/ Leave
  <2>1. UNCHANGED <<registry, cancelVars, execVars>>
    BY <1>6 DEF Stop, SetEvent, vars, Enter, BindLoopEvents, ObserveStop, BeginPass, EndPass,
                WakeUp, Leave
  <2> QED BY <1>1, <2>1 DEF registry, cancelVars
<1>7. CASE Reap \/ Interrupt
  <2>1. /\ UNCHANGED <<registry, cancelVars, phase, future, attempts>>
        /\ CancelInFlight \/ UNCHANGED aioCancel
    BY <1>7 DEF Reap, Interrupt
  <2>2. aioCancel[k] # {} => aioCancel'[k] # {}
    BY <2>1 DEF CancelInFlight
  <2> QED BY <1>1, <2>1, <2>2 DEF registry, cancelVars
<1> QED BY <1>2, <1>3, <1>4, <1>5, <1>6, <1>7 DEF Next, SubmitSome, LoopStep

LEMMA InitExec == Init => ExecInv
BY DEF Init, ExecInv, AttemptsBounded, FuturesOfWorkers, NoLostCancel

(* At every state of _execute_handle the attempts counted are those of its *)
(* loop, a future belongs to a pool attempt, and a cancellation asked for   *)
(* is still on its way.                                                    *)
THEOREM ExecInvariance == Spec => []ExecInv
BY InitExec, NextExec, Invariance, PTL DEF Spec

(* The attempt loop of _execute_handle never exceeds max_attempts.         *)
THEOREM AttemptsWithinBudget == Spec => []RetryBudget
<1>1. IInv /\ ExecInv => RetryBudget
  BY DEF ExecInv, AttemptsBounded, RetryBudget, Registered, IInv, ViewsAgree, RegistryAgrees
<1> QED BY <1>1, ExecInvariance, Invariance, PTL

(* A cancelled handle that sleeps or waits for a worker is about to be     *)
(* told (TaskHandle.cancel, _notify_cancel).                               *)
THEOREM CancelDelivered == Spec => []NoLostCancel
<1>1. ExecInv => NoLostCancel
  BY DEF ExecInv
<1> QED BY <1>1, ExecInvariance, PTL

(* _execute_handle looks at the cancel event before it retries.            *)
THEOREM CancelEndsAttempts == Spec => NoRetryOnceCancelled
<1>1. IInv /\ ExecInv /\ [Next]_vars =>
        [\A h \in Handles : cancelEvent[h] /\ phase[h] \in {"async", "inline", "pool"} =>
           attempts'[h] = attempts[h] /\ phase'[h] # "backoff"]_vars
  <2> SUFFICES ASSUME IInv, ExecInv, [Next]_vars, NEW k \in Handles, cancelEvent[k],
                      phase[k] \in {"async", "inline", "pool"}
               PROVE  attempts'[k] = attempts[k] /\ phase'[k] # "backoff"
    OBVIOUS
  <2>1. ASSUME NEW h \in Handles, AwaitStep(h) \/ BodyStep(h)
        PROVE  attempts'[k] = attempts[k] /\ phase'[k] # "backoff"
    <3>1. Executes(h) /\ \A g \in Handles \ {h} : Aside(g)
      BY <2>1, CoroutineMoves
    <3>2. CASE h = k
      BY <3>1, <3>2 DEF Executes, ExitMove, RetryMove
    <3>3. CASE h # k
      BY <3>1, <3>3 DEF Aside
    <3> QED BY <3>2, <3>3
  <2>2. ASSUME NEW h \in Handles, PassStep(h)
        PROVE  attempts'[k] = attempts[k] /\ phase'[k] # "backoff"
    BY <2>2 DEF PassStep, Postpone, StartHandle, MarkSkipped, MarkDepFailed, Resolve, execVars,
                IInv, TypeOK
  <2>3. CASE UNCHANGED <<attempts, phase>>
    BY <2>3
  <2>4. \/ UNCHANGED <<attempts, phase>>
        \/ \E h \in Handles : AwaitStep(h) \/ BodyStep(h) \/ PassStep(h)
    BY DEF Next, SubmitSome, Submit, CallerStep, WakeLoop, Cancel, NotifyCancel, SetEvent, Enter,
           Stop, LoopStep, BindLoopEvents, ObserveStop, BeginPass, EndPass, Reap, WakeUp, Leave,
           Interrupt, execVars, vars
  <2> QED BY <2>1, <2>2, <2>3, <2>4
<1> QED BY <1>1, ExecInvariance, Invariance, PTL DEF Spec, NoRetryOnceCancelled
=============================================================================
