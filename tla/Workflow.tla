------------------------------ MODULE Workflow ------------------------------
(***************************************************************************)
(* What a TaskRunner promises about its handles, with no event loop, no    *)
(* coroutine and no counter: a handle starts once its dependencies are     *)
(* settled the way its policy asks and a slot of its pool is free, settles *)
(* once, and stays settled.                                                *)
(***************************************************************************)
EXTENDS Integers, FiniteSets

CONSTANTS Handles, Pools, MaxWorkers, ReservedSlots, ReserveFor, TaskConfigs, NoTask

VARIABLES task,   \* handle -> its configuration, NoTask before submit()
          deps,   \* handle -> the handles it depends on
          state   \* handle -> "absent", "waiting", "active" or a terminal status

wvars == <<task, deps, state>>

Terminal == {"COMPLETED", "FAILED", "CANCELLED", "SKIPPED"}

Privileged(h) == \/ ReserveFor[task[h].pool] = {}
                 \/ task[h].source \in ReserveFor[task[h].pool]
Active(p)       == {h \in Handles : state[h] = "active" /\ task[h].pool = p}
ActiveUnpriv(p) == {h \in Active(p) : ~Privileged(h)}

(* A slot is free for h: one of the pool, and outside the reservation if h *)
(* has no claim to it.                                                     *)
SlotFree(h) ==
  LET p == task[h].pool IN
  /\ Cardinality(Active(p)) < MaxWorkers[p]
  /\ Privileged(h) \/ Cardinality(ActiveUnpriv(p)) < MaxWorkers[p] - ReservedSlots[p]

DepsSettled(h)   == \A d \in deps[h] : state[d] \in Terminal
DepsCompleted(h) == \A d \in deps[h] : state[d] = "COMPLETED"

WInit == /\ task = [h \in Handles |-> NoTask]
         /\ deps = [h \in Handles |-> {}]
         /\ state = [h \in Handles |-> "absent"]

(* A new handle depends on handles that already exist.                     *)
WSubmit(h, c, D) ==
  /\ state[h] = "absent"
  /\ \A d \in D : state[d] # "absent"
  /\ task' = [task EXCEPT ![h] = c]
  /\ deps' = [deps EXCEPT ![h] = D]
  /\ state' = [state EXCEPT ![h] = "waiting"]

WStart(h) ==
  /\ state[h] = "waiting"
  /\ DepsSettled(h)
  /\ DepsCompleted(h) \/ task[h].policy = "run-anyway"
  /\ SlotFree(h)
  /\ state' = [state EXCEPT ![h] = "active"]
  /\ UNCHANGED <<task, deps>>

(* The policy settles a handle that can no longer start.                   *)
WRefuse(h) ==
  /\ state[h] = "waiting"
  /\ DepsSettled(h) /\ ~DepsCompleted(h)
  /\ \/ task[h].policy = "skip" /\ state' = [state EXCEPT ![h] = "SKIPPED"]
     \/ task[h].policy = "fail" /\ state' = [state EXCEPT ![h] = "FAILED"]
  /\ UNCHANGED <<task, deps>>

WSettle(h, s) ==
  /\ state[h] = "active"
  /\ s \in Terminal \ {"SKIPPED"}
  /\ state' = [state EXCEPT ![h] = s]
  /\ UNCHANGED <<task, deps>>

WNext == \E h \in Handles :
           \/ \E c \in TaskConfigs : \E D \in SUBSET Handles : WSubmit(h, c, D)
           \/ WStart(h)
           \/ WRefuse(h)
           \/ \E s \in Terminal : WSettle(h, s)

WSpec == WInit /\ [][WNext]_wvars
=============================================================================
