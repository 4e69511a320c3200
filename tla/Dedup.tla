------------------------------- MODULE Dedup -------------------------------
(* Deduplicated submission (_runner.py: submit, find_active,               *)
(* _on_handle_terminal).  submit() looks its key up under the lock, gives  *)
(* the lock up while it builds a handle, and takes it again to register    *)
(* the handle; the loop completes handles in between, and drops a handle's *)
(* entry only after its status is terminal.                                *)
EXTENDS Integers, FiniteSets, Sequences, SequencesExt

CONSTANTS
  Handles,    \* handles that may be built: bounds the submissions
  Keys,       \* pairs of a task name and an effective key
  NoKey,      \* a submission without deduplication
  Threads,    \* threads that call submit()
  NoHandle

ASSUME DedupAssumption == NoKey \notin Keys /\ NoHandle \notin Handles

VARIABLES
  order,       \* _submission_order: the registered handles
  keyOf,       \* TaskHandle._dedup_key
  done,        \* whether TaskHandle._status is terminal
  index,       \* _dedup_index
  completing,  \* the handle the loop has made terminal, its hook not yet run
  shutdown,    \* _shutdown
  submitting,  \* the key a thread has looked up without success, per thread
  lookedUp,    \* history: Len(order) when it did
  raced        \* history: keys registered twice by submissions that overlapped

vars == <<order, keyOf, done, index, completing, shutdown, submitting, lookedUp, raced>>

Idle == "idle"

Registered == ToSet(order)
Live(k)    == {h \in Registered : keyOf[h] = k /\ ~done[h]}

TypeOK ==
  /\ order \in Seq(Handles)
  /\ keyOf \in [Handles -> Keys \cup {NoKey}]
  /\ done \in [Handles -> BOOLEAN]
  /\ index \in [Keys -> Handles \cup {NoHandle}]
  /\ completing \in Handles \cup {NoHandle}
  /\ shutdown \in BOOLEAN
  /\ submitting \in [Threads -> Keys \cup {NoKey, Idle}]
  /\ lookedUp \in [Threads -> Nat]
  /\ raced \subseteq Keys

Init ==
  /\ order = <<>>
  /\ keyOf = [h \in Handles |-> NoKey]
  /\ done = [h \in Handles |-> FALSE]
  /\ index = [k \in Keys |-> NoHandle]
  /\ completing = NoHandle
  /\ shutdown = FALSE
  /\ submitting = [t \in Threads |-> Idle]
  /\ lookedUp = [t \in Threads |-> 0]
  /\ raced = {}

-----------------------------------------------------------------------------
(* submit()                                                                *)

(* A handle found under the key and not done is returned: the call has no  *)
(* effect, and is no step.                                                 *)
Joins(k) == k \in Keys /\ index[k] # NoHandle /\ ~done[index[k]]

LookUpFails(t, k) ==
  /\ submitting[t] = Idle
  /\ ~Joins(k)
  /\ submitting' = [submitting EXCEPT ![t] = k]
  /\ lookedUp' = [lookedUp EXCEPT ![t] = Len(order)]
  /\ UNCHANGED <<order, keyOf, done, index, completing, shutdown, raced>>

(* A key is raced when a handle was registered under it since the look-up. *)
Overlapped(t, k) ==
  k \in Keys /\ \E i \in lookedUp[t] + 1 .. Len(order) : keyOf[order[i]] = k

\* Mutant: only the first submission of a key is entered into the index.
EnterFirst(h, k) ==
  [index EXCEPT ![k] = IF index[k] = NoHandle THEN h ELSE @]

Enter(h, k) == [index EXCEPT ![k] = h]

Register(t) ==
  LET k == submitting[t] IN
  \E h \in Handles \ Registered :
    /\ k # Idle
    /\ ~shutdown
    /\ order' = Append(order, h)
    /\ keyOf' = [keyOf EXCEPT ![h] = k]
    /\ index' = IF k = NoKey THEN index ELSE Enter(h, k)
    /\ submitting' = [submitting EXCEPT ![t] = Idle]
    /\ raced' = IF Overlapped(t, k) THEN raced \cup {k} ELSE raced
    /\ lookedUp' = [lookedUp EXCEPT ![t] = 0]
    /\ UNCHANGED <<done, completing, shutdown>>

(* A runner that was shut down while the handle was built refuses it.      *)
RegisterRefused(t) ==
  /\ submitting[t] # Idle
  /\ shutdown
  /\ submitting' = [submitting EXCEPT ![t] = Idle]
  /\ lookedUp' = [lookedUp EXCEPT ![t] = 0]
  /\ UNCHANGED <<order, keyOf, done, index, completing, shutdown, raced>>

-----------------------------------------------------------------------------
(* The loop completes one handle at a time.                                *)

(* _complete: the status is terminal, then ...                             *)
Complete(h) ==
  /\ completing = NoHandle
  /\ h \in Registered /\ ~done[h]
  /\ done' = [done EXCEPT ![h] = TRUE]
  /\ completing' = h
  /\ UNCHANGED <<order, keyOf, index, shutdown, submitting, lookedUp, raced>>

\* Mutant: the entry is deleted whoever it belongs to.
Forget(k, h) == [index EXCEPT ![k] = NoHandle]

\* Mutant: the entry is left.
KeepEntry(k, h) == index

(* ... the hook deletes the entry, if it still is this handle's.           *)
Release(k, h) == [index EXCEPT ![k] = IF @ = h THEN NoHandle ELSE @]

Hook ==
  /\ completing # NoHandle
  /\ LET k == keyOf[completing]
     IN  index' = IF k = NoKey THEN index ELSE Release(k, completing)
  /\ completing' = NoHandle
  /\ UNCHANGED <<order, keyOf, done, shutdown, submitting, lookedUp, raced>>

Shutdown ==
  /\ ~shutdown
  /\ shutdown' = TRUE
  /\ UNCHANGED <<order, keyOf, done, index, completing, submitting, lookedUp, raced>>

Next ==
  \/ \E t \in Threads :
       \/ \E k \in Keys \cup {NoKey} : LookUpFails(t, k)
       \/ Register(t) \/ RegisterRefused(t)
  \/ \E h \in Handles : Complete(h)
  \/ Hook
  \/ Shutdown

Spec == Init /\ [][Next]_vars

-----------------------------------------------------------------------------

(* The index holds registered handles under their own key, and a terminal  *)
(* one only while the loop is on its way to the hook: find_active(), which *)
(* does not look at the status, can answer with a handle that is over only *)
(* in that window.                                                         *)
EntriesLive ==
  \A k \in Keys : index[k] # NoHandle =>
    /\ index[k] \in Registered
    /\ keyOf[index[k]] = k
    /\ done[index[k]] => index[k] = completing

(* The handle registered last under a key can be found for as long as it   *)
(* lives, whatever earlier handles of that key complete meanwhile: the     *)
(* hook of an old handle must not take the entry of a new one.             *)
LatestFound ==
  \A i \in DOMAIN order :
    LET h == order[i] IN
    (/\ keyOf[h] \in Keys
     /\ ~done[h]
     /\ \A j \in DOMAIN order : j > i => keyOf[order[j]] # keyOf[h])
      => index[keyOf[h]] = h

(* Two handles of one key live together only under a key for which two     *)
(* submissions overlapped: the gap between the look-up and the             *)
(* registration is the only way around deduplication.                      *)
OneLiveUnlessRaced == \A k \in Keys \ raced : Cardinality(Live(k)) <= 1
=============================================================================
