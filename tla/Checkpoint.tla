----------------------------- MODULE Checkpoint -----------------------------
(* Per-transition persistence over a snapshot file (_persistence.py        *)
(* save_handle, _atomic_write_bytes), as the runner drives it from three   *)
(* kinds of threads: submit() writes the initial row, the loop writes every *)
(* transition, a worker writes progress.  A write builds the row, loads    *)
(* the file, replaces one row and renames a temporary file over it; no     *)
(* lock is held over these steps.  The process may crash at any of them,   *)
(* and resume() starts a new one from the file.                            *)
EXTENDS Integers, FiniteSets

CONSTANTS
  Ids,         \* handle ids that may be drawn: bounds the submissions
  Tasks,       \* what is submitted, and submitted again after a restart
  NoTask, NoId,
  Loop,        \* the thread of the event loop
  Users,       \* threads that call submit()
  Workers,     \* threads whose bodies call update_progress()
  Torn,        \* the content of a file half written
  MaxRestarts, \* bound on the crashes
  MaxFaults    \* bound on the writes that raise

Writers == {Loop} \cup Users \cup Workers

ASSUME CheckpointAssumption ==
  /\ Loop \notin Users \cup Workers /\ Users \cap Workers = {}
  /\ NoTask \notin Tasks /\ NoId \notin Ids
  /\ MaxRestarts \in Nat /\ MaxFaults \in Nat

VARIABLES
  task,       \* what each id was drawn for
  status,     \* TaskHandle._status; what it was at the end, once its process died
  result,     \* whether TaskHandle._result is set
  alive,      \* _handles of the running process
  up,         \* whether a process runs
  file,       \* the checkpoint file: a row per id, or Torn
  writer,     \* where each thread is in a write
  resumed,    \* _resumed_results
  orphaned,   \* _orphaned
  restarts, faults,
  contended,  \* history: two writes were under way at once; if not,
  missed,     \* history: ids whose last write raised
  saved       \* history: ids whose terminal row was written

procVars == <<task, status, result, alive, up>>
resumeVars == <<resumed, orphaned, restarts>>
history == <<contended, missed, saved>>
vars == <<procVars, file, writer, resumeVars, faults, history>>

Terminal == {"COMPLETED", "FAILED"}
Statuses == {"PENDING", "STARTED"} \cup Terminal

(* A row: what _handle_to_entry puts in, and NoRow for an id without one.  *)
Rows  == [status : Statuses, result : BOOLEAN]
NoRow == [status |-> "none", result |-> FALSE]
Files == [Ids -> Rows \cup {NoRow}]
Empty == [i \in Ids |-> NoRow]

ASSUME TornAssumption == Torn \notin Files

(* A write: its next step, its handle, the row built and the state loaded. *)
Steps == {"idle", "complete", "status", "result", "load", "write", "replace"}
Rest  == [at |-> "idle", id |-> NoId, row |-> NoRow, state |-> Empty]
At(w, s)   == up /\ writer[w].at = s
InFlight(i) == \E w \in Writers : writer[w].id = i

TypeOK ==
  /\ task \in [Ids -> Tasks \cup {NoTask}]
  /\ status \in [Ids -> Statuses]
  /\ result \in [Ids -> BOOLEAN]
  /\ alive \subseteq Ids
  /\ up \in BOOLEAN
  /\ file \in Files \cup {Torn}
  /\ \A w \in Writers :
       /\ writer[w].at \in Steps /\ writer[w].id \in Ids \cup {NoId}
       /\ writer[w].row \in Rows \cup {NoRow}
       /\ writer[w].state \in Files
  /\ resumed \subseteq Ids /\ orphaned \subseteq Ids
  /\ restarts \in 0 .. MaxRestarts /\ faults \in 0 .. MaxFaults
  /\ contended \in BOOLEAN
  /\ missed \subseteq Ids /\ saved \subseteq Ids

Init ==
  /\ task = [i \in Ids |-> NoTask]
  /\ status = [i \in Ids |-> "PENDING"]
  /\ result = [i \in Ids |-> FALSE]
  /\ alive = {} /\ up = TRUE
  /\ file = Empty
  /\ writer = [w \in Writers |-> Rest]
  /\ resumed = {} /\ orphaned = {}
  /\ restarts = 0 /\ faults = 0
  /\ contended = FALSE
  /\ missed = {} /\ saved = {}

Begin(w, i, step) == writer' = [writer EXCEPT ![w].at = step, ![w].id = i]
Goes(w, step) == writer' = [writer EXCEPT ![w].at = step]

-----------------------------------------------------------------------------
(* Where a write begins.                                                   *)

(* submit(): the handle is in the registry, and visible to the loop,       *)
(* before its initial row is written.  The id is drawn at random, so it is *)
(* none that was used before and never finds a resumed result to be primed *)
(* with.  A caller submits each task once in a process.                    *)
Submit(u, i, t) ==
  /\ At(u, "idle")
  /\ task[i] = NoTask
  /\ \A j \in alive : task[j] # t
  /\ task' = [task EXCEPT ![i] = t]
  /\ alive' = alive \cup {i}
  /\ Begin(u, i, "status")
  /\ UNCHANGED <<status, result, up, file, resumeVars, faults, history>>

(* _transition: the loop sets READY, RUNNING or RETRYING, all STARTED here, *)
(* and persists it.  The retry loop that sets retry_at, and a coroutine    *)
(* that reports progress, persist a handle that is STARTED already.        *)
Transition(i) ==
  /\ At(Loop, "idle")
  /\ i \in alive /\ status[i] \notin Terminal
  /\ status' = [status EXCEPT ![i] = "STARTED"]
  /\ Begin(Loop, i, "status")
  /\ UNCHANGED <<task, result, alive, up, file, resumeVars, faults, history>>

(* update_progress() in a worker, unless throttled.  A body that outlives  *)
(* its handle, which then FAILED, still calls it.                          *)
Progress(w, i) ==
  /\ At(w, "idle")
  /\ i \in alive /\ status[i] \in {"STARTED", "FAILED"}
  /\ Begin(w, i, "status")
  /\ UNCHANGED <<procVars, file, resumeVars, faults, history>>

(* _complete sets the result, then the status, then persists.              *)
SetResult(i) == result' = [result EXCEPT ![i] = TRUE] /\ UNCHANGED status
SetStatus(i, outcome) == status' = [status EXCEPT ![i] = outcome] /\ UNCHANGED result

\* Mutant: the status first.
AssignStatusFirst(n, i, outcome) == IF n = 1 THEN SetStatus(i, outcome) ELSE SetResult(i)

Assign(n, i, outcome) == IF n = 1 THEN SetResult(i) ELSE SetStatus(i, outcome)

(* FAILED stands for every terminal status but COMPLETED: a handle may be  *)
(* skipped, or cancelled, before it runs.  A body that is inside           *)
(* update_progress() has not returned.                                     *)
Complete(i, outcome) ==
  /\ At(Loop, "idle")
  /\ i \in alive /\ status[i] \notin Terminal
  /\ outcome = "COMPLETED" =>
       status[i] = "STARTED" /\ \A w \in Workers : writer[w].id # i
  /\ Assign(1, i, outcome)
  /\ writer' = [writer EXCEPT ![Loop].at = "complete", ![Loop].id = i,
                              ![Loop].row = [status |-> outcome, result |-> TRUE]]
  /\ UNCHANGED <<task, alive, up, file, resumeVars, faults, history>>

Completed ==
  /\ At(Loop, "complete")
  /\ Assign(2, writer[Loop].id, writer[Loop].row.status)
  /\ Goes(Loop, "status")
  /\ UNCHANGED <<task, alive, up, file, resumeVars, faults, history>>

-----------------------------------------------------------------------------
(* The write, in the thread that called.                                   *)

(* _handle_to_entry reads the status, ...                                  *)
ReadStatus(w) ==
  /\ At(w, "status")
  /\ writer' = [writer EXCEPT ![w].at = "result", ![w].row.status = status[writer[w].id]]
  /\ IF \E v \in Writers \ {w} : writer[v].at \in {"result", "load", "write", "replace"}
     THEN contended' = TRUE /\ missed' = {} /\ saved' = {}
     ELSE UNCHANGED history
  /\ UNCHANGED <<procVars, file, resumeVars, faults>>

(* ... then what comes with a result, if there is one.                     *)
ReadResult(w) ==
  /\ At(w, "result")
  /\ writer' = [writer EXCEPT ![w].at = "load", ![w].row.result = result[writer[w].id]]
  /\ UNCHANGED <<procVars, file, resumeVars, faults, history>>

\* Mutant: a row that is there is left as it is.
InsertOrIgnore(state, i, row) == [state EXCEPT ![i] = IF @ = NoRow THEN row ELSE @]

(* save_handle: replace the row of that id, or append it.  A file that is  *)
(* absent or empty loads as no rows.                                       *)
Upsert(state, i, row) == [state EXCEPT ![i] = row]

Load(w) ==
  /\ At(w, "load")
  /\ file # Torn
  /\ writer' = [writer EXCEPT ![w].at = "write", ![w].state = Upsert(file, writer[w].id, writer[w].row)]
  /\ UNCHANGED <<procVars, file, resumeVars, faults, history>>

\* Mutant: the file itself is opened and written.
WriteInPlace(w) ==
  /\ Goes(w, "replace")
  /\ file' = Torn

(* _atomic_write_bytes: the bytes go to a temporary file of this write ... *)
WriteTemp(w) ==
  /\ Goes(w, "replace")
  /\ UNCHANGED file

Write(w) ==
  /\ At(w, "write")
  /\ WriteTemp(w)
  /\ UNCHANGED <<procVars, resumeVars, faults, history>>

(* ... which is renamed over the checkpoint.                               *)
Replace(w) ==
  LET i == writer[w].id IN
  /\ At(w, "replace")
  /\ file' = writer[w].state
  /\ writer' = [writer EXCEPT ![w] = Rest]
  /\ missed' = missed \ {i}
  /\ saved' = IF writer[w].row.status \in Terminal /\ ~contended THEN saved \cup {i} ELSE saved
  /\ UNCHANGED <<procVars, resumeVars, faults, contended>>

(* A value that cannot be serialised, a disk that is full: the error is    *)
(* logged, the temporary file removed, and the runner goes on.             *)
WriteFails(w) ==
  /\ At(w, "load") \/ At(w, "write") \/ At(w, "replace")
  /\ faults < MaxFaults
  /\ faults' = faults + 1
  /\ missed' = IF contended THEN {} ELSE missed \cup {writer[w].id}
  /\ writer' = [writer EXCEPT ![w] = Rest]
  /\ UNCHANGED <<procVars, file, resumeVars, contended, saved>>

-----------------------------------------------------------------------------
(* The process dies, at any point of any write.                            *)
Crash ==
  /\ up /\ restarts < MaxRestarts
  /\ up' = FALSE
  /\ alive' = {}
  /\ writer' = [w \in Writers |-> Rest]
  /\ restarts' = restarts + 1
  /\ UNCHANGED <<task, status, result, file, resumed, orphaned, faults, history>>

(* resume(): terminal rows are kept as results, the others as orphans.     *)
Resume ==
  /\ ~up /\ file # Torn
  /\ up' = TRUE
  /\ resumed' = {i \in Ids : file[i].status \in Terminal}
  /\ orphaned' = {i \in Ids : file[i] # NoRow /\ file[i].status \notin Terminal}
  /\ UNCHANGED <<task, status, result, alive, file, writer, restarts, faults, history>>

WriteStep(w) == ReadStatus(w) \/ ReadResult(w) \/ Load(w) \/ Write(w) \/ Replace(w) \/ WriteFails(w)

Next ==
  \/ \E u \in Users, i \in Ids, t \in Tasks : Submit(u, i, t)
  \/ \E i \in Ids :
       \/ Transition(i)
       \/ \E outcome \in Terminal : Complete(i, outcome)
       \/ \E w \in Workers : Progress(w, i)
  \/ Completed
  \/ \E w \in Writers : WriteStep(w)
  \/ Crash \/ Resume

Spec == Init /\ [][Next]_vars

-----------------------------------------------------------------------------

(* A terminal row says what happened, and has the result, though rows are  *)
(* built by one thread while another completes the handle: no crash and no *)
(* interleaving of writers makes a handle look finished that was not, or   *)
(* finished otherwise.  This is what resume() may rely on.                 *)
TerminalRowsTrue ==
  /\ file # Torn => \A i \in Ids : file[i].status \in Terminal =>
       file[i] = [status |-> status[i], result |-> TRUE]
  /\ \A i \in resumed : status[i] \in Terminal

(* The row of a handle that no thread is writing is the handle's, unless   *)
(* its last write raised or two writes were ever under way at once.        *)
RowsCurrent ==
  ~contended =>
    \A i \in alive : ~InFlight(i) /\ i \notin missed =>
      file # Torn /\ file[i] = [status |-> status[i], result |-> result[i]]

(* A terminal row that was written can still be read after later writes,   *)
(* failed ones, crashes at any step of them and restarts, unless two       *)
(* writes were ever under way at once.                                     *)
SavedForGood ==
  ~contended => \A i \in saved : file # Torn /\ file[i].status \in Terminal

(* "Completed tasks from the previous run won't re-execute when their      *)
(* handles are re-submitted" (_runner.py:1104).                            *)
ResumeSkipsCompleted ==
  \A i \in alive, r \in resumed :
    status[i] = "STARTED" /\ status[r] = "COMPLETED" => task[i] # task[r]
=============================================================================
