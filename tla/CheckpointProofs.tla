-------------------------- MODULE CheckpointProofs --------------------------
(* What the checkpoint file says is true, whatever the threads that write  *)
(* it do and whenever the process dies; and while writes do not overlap it *)
(* is also current and loses no terminal row.                              *)
EXTENDS Checkpoint, TLAPS

-----------------------------------------------------------------------------
(* The type of the state, as the proofs need it: a thread in a write has a *)
(* handle and, once it has read the status, a row; only the loop completes *)
(* a handle.                                                               *)
Busy(w) == writer[w].at \in {"result", "load", "write", "replace"}

Writings == [at : Steps, id : Ids \cup {NoId}, row : Rows \cup {NoRow}, state : Files]

FileType ==
  /\ status \in [Ids -> Statuses]
  /\ result \in [Ids -> BOOLEAN]
  /\ alive \subseteq Ids
  /\ file \in Files
  /\ resumed \subseteq Ids /\ missed \subseteq Ids /\ saved \subseteq Ids
  /\ contended \in BOOLEAN

WriterType ==
  /\ writer \in [Writers -> Writings]
  /\ \A w \in Writers : writer[w].at # "idle" => writer[w].id \in Ids
  /\ \A w \in Writers : writer[w].at = "complete" => w = Loop /\ writer[w].row.status \in Terminal
  /\ \A w \in Writers : Busy(w) => writer[w].row \in Rows

CkType == FileType /\ WriterType

Others(w) == \A v \in Writers : v # w => writer'[v] = writer[v]

LEMMA TerminalStatuses ==
  /\ Terminal \subseteq Statuses /\ "STARTED" \in Statuses /\ "STARTED" \notin Terminal
  /\ \A i \in Ids : i # NoId
  /\ NoRow.status \notin Terminal
  /\ Loop \in Writers /\ Users \subseteq Writers /\ Workers \subseteq Writers
BY CheckpointAssumption DEF Terminal, Statuses, NoRow, Writers

-----------------------------------------------------------------------------
(* What each step does to the thread that takes it.                        *)

LEMMA BeginEffect ==
  ASSUME CkType, NEW w \in Writers, NEW i \in Ids, NEW s \in Steps, Begin(w, i, s)
  PROVE  /\ Others(w)
         /\ writer' \in [Writers -> Writings]
         /\ writer'[w].at = s /\ writer'[w].id = i
BY DEF CkType, WriterType, Writings, Begin, Others

LEMMA GoesEffect ==
  ASSUME CkType, NEW w \in Writers, NEW s \in Steps, Goes(w, s)
  PROVE  /\ Others(w)
         /\ writer' \in [Writers -> Writings]
         /\ writer'[w].at = s /\ writer'[w].id = writer[w].id
         /\ writer'[w].row = writer[w].row /\ writer'[w].state = writer[w].state
BY DEF CkType, WriterType, Writings, Goes, Others

LEMMA RestEffect ==
  ASSUME CkType, NEW w \in Writers, writer' = [writer EXCEPT ![w] = Rest]
  PROVE  /\ Others(w)
         /\ writer' \in [Writers -> Writings]
         /\ writer'[w].at = "idle" /\ writer'[w].id = NoId
<1>1. Rest \in Writings
  BY DEF Rest, Writings, Steps, Empty, Files
<1> QED BY <1>1 DEF CkType, WriterType, Writings, Others, Rest

LEMMA CompleteEffect ==
  ASSUME CkType, NEW i \in Ids, NEW outcome \in Terminal, Complete(i, outcome)
  PROVE  /\ Others(Loop)
         /\ writer' \in [Writers -> Writings]
         /\ writer'[Loop].at = "complete" /\ writer'[Loop].id = i
         /\ writer'[Loop].row = [status |-> outcome, result |-> TRUE]
<1>1. [status |-> outcome, result |-> TRUE] \in Rows
  BY TerminalStatuses DEF Rows
<1> DEFINE row == [status |-> outcome, result |-> TRUE]
<1>2. Loop \in Writers /\ "complete" \in Steps /\ writer \in [Writers -> Writings]
  BY TerminalStatuses DEF Steps, CkType, WriterType
<1>3. writer' = [writer EXCEPT ![Loop].at = "complete", ![Loop].id = i, ![Loop].row = row]
  BY DEF Complete
<1> HIDE DEF row
<1> QED BY <1>1, <1>2, <1>3 DEF Writings, Others, row

LEMMA ReadStatusEffect ==
  ASSUME CkType, NEW w \in Writers, ReadStatus(w)
  PROVE  /\ Others(w)
         /\ writer' \in [Writers -> Writings]
         /\ writer'[w].at = "result" /\ writer'[w].id = writer[w].id
         /\ writer'[w].row \in Rows
         /\ writer'[w].row.status = status[writer[w].id]
<1> DEFINE i == writer[w].id
           row == [writer[w].row EXCEPT !.status = status[i]]
<1>1. i \in Ids /\ writer[w] \in Writings
  BY DEF ReadStatus, At, CkType, WriterType
<1>2. writer[w].row \in [status : Statuses \cup {"none"}, result : BOOLEAN]
  <2>1. writer[w].row \in Rows \/ writer[w].row = NoRow
    BY <1>1 DEF Writings
  <2>2. NoRow \in [status : Statuses \cup {"none"}, result : BOOLEAN]
    BY DEF NoRow
  <2> QED BY <2>1, <2>2 DEF Rows
<1>3. status[i] \in Statuses
  BY <1>1 DEF CkType, FileType
<1>4. row \in Rows /\ row.status = status[i]
  BY <1>2, <1>3 DEF Rows
<1> HIDE DEF row
<1>5. writer' = [writer EXCEPT ![w] = [writer[w] EXCEPT !.at = "result", !.row = row]]
  BY DEF ReadStatus, row, i
<1> QED BY <1>1, <1>4, <1>5 DEF CkType, WriterType, Writings, Steps, Others

LEMMA ReadResultEffect ==
  ASSUME CkType, NEW w \in Writers, ReadResult(w)
  PROVE  /\ Others(w)
         /\ writer' \in [Writers -> Writings]
         /\ writer'[w].at = "load" /\ writer'[w].id = writer[w].id
         /\ writer'[w].row \in Rows
         /\ writer'[w].row = [status |-> writer[w].row.status, result |-> result[writer[w].id]]
<1> DEFINE i == writer[w].id
           row == [writer[w].row EXCEPT !.result = result[i]]
<1>1. i \in Ids /\ writer[w] \in Writings /\ writer[w].row \in Rows
  BY DEF ReadResult, At, CkType, WriterType, Busy
<1>2. result[i] \in BOOLEAN
  BY <1>1 DEF CkType, FileType
<1>3. row \in Rows /\ row = [status |-> writer[w].row.status, result |-> result[i]]
  BY <1>1, <1>2 DEF Rows
<1> HIDE DEF row
<1>4. writer' = [writer EXCEPT ![w] = [writer[w] EXCEPT !.at = "load", !.row = row]]
  BY DEF ReadResult, row, i
<1> QED BY <1>1, <1>3, <1>4 DEF CkType, WriterType, Writings, Steps, Others

LEMMA LoadEffect ==
  ASSUME CkType, NEW w \in Writers, Load(w)
  PROVE  /\ Others(w)
         /\ writer' \in [Writers -> Writings]
         /\ writer'[w].at = "write" /\ writer'[w].id = writer[w].id
         /\ writer'[w].row = writer[w].row
         /\ writer'[w].state = [file EXCEPT ![writer[w].id] = writer[w].row]
<1> DEFINE i == writer[w].id
           state == [file EXCEPT ![i] = writer[w].row]
<1>1. i \in Ids /\ writer[w] \in Writings /\ writer[w].row \in Rows
  BY DEF Load, At, CkType, WriterType, Busy
<1>2. state \in Files
  BY <1>1 DEF CkType, FileType, Files
<1>3. writer' = [writer EXCEPT ![w] = [writer[w] EXCEPT !.at = "write", !.state = state]]
  BY DEF Load, Upsert, state, i
<1> HIDE DEF state
<1> DEFINE now == [writer[w] EXCEPT !.at = "write", !.state = state]
<1>4. /\ now \in Writings
      /\ now.at = "write" /\ now.id = i /\ now.row = writer[w].row /\ now.state = state
  BY <1>1, <1>2 DEF Writings, Steps
<1> HIDE DEF now
<1>5. Others(w) /\ writer' \in [Writers -> Writings] /\ writer'[w] = now
  BY <1>3, <1>4 DEF CkType, WriterType, Others, now
<1> QED BY <1>4, <1>5 DEF state, i

-----------------------------------------------------------------------------
LEMMA InitType == Init => CkType
<1> SUFFICES ASSUME Init PROVE CkType
  OBVIOUS
<1>1. Rest \in Writings /\ Rest.at = "idle"
  BY DEF Rest, Writings, Steps, Empty, Files
<1>2. WriterType
  BY <1>1 DEF Init, WriterType, Busy
<1>3. FileType
  BY TerminalStatuses DEF Init, FileType, Statuses, Empty, Files
<1> QED BY <1>2, <1>3 DEF CkType

LEMMA StuttersType == ASSUME CkType, UNCHANGED vars PROVE CkType'
BY DEF CkType, FileType, WriterType, Busy, vars, procVars, resumeVars, history

LEMMA WriterTypeStep ==
  ASSUME CkType, NEW w \in Writers, Others(w), writer' \in [Writers -> Writings],
         writer'[w].at # "idle" => writer'[w].id \in Ids,
         writer'[w].at = "complete" => w = Loop /\ writer'[w].row.status \in Terminal,
         Busy(w)' => writer'[w].row \in Rows
  PROVE  WriterType'
BY DEF CkType, WriterType, Others, Busy

LEMMA NextType == ASSUME CkType, Next PROVE CkType'
<1> USE TerminalStatuses
<1>1. ASSUME NEW u \in Users, NEW i \in Ids, NEW t \in Tasks, Submit(u, i, t) PROVE CkType'
  <2>1. Begin(u, i, "status") /\ u \in Writers
    BY <1>1 DEF Submit
  <2>2. WriterType'
    BY <2>1, BeginEffect, WriterTypeStep DEF Busy, Steps
  <2> QED BY <1>1, <2>2 DEF Submit, CkType, FileType, resumeVars, history
<1>2. ASSUME NEW i \in Ids, Transition(i) PROVE CkType'
  <2>1. Begin(Loop, i, "status")
    BY <1>2 DEF Transition
  <2>2. WriterType'
    BY <2>1, BeginEffect, WriterTypeStep DEF Busy, Steps
  <2> QED BY <1>2, <2>2 DEF Transition, CkType, FileType, resumeVars, history
<1>3. ASSUME NEW i \in Ids, NEW outcome \in Terminal, Complete(i, outcome) PROVE CkType'
  <2>1. /\ Others(Loop) /\ writer' \in [Writers -> Writings]
        /\ writer'[Loop].at = "complete" /\ writer'[Loop].id = i
        /\ writer'[Loop].row = [status |-> outcome, result |-> TRUE]
    BY <1>3, CompleteEffect
  <2>2. WriterType'
    BY <2>1, WriterTypeStep DEF Busy
  <2> QED BY <1>3, <2>2 DEF Complete, Assign, SetResult, CkType, FileType, resumeVars, history
<1>4. ASSUME NEW i \in Ids, NEW w \in Workers, Progress(w, i) PROVE CkType'
  <2>1. Begin(w, i, "status") /\ w \in Writers
    BY <1>4 DEF Progress
  <2>2. WriterType'
    BY <2>1, BeginEffect, WriterTypeStep DEF Busy, Steps
  <2> QED BY <1>4, <2>2 DEF Progress, CkType, FileType, procVars, resumeVars, history
<1>5. ASSUME Completed PROVE CkType'
  <2>1. writer[Loop].id \in Ids /\ Goes(Loop, "status")
    BY <1>5 DEF Completed, At, CkType, WriterType
  <2>2. WriterType'
    BY <2>1, GoesEffect, WriterTypeStep DEF Busy, Steps
  <2>3. writer[Loop].row.status \in Statuses
    BY <1>5 DEF Completed, At, CkType, WriterType
  <2> QED BY <1>5, <2>1, <2>2, <2>3
        DEF Completed, Assign, SetStatus, CkType, FileType, resumeVars, history
<1>6. ASSUME NEW w \in Writers, ReadStatus(w) PROVE CkType'
  <2>1. writer[w].id \in Ids
    BY <1>6 DEF ReadStatus, At, CkType, WriterType
  <2>2. writer'[w].row \in Rows
    BY <1>6, ReadStatusEffect
  <2>3. WriterType'
    BY <1>6, <2>1, <2>2, ReadStatusEffect, WriterTypeStep
  <2> QED BY <1>6, <2>3 DEF ReadStatus, CkType, FileType, procVars, resumeVars, history
<1>7. ASSUME NEW w \in Writers, ReadResult(w) PROVE CkType'
  <2>1. writer[w].id \in Ids
    BY <1>7 DEF ReadResult, At, CkType, WriterType
  <2>2. writer'[w].row \in Rows
    BY <1>7, ReadResultEffect
  <2>3. WriterType'
    BY <1>7, <2>1, <2>2, ReadResultEffect, WriterTypeStep
  <2> QED BY <1>7, <2>3 DEF ReadResult, CkType, FileType, procVars, resumeVars, history
<1>8. ASSUME NEW w \in Writers, Load(w) PROVE CkType'
  <2>1. writer[w].id \in Ids /\ writer[w].row \in Rows
    BY <1>8 DEF Load, At, CkType, WriterType, Busy
  <2>2. WriterType'
    BY <1>8, <2>1, LoadEffect, WriterTypeStep
  <2> QED BY <1>8, <2>2 DEF Load, CkType, FileType, procVars, resumeVars, history
<1>9. ASSUME NEW w \in Writers, Write(w) PROVE CkType'
  <2>1. writer[w].id \in Ids /\ writer[w].row \in Rows /\ Goes(w, "replace") /\ UNCHANGED file
    BY <1>9 DEF Write, WriteTemp, At, CkType, WriterType, Busy
  <2>2. WriterType'
    BY <2>1, GoesEffect, WriterTypeStep DEF Steps
  <2> QED BY <1>9, <2>1, <2>2 DEF Write, CkType, FileType, procVars, resumeVars, history
<1>10. ASSUME NEW w \in Writers, Replace(w) PROVE CkType'
  <2>1. writer[w].id \in Ids /\ writer[w].state \in Files
    BY <1>10 DEF Replace, At, CkType, WriterType, Writings
  <2>2. WriterType'
    BY <1>10, RestEffect, WriterTypeStep DEF Replace, Busy
  <2> QED BY <1>10, <2>1, <2>2 DEF Replace, CkType, FileType, procVars, resumeVars
<1>11. ASSUME NEW w \in Writers, WriteFails(w) PROVE CkType'
  <2>1. writer[w].id \in Ids
    BY <1>11 DEF WriteFails, At, CkType, WriterType
  <2>2. WriterType'
    BY <1>11, RestEffect, WriterTypeStep DEF WriteFails, Busy
  <2> QED BY <1>11, <2>1, <2>2 DEF WriteFails, CkType, FileType, procVars, resumeVars
<1>12. ASSUME Crash PROVE CkType'
  <2>1. Rest \in Writings /\ Rest.at = "idle"
    BY DEF Rest, Writings, Steps, Empty, Files
  <2>2. WriterType'
    BY <1>12, <2>1 DEF Crash, WriterType, Busy
  <2> QED BY <1>12, <2>2 DEF Crash, CkType, FileType, history
<1>13. ASSUME Resume PROVE CkType'
  <2>1. WriterType'
    BY <1>13 DEF Resume, CkType, WriterType, Busy
  <2> QED BY <1>13, <2>1 DEF Resume, CkType, FileType, history
<1> QED BY <1>1, <1>2, <1>3, <1>4, <1>5, <1>6, <1>7, <1>8, <1>9, <1>10, <1>11, <1>12, <1>13
      DEF Next, WriteStep

-----------------------------------------------------------------------------
(* Why terminal rows are true.  A status is final and its result is set    *)
(* before it, so a row that was read with a terminal status stays true of  *)
(* its handle, whoever carries it, however long, and in whatever order the *)
(* states that contain it are renamed into place.                          *)
Truthful(i, row) == row.status \in Terminal => row = [status |-> status[i], result |-> TRUE]

ResultFirst == \A i \in Ids : status[i] \in Terminal => result[i]

FileTruthful ==
  /\ \A i \in Ids : Truthful(i, file[i])
  /\ \A i \in resumed : status[i] \in Terminal

WriterTruthful(w) ==
  LET i == writer[w].id IN
  /\ writer[w].at = "complete" => status[i] \notin Terminal /\ result[i]
  /\ writer[w].at = "result" /\ writer[w].row.status \in Terminal =>
       writer[w].row.status = status[i]
  /\ writer[w].at \in {"load", "write", "replace"} => Truthful(i, writer[w].row)
  /\ writer[w].at \in {"write", "replace"} => \A j \in Ids : Truthful(j, writer[w].state[j])

TruthInv == ResultFirst /\ FileTruthful /\ \A w \in Writers : WriterTruthful(w)

LEMMA NoRowTruthful == \A i \in Ids : Truthful(i, NoRow)
BY TerminalStatuses DEF Truthful

LEMMA InitTruth == Init => TruthInv
<1> SUFFICES ASSUME Init PROVE TruthInv
  OBVIOUS
<1>1. "PENDING" \notin Terminal
  BY DEF Terminal
<1>2. ResultFirst
  BY <1>1 DEF Init, ResultFirst
<1>3. FileTruthful
  BY NoRowTruthful DEF Init, FileTruthful, Empty
<1>4. \A w \in Writers : WriterTruthful(w)
  BY DEF Init, WriterTruthful, Rest
<1> QED BY <1>2, <1>3, <1>4 DEF TruthInv

(* No terminal status changes, and no result goes away.                    *)
Final == \A i \in Ids :
  /\ status[i] \in Terminal => status'[i] = status[i]
  /\ result[i] => result'[i]

LEMMA FinalSteps == ASSUME CkType, TruthInv, [Next]_vars PROVE Final
<1>1. CASE UNCHANGED vars
  BY <1>1 DEF vars, procVars, Final
<1>2. ASSUME NEW i \in Ids, Transition(i) PROVE Final
  BY <1>2 DEF Transition, Final, CkType, FileType
<1>3. ASSUME NEW i \in Ids, NEW outcome \in Terminal, Complete(i, outcome) PROVE Final
  BY <1>3 DEF Complete, Assign, SetResult, Final, CkType, FileType
<1>4. ASSUME Completed PROVE Final
  <2>1. writer[Loop].id \in Ids /\ status[writer[Loop].id] \notin Terminal
    BY <1>4, TerminalStatuses DEF Completed, At, CkType, WriterType, TruthInv, WriterTruthful
  <2> QED BY <1>4, <2>1 DEF Completed, Assign, SetStatus, Final, CkType, FileType
<1>5. CASE UNCHANGED <<status, result>>
  BY <1>5 DEF Final
<1> QED BY <1>1, <1>2, <1>3, <1>4, <1>5
      DEF Next, WriteStep, Submit, Progress, ReadStatus, ReadResult, Load, Write, Replace,
          WriteFails, Crash, Resume, procVars

(* So a row that is carried along stays true, and so does a write at rest. *)
LEMMA TruthfulStays ==
  ASSUME Final, NEW i \in Ids, NEW row, Truthful(i, row)
  PROVE  row.status \in Terminal => row = [status |-> status'[i], result |-> TRUE]
BY DEF Truthful, Final

LEMMA CarriedStays ==
  ASSUME CkType, Final, NEW w \in Writers, WriterTruthful(w), writer'[w] = writer[w],
         writer[w].at = "complete" => UNCHANGED status
  PROVE  WriterTruthful(w)'
<1> DEFINE i == writer[w].id
<1>1. CASE writer[w].at = "idle"
  BY <1>1 DEF WriterTruthful
<1>2. CASE writer[w].at # "idle"
  <2>1. i \in Ids
    BY <1>2 DEF CkType, WriterType
  <2>2. (writer[w].at = "complete" => status[i] \notin Terminal /\ result[i])'
    BY <2>1 DEF WriterTruthful, Final
  <2>3. (writer[w].at = "result" /\ writer[w].row.status \in Terminal =>
          writer[w].row.status = status[i])'
    BY <2>1 DEF WriterTruthful, Final
  <2>4. (writer[w].at \in {"load", "write", "replace"} => Truthful(i, writer[w].row))'
    BY <2>1, TruthfulStays DEF WriterTruthful, Truthful
  <2>5. (writer[w].at \in {"write", "replace"} => \A j \in Ids : Truthful(j, writer[w].state[j]))'
    <3> SUFFICES ASSUME writer[w].at \in {"write", "replace"}, NEW j \in Ids,
                        writer[w].state[j].status \in Terminal
                 PROVE  writer[w].state[j] = [status |-> status'[j], result |-> TRUE]
      BY DEF Truthful
    <3>1. Truthful(j, writer[w].state[j])
      BY DEF WriterTruthful
    <3> QED BY <3>1, TruthfulStays
  <2> QED BY <2>2, <2>3, <2>4, <2>5 DEF WriterTruthful
<1> QED BY <1>1, <1>2

LEMMA StepOfOne ==
  ASSUME CkType, TruthInv, Final, NEW w \in Writers, Others(w), WriterTruthful(w)',
         w = Loop \/ UNCHANGED status
  PROVE  \A v \in Writers : WriterTruthful(v)'
<1> SUFFICES ASSUME NEW v \in Writers, v # w PROVE WriterTruthful(v)'
  OBVIOUS
<1> QED BY CarriedStays DEF Others, TruthInv, CkType, WriterType

LEMMA NextWriterTruthful ==
  ASSUME CkType, TruthInv, Final, Next PROVE \A w \in Writers : WriterTruthful(w)'
<1> USE TerminalStatuses
<1>1. ASSUME NEW u \in Users, NEW i \in Ids, NEW t \in Tasks, Submit(u, i, t)
      PROVE  \A w \in Writers : WriterTruthful(w)'
  <2>1. Others(u) /\ writer'[u].at = "status" /\ UNCHANGED status
    BY <1>1, BeginEffect DEF Submit, Steps
  <2> QED BY <2>1, StepOfOne DEF WriterTruthful
<1>2. ASSUME NEW i \in Ids, Transition(i) PROVE \A w \in Writers : WriterTruthful(w)'
  <2>1. Others(Loop) /\ writer'[Loop].at = "status"
    BY <1>2, BeginEffect DEF Transition, Steps
  <2> QED BY <2>1, StepOfOne DEF WriterTruthful
<1>3. ASSUME NEW i \in Ids, NEW outcome \in Terminal, Complete(i, outcome)
      PROVE  \A w \in Writers : WriterTruthful(w)'
  <2>1. Others(Loop) /\ writer'[Loop].at = "complete" /\ writer'[Loop].id = i
    BY <1>3, CompleteEffect
  <2>2. status'[i] \notin Terminal /\ result'[i]
    BY <1>3 DEF Complete, Assign, SetResult, CkType, FileType
  <2> QED BY <2>1, <2>2, StepOfOne DEF WriterTruthful
<1>4. ASSUME NEW i \in Ids, NEW w \in Workers, Progress(w, i)
      PROVE  \A v \in Writers : WriterTruthful(v)'
  <2>1. Others(w) /\ writer'[w].at = "status" /\ UNCHANGED status
    BY <1>4, BeginEffect DEF Progress, Steps, procVars
  <2> QED BY <2>1, StepOfOne DEF WriterTruthful
<1>5. ASSUME Completed PROVE \A w \in Writers : WriterTruthful(w)'
  <2>1. Others(Loop) /\ writer'[Loop].at = "status"
    BY <1>5, GoesEffect DEF Completed, Steps
  <2> QED BY <2>1, StepOfOne DEF WriterTruthful
<1>6. ASSUME NEW w \in Writers, ReadStatus(w) PROVE \A v \in Writers : WriterTruthful(v)'
  <2>1. /\ Others(w) /\ writer'[w].at = "result" /\ UNCHANGED status
        /\ writer'[w].row.status = status[writer'[w].id]
    BY <1>6, ReadStatusEffect DEF ReadStatus, procVars
  <2> QED BY <2>1, StepOfOne DEF WriterTruthful
<1>7. ASSUME NEW w \in Writers, ReadResult(w) PROVE \A v \in Writers : WriterTruthful(v)'
  <2> DEFINE i == writer[w].id
  <2>1. /\ Others(w) /\ writer'[w].at = "load" /\ UNCHANGED <<status, result>>
        /\ writer'[w].id = i
        /\ writer'[w].row = [status |-> writer[w].row.status, result |-> result[i]]
    BY <1>7, ReadResultEffect DEF ReadResult, procVars
  <2>2. i \in Ids /\ writer[w].at = "result"
    BY <1>7 DEF ReadResult, At, CkType, WriterType
  <2>3. writer[w].row.status \in Terminal => writer[w].row.status = status[i] /\ result[i]
    BY <2>2 DEF TruthInv, WriterTruthful, ResultFirst
  <2>4. Truthful(i, writer[w].row)'
    <3>1. result[i] \in BOOLEAN
      BY <2>2 DEF CkType, FileType
    <3>2. writer[w].row.status \in Terminal =>
            writer'[w].row = [status |-> status[i], result |-> TRUE]
      BY <2>1, <2>3, <3>1
    <3>3. writer'[w].row.status = writer[w].row.status
      BY <2>1
    <3> QED BY <2>1, <3>2, <3>3 DEF Truthful
  <2> QED BY <2>1, <2>4, StepOfOne DEF WriterTruthful
<1>8. ASSUME NEW w \in Writers, Load(w) PROVE \A v \in Writers : WriterTruthful(v)'
  <2> DEFINE i == writer[w].id
  <2>1. /\ Others(w) /\ writer'[w].at = "write" /\ UNCHANGED <<status, result>>
        /\ writer'[w].id = i /\ writer'[w].row = writer[w].row
        /\ writer'[w].state = [file EXCEPT ![i] = writer[w].row]
    BY <1>8, LoadEffect DEF Load, procVars
  <2>2. Truthful(i, writer[w].row) /\ i \in Ids
    BY <1>8 DEF Load, At, TruthInv, WriterTruthful, CkType, WriterType
  <2>3. \A j \in Ids : Truthful(j, writer'[w].state[j])
    BY <2>1, <2>2 DEF TruthInv, FileTruthful, CkType, FileType, Files
  <2> QED BY <2>1, <2>2, <2>3, StepOfOne DEF WriterTruthful, Truthful
<1>9. ASSUME NEW w \in Writers, Write(w) PROVE \A v \in Writers : WriterTruthful(v)'
  <2>1. /\ Others(w) /\ writer'[w].at = "replace" /\ UNCHANGED <<status, result>>
        /\ writer'[w].id = writer[w].id /\ writer'[w].row = writer[w].row
        /\ writer'[w].state = writer[w].state
    BY <1>9, GoesEffect DEF Write, WriteTemp, procVars, Steps
  <2>2. writer[w].at = "write" /\ WriterTruthful(w)
    BY <1>9 DEF Write, At, TruthInv
  <2>3. WriterTruthful(w)'
    BY <2>1, <2>2 DEF WriterTruthful, Truthful
  <2> QED BY <2>1, <2>3, StepOfOne
<1>10. ASSUME NEW w \in Writers, Replace(w) \/ WriteFails(w)
       PROVE  \A v \in Writers : WriterTruthful(v)'
  <2>1. Others(w) /\ writer'[w].at = "idle" /\ UNCHANGED status
    BY <1>10, RestEffect DEF Replace, WriteFails, procVars
  <2> QED BY <2>1, StepOfOne DEF WriterTruthful
<1>11. ASSUME Crash PROVE \A w \in Writers : WriterTruthful(w)'
  BY <1>11 DEF Crash, WriterTruthful, Rest
<1>12. ASSUME Resume PROVE \A w \in Writers : WriterTruthful(w)'
  BY <1>12, CarriedStays DEF Resume, TruthInv
<1> QED BY <1>1, <1>2, <1>3, <1>4, <1>5, <1>6, <1>7, <1>8, <1>9, <1>10, <1>11, <1>12
      DEF Next, WriteStep

LEMMA NextFileTruthful == ASSUME CkType, TruthInv, Final, Next PROVE FileTruthful'
<1> USE TerminalStatuses
<1>1. ASSUME NEW w \in Writers, Replace(w) PROVE FileTruthful'
  <2>1. \A j \in Ids : Truthful(j, file'[j])
    BY <1>1 DEF Replace, At, TruthInv, WriterTruthful
  <2> QED BY <1>1, <2>1 DEF Replace, procVars, resumeVars, TruthInv, FileTruthful, Truthful
<1>2. ASSUME Resume PROVE FileTruthful'
  <2>1. ASSUME NEW i \in Ids, file[i].status \in Terminal PROVE status[i] \in Terminal
    <3>1. file[i] = [status |-> status[i], result |-> TRUE]
      BY <2>1 DEF TruthInv, FileTruthful, Truthful
    <3>2. file[i].status = status[i]
      BY <3>1
    <3> QED BY <2>1, <3>2
  <2> QED BY <1>2, <2>1 DEF Resume, TruthInv, FileTruthful, Truthful
<1>3. CASE UNCHANGED <<file, resumed>>
  <2>1. \A i \in Ids : Truthful(i, file[i])'
    BY <1>3, TruthfulStays DEF TruthInv, FileTruthful, Truthful
  <2>2. \A i \in resumed : status'[i] \in Terminal
    BY DEF TruthInv, FileTruthful, Final, CkType, FileType
  <2> QED BY <1>3, <2>1, <2>2 DEF FileTruthful
<1> QED BY <1>1, <1>2, <1>3
      DEF Next, WriteStep, Submit, Transition, Complete, Completed, Progress, ReadStatus,
          ReadResult, Load, Write, WriteTemp, WriteFails, Crash, resumeVars

LEMMA NextResultFirst == ASSUME CkType, TruthInv, Final, Next PROVE ResultFirst'
<1>1. ASSUME NEW i \in Ids, Transition(i) PROVE ResultFirst'
  BY <1>1, TerminalStatuses DEF Transition, TruthInv, ResultFirst, CkType, FileType
<1>2. ASSUME Completed PROVE ResultFirst'
  <2>1. writer[Loop].id \in Ids /\ result[writer[Loop].id]
    BY <1>2, TerminalStatuses DEF Completed, At, TruthInv, WriterTruthful, CkType, WriterType
  <2> QED BY <1>2, <2>1 DEF Completed, Assign, SetStatus, TruthInv, ResultFirst, CkType, FileType
<1>3. CASE UNCHANGED status
  BY <1>3 DEF ResultFirst, TruthInv, Final
<1> QED BY <1>1, <1>2, <1>3
      DEF Next, WriteStep, Submit, Complete, Assign, SetResult, Progress, ReadStatus,
          ReadResult, Load, Write, Replace, WriteFails, Crash, Resume, procVars

(* Whatever threads write the file at the same time, whichever write       *)
(* fails, and whenever the process dies, a terminal row says how its handle *)
(* ended and that it has a result (_complete, save_handle, resume).        *)
THEOREM TruthInvariance == Spec => [](CkType /\ TruthInv)
<1>1. CkType /\ TruthInv /\ [Next]_vars => CkType' /\ TruthInv'
  <2> SUFFICES ASSUME CkType, TruthInv, [Next]_vars PROVE CkType' /\ TruthInv'
    OBVIOUS
  <2>1. CASE UNCHANGED vars
    BY <2>1, StuttersType
       DEF TruthInv, ResultFirst, FileTruthful, WriterTruthful, Truthful, vars, procVars, resumeVars
  <2>2. CASE Next
    BY <2>2, FinalSteps, NextType, NextWriterTruthful, NextFileTruthful, NextResultFirst DEF TruthInv
  <2> QED BY <2>1, <2>2
<1> QED BY <1>1, InitType, InitTruth, PTL DEF Spec

(* No row claims an end that its handle did not have, and what resume()    *)
(* keeps as completed or failed is so.                                     *)
THEOREM TerminalRowsAlwaysTrue == Spec => []TerminalRowsTrue
<1>1. TruthInv => TerminalRowsTrue
  BY DEF TruthInv, FileTruthful, Truthful, TerminalRowsTrue
<1> QED BY <1>1, TruthInvariance, PTL

-----------------------------------------------------------------------------
(* Why rows are current while writes do not overlap: a row that is being   *)
(* written can be behind its handle only if another thread is about to     *)
(* write that handle too, and the state that goes with it differs from the *)
(* file in that row alone.                                                 *)
About(w, i) == writer[w].at \in {"complete", "status"} /\ writer[w].id = i

OneAtATime == \A w, v \in Writers : Busy(w) /\ Busy(v) => w = v

RowFresh(w) ==
  Busy(w) =>
    \/ /\ writer[w].row.status = status[writer[w].id]
       /\ writer[w].at # "result" => writer[w].row.result = result[writer[w].id]
    \/ \E v \in Writers \ {w} : About(v, writer[w].id)

StateFresh(w) ==
  writer[w].at \in {"write", "replace"} =>
    writer[w].state = [file EXCEPT ![writer[w].id] = writer[w].row]

(* The row of a handle whose terminal row is saved is terminal.            *)
RowFinal(w) == Busy(w) /\ writer[w].id \in saved => writer[w].row.status \in Terminal

WriterFresh(w) == RowFresh(w) /\ StateFresh(w) /\ RowFinal(w)

Engaged(i) == \E w \in Writers : writer[w].at # "idle" /\ writer[w].id = i

FileFresh ==
  /\ \A i \in alive : ~Engaged(i) /\ i \notin missed =>
       file[i] = [status |-> status[i], result |-> result[i]]
  /\ \A i \in saved : file[i].status \in Terminal

Fresh == OneAtATime /\ FileFresh /\ \A w \in Writers : WriterFresh(w)
FreshInv == ~contended => Fresh

LEMMA InitFresh == Init => FreshInv
<1> SUFFICES ASSUME Init PROVE Fresh
  BY DEF FreshInv
<1>1. \A w \in Writers : writer[w].at = "idle"
  BY DEF Init, Rest
<1>2. OneAtATime /\ \A w \in Writers : WriterFresh(w)
  BY <1>1 DEF OneAtATime, WriterFresh, RowFresh, StateFresh, RowFinal, Busy
<1>3. FileFresh
  BY DEF Init, FileFresh
<1> QED BY <1>2, <1>3 DEF Fresh

(* A thread turns to a handle: the row of that handle is now its concern,  *)
(* whatever becomes of the handle, and everything else is as before.       *)
LEMMA TurnTo ==
  ASSUME CkType, Fresh, NEW w \in Writers, NEW i \in Ids, Others(w),
         writer[w].at = "idle" \/ (writer[w].at = "complete" /\ writer[w].id = i),
         writer'[w].at \in {"complete", "status"}, writer'[w].id = i,
         \A j \in Ids : j # i => status'[j] = status[j] /\ result'[j] = result[j],
         alive' \subseteq alive \cup {i},
         UNCHANGED <<file, missed, saved>>
  PROVE  Fresh'
<1>1. About(w, i)' /\ ~Busy(w) /\ ~Busy(w)'
  BY DEF About, Busy
<1>2. \A v \in Writers : v # w => (Busy(v)' <=> Busy(v))
  BY DEF Others, Busy
<1>3. OneAtATime'
  BY <1>1, <1>2 DEF OneAtATime, Fresh
<1>4. ASSUME NEW v \in Writers PROVE WriterFresh(v)'
  <2>1. CASE v = w
    BY <1>1, <2>1 DEF WriterFresh, RowFresh, StateFresh, RowFinal, Busy
  <2>2. CASE v # w
    <3>1. writer'[v] = writer[v] /\ WriterFresh(v)
      BY <2>2 DEF Others, Fresh
    <3>2. StateFresh(v)' /\ RowFinal(v)'
      BY <3>1 DEF WriterFresh, StateFresh, RowFinal, Busy
    <3>3. CASE ~Busy(v)
      BY <3>1, <3>3 DEF RowFresh, Busy, WriterFresh, StateFresh, RowFinal
    <3>4. CASE Busy(v) /\ writer[v].id = i
      BY <1>1, <2>2, <3>1, <3>2, <3>4 DEF WriterFresh, RowFresh
    <3>5. CASE Busy(v) /\ writer[v].id # i
      <4>1. writer[v].id \in Ids
        BY <3>5 DEF Busy, CkType, WriterType
      <4>2. \A x \in Writers : About(x, writer[v].id) => About(x, writer[v].id)'
        BY <3>1, <3>5 DEF About, Others
      <4>3. RowFresh(v)'
        BY <3>1, <3>5, <4>1, <4>2 DEF WriterFresh, RowFresh, Busy
      <4> QED BY <3>2, <4>3 DEF WriterFresh
    <3> QED BY <3>3, <3>4, <3>5
  <2> QED BY <2>1, <2>2
<1>5. FileFresh'
  <2>1. ASSUME NEW j \in alive', ~Engaged(j)', j \notin missed'
        PROVE  file'[j] = [status |-> status'[j], result |-> result'[j]]
    <3>1. j # i
      BY <2>1 DEF Engaged
    <3>2. j \in alive /\ j \in Ids /\ j \notin missed
      BY <2>1, <3>1 DEF CkType, FileType
    <3>3. ~Engaged(j)
      BY <2>1, <3>1 DEF Engaged, Others
    <3> QED BY <3>1, <3>2, <3>3 DEF Fresh, FileFresh
  <2>2. \A j \in saved' : file'[j].status \in Terminal
    BY DEF Fresh, FileFresh
  <2> QED BY <2>1, <2>2 DEF FileFresh
<1> QED BY <1>3, <1>4, <1>5 DEF Fresh

(* A thread goes on with its write.                                        *)
LEMMA GoOn ==
  ASSUME CkType, Fresh, NEW w \in Writers, Others(w),
         Busy(w), Busy(w)', writer'[w].id = writer[w].id,
         writer'[w].row.status = writer[w].row.status,
         writer[w].at = "result" => writer'[w].row.result = result[writer[w].id],
         writer[w].at # "result" => writer'[w].row = writer[w].row,
         StateFresh(w)',
         UNCHANGED <<status, result, alive, file, missed, saved>>
  PROVE  Fresh'
<1>1. \A v \in Writers : Busy(v)' <=> Busy(v)
  BY DEF Others, Busy
<1>2. OneAtATime'
  BY <1>1 DEF OneAtATime, Fresh
<1>3. \A v \in Writers : v # w => ~Busy(v) /\ ~Busy(v)'
  BY <1>1 DEF OneAtATime, Fresh
<1>4. WriterFresh(w)'
  <2>1. RowFresh(w) /\ RowFinal(w)
    BY DEF Fresh, WriterFresh
  <2>2. \A v \in Writers \ {w} : About(v, writer[w].id) => About(v, writer[w].id)'
    BY DEF About, Others
  <2>3. RowFresh(w)'
    BY <2>1, <2>2 DEF RowFresh
  <2>4. RowFinal(w)'
    BY <2>1 DEF RowFinal
  <2> QED BY <2>3, <2>4 DEF WriterFresh
<1>5. \A v \in Writers : v # w => WriterFresh(v)'
  BY <1>3 DEF WriterFresh, RowFresh, StateFresh, RowFinal, Busy
<1>6. FileFresh'
  <2>1. \A j \in Ids : Engaged(j)' <=> Engaged(j)
    BY DEF Engaged, Others, Busy
  <2> QED BY <2>1 DEF FileFresh, Fresh, CkType, FileType
<1> QED BY <1>2, <1>4, <1>5, <1>6 DEF Fresh

(* A thread starts a write while no other is in one.                       *)
LEMMA StartAlone ==
  ASSUME CkType, TruthInv, Fresh, NEW w \in Writers, ReadStatus(w), contended' = FALSE
  PROVE  Fresh'
<1>1. /\ Others(w) /\ writer'[w].at = "result" /\ writer'[w].id = writer[w].id
      /\ writer'[w].row.status = status[writer[w].id]
      /\ UNCHANGED <<status, result, alive, file, missed, saved>>
      /\ writer[w].at = "status" /\ writer[w].id \in Ids
  BY ReadStatusEffect DEF ReadStatus, At, procVars, history, CkType, WriterType
<1>2. \A v \in Writers \ {w} : ~Busy(v) /\ ~Busy(v)'
  BY <1>1 DEF ReadStatus, Busy, Others
<1>3. OneAtATime'
  BY <1>2 DEF OneAtATime
<1>4. RowFinal(w)'
  <2>1. ASSUME writer[w].id \in saved PROVE status[writer[w].id] \in Terminal
    <3> DEFINE i == writer[w].id
    <3>1. file[i].status \in Terminal /\ Truthful(i, file[i])
      BY <1>1, <2>1 DEF Fresh, FileFresh, TruthInv, FileTruthful
    <3>2. file[i] = [status |-> status[i], result |-> TRUE]
      BY <3>1 DEF Truthful
    <3>3. file[i].status = status[i]
      BY <3>2
    <3> QED BY <3>1, <3>3
  <2> QED BY <1>1, <2>1 DEF RowFinal
<1>5. WriterFresh(w)'
  BY <1>1, <1>4 DEF WriterFresh, RowFresh, StateFresh
<1>6. \A v \in Writers \ {w} : WriterFresh(v)'
  BY <1>2 DEF WriterFresh, RowFresh, StateFresh, RowFinal, Busy
<1>7. FileFresh'
  <2>1. \A j \in Ids : Engaged(j)' <=> Engaged(j)
    BY <1>1 DEF Engaged, Others
  <2> QED BY <1>1, <2>1 DEF FileFresh, Fresh, CkType, FileType
<1> QED BY <1>3, <1>5, <1>6, <1>7 DEF Fresh

(* A thread leaves its write, with the file replaced or not.               *)
LEMMA Leave ==
  ASSUME CkType, Fresh, NEW w \in Writers, Others(w), Busy(w), writer'[w].at = "idle", FileFresh'
  PROVE  Fresh'
<1>1. \A v \in Writers : ~Busy(v)'
  BY DEF Others, Busy, Fresh, OneAtATime
<1> QED BY <1>1 DEF Fresh, OneAtATime, WriterFresh, RowFresh, StateFresh, RowFinal, Busy

LEMMA ReplaceFresh ==
  ASSUME CkType, Fresh, contended = FALSE, NEW w \in Writers, Replace(w) PROVE FileFresh'
<1> DEFINE i == writer[w].id
           row == writer[w].row
<1>1. /\ writer[w].at = "replace" /\ Busy(w) /\ i \in Ids /\ row \in Rows /\ WriterFresh(w)
  BY DEF Replace, At, Busy, CkType, WriterType, Fresh
<1>2. file' = [file EXCEPT ![i] = row]
  BY <1>1 DEF WriterFresh, StateFresh, Replace
<1>3. /\ Others(w) /\ writer'[w].at = "idle"
      /\ missed' = missed \ {i} /\ UNCHANGED <<status, result, alive>>
      /\ saved' \subseteq saved \cup {i}
      /\ i \in saved' => i \in saved \/ row.status \in Terminal
  BY RestEffect DEF Replace, procVars
<1>4. DOMAIN file = Ids
  BY DEF CkType, FileType, Files
<1>5. ASSUME NEW j \in alive, ~Engaged(j)', j \notin missed'
      PROVE  file'[j] = [status |-> status[j], result |-> result[j]]
  <2>1. CASE j = i
    <3>1. \A v \in Writers \ {w} : ~About(v, i)
      BY <1>3, <1>5, <2>1 DEF Engaged, About, Others
    <3>2. row.status = status[i] /\ row.result = result[i]
      BY <1>1, <3>1 DEF WriterFresh, RowFresh
    <3>3. row = [status |-> row.status, result |-> row.result]
      BY <1>1 DEF Rows
    <3> QED BY <1>1, <1>2, <1>4, <2>1, <3>2, <3>3
  <2>2. CASE j # i
    <3>1. ~Engaged(j)
      BY <1>3, <1>5, <2>2 DEF Engaged, Others
    <3>2. j \in Ids /\ j \notin missed
      BY <1>3, <1>5, <2>2 DEF CkType, FileType
    <3> QED BY <1>2, <1>4, <2>2, <3>1, <3>2 DEF Fresh, FileFresh
  <2> QED BY <2>1, <2>2
<1>6. ASSUME NEW j \in saved' PROVE file'[j].status \in Terminal
  <2>1. CASE j = i
    <3>1. row.status \in Terminal
      BY <1>1, <1>3, <1>6, <2>1 DEF WriterFresh, RowFinal
    <3> QED BY <1>1, <1>2, <1>4, <2>1, <3>1
  <2>2. CASE j # i
    <3>1. j \in saved /\ j \in Ids
      BY <1>3, <1>6, <2>2 DEF CkType, FileType
    <3> QED BY <1>2, <1>4, <2>2, <3>1 DEF Fresh, FileFresh
  <2> QED BY <2>1, <2>2
<1> QED BY <1>3, <1>5, <1>6 DEF FileFresh

LEMMA FailsFresh ==
  ASSUME CkType, Fresh, contended = FALSE, NEW w \in Writers, WriteFails(w) PROVE FileFresh'
<1> DEFINE i == writer[w].id
<1>1. /\ Others(w) /\ missed' = missed \cup {i}
      /\ UNCHANGED <<status, result, alive, file, saved>>
  BY RestEffect DEF WriteFails, procVars
<1>2. ASSUME NEW j \in alive, ~Engaged(j)', j \notin missed' PROVE ~Engaged(j) /\ j \notin missed
  BY <1>1, <1>2 DEF Engaged, Others
<1> QED BY <1>1, <1>2 DEF FileFresh, Fresh

LEMMA NextFresh == ASSUME CkType, TruthInv, FreshInv, Next PROVE FreshInv'
<1> USE TerminalStatuses
<1> SUFFICES ASSUME contended' = FALSE PROVE Fresh'
  BY NextType DEF FreshInv, CkType, FileType
<1>0. contended = FALSE /\ Fresh
  <2>1. contended = FALSE
    BY DEF Next, WriteStep, Submit, Transition, Complete, Completed, Progress, ReadStatus, ReadResult,
           Load, Write, Replace, WriteFails, Crash, Resume, history, CkType, FileType
  <2> QED BY <2>1 DEF FreshInv
<1>1. ASSUME NEW u \in Users, NEW i \in Ids, NEW t \in Tasks, Submit(u, i, t) PROVE Fresh'
  <2>1. Others(u) /\ writer'[u].at = "status" /\ writer'[u].id = i /\ u \in Writers
    BY <1>1, BeginEffect DEF Submit, Steps
  <2>2. writer[u].at = "idle" /\ alive' = alive \cup {i}
    BY <1>1 DEF Submit, At
  <2>3. UNCHANGED <<status, result, file, missed, saved>>
    BY <1>1 DEF Submit, history
  <2> QED BY <1>0, <2>1, <2>2, <2>3, TurnTo
<1>2. ASSUME NEW i \in Ids, Transition(i) PROVE Fresh'
  <2>1. Others(Loop) /\ writer'[Loop].at = "status" /\ writer'[Loop].id = i
    BY <1>2, BeginEffect DEF Transition, Steps
  <2>2. writer[Loop].at = "idle" /\ alive' = alive /\ UNCHANGED <<file, missed, saved>>
    BY <1>2 DEF Transition, At, history
  <2>3. \A j \in Ids : j # i => status'[j] = status[j] /\ result'[j] = result[j]
    BY <1>2 DEF Transition, CkType, FileType
  <2> QED BY <1>0, <2>1, <2>2, <2>3, TurnTo
<1>3. ASSUME NEW i \in Ids, NEW outcome \in Terminal, Complete(i, outcome) PROVE Fresh'
  <2>1. Others(Loop) /\ writer'[Loop].at = "complete" /\ writer'[Loop].id = i
    BY <1>3, CompleteEffect
  <2>2. writer[Loop].at = "idle" /\ alive' = alive /\ UNCHANGED <<file, missed, saved>>
    BY <1>3 DEF Complete, At, history
  <2>3. \A j \in Ids : j # i => status'[j] = status[j] /\ result'[j] = result[j]
    BY <1>3 DEF Complete, Assign, SetResult, CkType, FileType
  <2> QED BY <1>0, <2>1, <2>2, <2>3, TurnTo
<1>4. ASSUME NEW i \in Ids, NEW w \in Workers, Progress(w, i) PROVE Fresh'
  <2>1. Others(w) /\ writer'[w].at = "status" /\ writer'[w].id = i /\ w \in Writers
    BY <1>4, BeginEffect DEF Progress, Steps
  <2>2. writer[w].at = "idle" /\ UNCHANGED <<status, result, alive, file, missed, saved>>
    BY <1>4 DEF Progress, At, history, procVars
  <2> QED BY <1>0, <2>1, <2>2, TurnTo
<1>5. ASSUME Completed PROVE Fresh'
  <2> DEFINE i == writer[Loop].id
  <2>1. i \in Ids /\ writer[Loop].at = "complete"
    BY <1>5 DEF Completed, At, CkType, WriterType
  <2>2. Others(Loop) /\ writer'[Loop].at = "status" /\ writer'[Loop].id = i
    BY <1>5, GoesEffect DEF Completed, Steps
  <2>3. alive' = alive /\ UNCHANGED <<file, missed, saved>>
    BY <1>5 DEF Completed, history
  <2>4. \A j \in Ids : j # i => status'[j] = status[j] /\ result'[j] = result[j]
    BY <1>5, <2>1 DEF Completed, Assign, SetStatus, CkType, FileType
  <2> QED BY <1>0, <2>1, <2>2, <2>3, <2>4, TurnTo
<1>6. ASSUME NEW w \in Writers, ReadStatus(w) PROVE Fresh'
  BY <1>0, <1>6, StartAlone
<1>7. ASSUME NEW w \in Writers, ReadResult(w) PROVE Fresh'
  <2>1. writer[w].at = "result" /\ Busy(w)
    BY <1>7 DEF ReadResult, At, Busy
  <2>2. /\ Others(w) /\ writer'[w].at = "load" /\ writer'[w].id = writer[w].id
        /\ writer'[w].row = [status |-> writer[w].row.status, result |-> result[writer[w].id]]
    BY <1>7, ReadResultEffect
  <2>3. UNCHANGED <<status, result, alive, file, missed, saved>>
    BY <1>7 DEF ReadResult, procVars, history
  <2>4. Busy(w)' /\ StateFresh(w)'
    BY <2>2 DEF Busy, StateFresh
  <2> QED BY <1>0, <2>1, <2>2, <2>3, <2>4, GoOn
<1>8. ASSUME NEW w \in Writers, Load(w) PROVE Fresh'
  <2>1. writer[w].at = "load" /\ Busy(w)
    BY <1>8 DEF Load, At, Busy
  <2>2. /\ Others(w) /\ writer'[w].at = "write" /\ writer'[w].id = writer[w].id
        /\ writer'[w].row = writer[w].row
        /\ writer'[w].state = [file EXCEPT ![writer[w].id] = writer[w].row]
    BY <1>8, LoadEffect
  <2>3. UNCHANGED <<status, result, alive, file, missed, saved>>
    BY <1>8 DEF Load, procVars, history
  <2>4. Busy(w)' /\ StateFresh(w)'
    BY <2>2, <2>3 DEF Busy, StateFresh
  <2> QED BY <1>0, <2>1, <2>2, <2>3, <2>4, GoOn
<1>9. ASSUME NEW w \in Writers, Write(w) PROVE Fresh'
  <2>1. writer[w].at = "write" /\ Busy(w) /\ StateFresh(w)
    BY <1>0, <1>9 DEF Write, At, Busy, Fresh, WriterFresh
  <2>2. /\ Others(w) /\ writer'[w].at = "replace" /\ writer'[w].id = writer[w].id
        /\ writer'[w].row = writer[w].row /\ writer'[w].state = writer[w].state
    BY <1>9, GoesEffect DEF Write, WriteTemp, Steps
  <2>3. UNCHANGED <<status, result, alive, file, missed, saved>>
    BY <1>9 DEF Write, WriteTemp, procVars, history
  <2>4. Busy(w)' /\ StateFresh(w)'
    BY <2>1, <2>2, <2>3 DEF Busy, StateFresh
  <2> QED BY <1>0, <2>1, <2>2, <2>3, <2>4, GoOn
<1>10. ASSUME NEW w \in Writers, Replace(w) PROVE Fresh'
  <2>1. Others(w) /\ writer'[w].at = "idle" /\ Busy(w)
    BY <1>10, RestEffect DEF Replace, At, Busy
  <2> QED BY <1>0, <1>10, <2>1, ReplaceFresh, Leave
<1>11. ASSUME NEW w \in Writers, WriteFails(w) PROVE Fresh'
  <2>1. Others(w) /\ writer'[w].at = "idle" /\ Busy(w)
    BY <1>11, RestEffect DEF WriteFails, At, Busy
  <2> QED BY <1>0, <1>11, <2>1, FailsFresh, Leave
<1>12. ASSUME Crash PROVE Fresh'
  <2>1. \A w \in Writers : ~Busy(w)'
    BY <1>12 DEF Crash, Busy, Rest
  <2>2. OneAtATime' /\ \A w \in Writers : WriterFresh(w)'
    BY <2>1 DEF OneAtATime, WriterFresh, RowFresh, StateFresh, RowFinal, Busy
  <2>3. FileFresh'
    BY <1>0, <1>12 DEF Crash, history, Fresh, FileFresh
  <2> QED BY <2>2, <2>3 DEF Fresh
<1>13. ASSUME Resume PROVE Fresh'
  BY <1>0, <1>13
     DEF Resume, history, Fresh, OneAtATime, FileFresh, Engaged, WriterFresh, RowFresh, StateFresh,
         RowFinal, Busy, About
<1> QED BY <1>1, <1>2, <1>3, <1>4, <1>5, <1>6, <1>7, <1>8, <1>9, <1>10, <1>11, <1>12, <1>13
      DEF Next, WriteStep

(* As long as no two writes have been under way at once, the state that a  *)
(* thread has loaded is the file's, but for the row it replaces            *)
(* (SnapshotCheckpointer.save_handle).                                     *)
THEOREM FreshInvariance == Spec => []FreshInv
<1>1. CkType /\ TruthInv /\ FreshInv /\ [Next]_vars => FreshInv'
  <2> SUFFICES ASSUME CkType, TruthInv, FreshInv, [Next]_vars PROVE FreshInv'
    OBVIOUS
  <2>1. CASE UNCHANGED vars
    BY <2>1 DEF FreshInv, Fresh, OneAtATime, FileFresh, Engaged, WriterFresh, RowFresh, StateFresh,
                RowFinal, Busy, About, vars, procVars, history
  <2>2. CASE Next
    BY <2>2, NextFresh
  <2> QED BY <2>1, <2>2
<1> QED BY <1>1, InitFresh, TruthInvariance, PTL DEF Spec

(* As long as no two writes have been under way at once, the row of a      *)
(* handle nobody is writing is what its handle is, unless its last write   *)
(* raised; and the file is never half written (_atomic_write_bytes).       *)
THEOREM RowsAlwaysCurrent == Spec => []RowsCurrent
<1>1. CkType /\ FreshInv => RowsCurrent
  <2> SUFFICES ASSUME CkType, Fresh, NEW i \in alive, ~InFlight(i), i \notin missed
               PROVE  file # Torn /\ file[i] = [status |-> status[i], result |-> result[i]]
    BY DEF FreshInv, RowsCurrent
  <2>1. ~Engaged(i)
    BY DEF Engaged, InFlight
  <2>2. file # Torn
    BY TornAssumption DEF CkType, FileType
  <2> QED BY <2>1, <2>2 DEF Fresh, FileFresh
<1> QED BY <1>1, FreshInvariance, TruthInvariance, PTL

(* As long as no two writes have been under way at once, a terminal row    *)
(* that was written stays, through later writes and restarts.              *)
THEOREM SavedRowsStay == Spec => []SavedForGood
<1>1. CkType /\ FreshInv => SavedForGood
  BY TornAssumption DEF CkType, FileType, FreshInv, Fresh, FileFresh, SavedForGood
<1> QED BY <1>1, FreshInvariance, TruthInvariance, PTL
=============================================================================
