-------------------------- MODULE WorkerProcessProofs --------------------------
(***************************************************************************)
(* Theorems about WorkerProcess, for any number of processes, loops, calls *)
(* and stops: its types, that no loop outlives its clients, that the       *)
(* columns of a record agree, and that every extract task is accounted for.*)
(***************************************************************************)
EXTENDS WorkerProcess, QueueTheorems, TLAPS

-----------------------------------------------------------------------------
(* What one step of a worker does to the extractor's state.                *)

LEMMA EndType ==
  ASSUME ExtractorTypeOK, NEW w \in Workers, NEW e \in Ends, pc[w] # "idle",
         End(w, e), record' \in [Calls -> Records], queue' \in Seq(Messages)
  PROVE  ExtractorTypeOK'
<1>1. job[w] \in Messages
  BY ExtractorAssumption DEF ExtractorTypeOK, Messages
<1>2. ended[job[w]] \in [Ends -> Nat] /\ ended[job[w]][e] + 1 \in Nat
  BY <1>1 DEF ExtractorTypeOK
<1>3. ended' \in [Messages -> [Ends -> Nat]]
  BY <1>1, <1>2 DEF ExtractorTypeOK, End
<1>4. /\ pc' \in [Workers -> {"idle", "extract", "mark_done", "mark_failed"}]
      /\ job' \in [Workers -> Calls \cup {NoTask}]
      /\ \A v \in Workers : job'[v] = NoTask <=> pc'[v] = "idle"
  BY DEF ExtractorTypeOK, End
<1> QED
  BY <1>3, <1>4 DEF ExtractorTypeOK, End

LEMMA RowTypes ==
  ASSUME NEW row \in Records
  PROVE  Done(row) \in Records /\ Failed(row) \in Records
BY DEF Records, Done, Failed

LEMMA MarkType ==
  ASSUME ExtractorTypeOK, NEW w \in Workers, pc[w] # "idle",
         NEW row \in Records, Mark(w, row) \/ MaybeMark(w, row)
  PROVE  record' \in [Calls -> Records]
BY DEF ExtractorTypeOK, Mark, MaybeMark

LEMMA JobIsACall ==
  ASSUME ExtractorTypeOK, NEW w \in Workers, pc[w] # "idle"
  PROVE  job[w] \in Calls /\ record[job[w]] \in Records
BY DEF ExtractorTypeOK

LEMMA InterruptType ==
  ASSUME ExtractorTypeOK, NEW w \in Workers, Interrupt(w)
  PROVE  ExtractorTypeOK'
<1>1. CASE pc[w] = "idle"
  BY <1>1 DEF Interrupt, ExtractorTypeOK, extractVars
<1>2. CASE pc[w] # "idle"
  BY <1>2, EndType DEF Interrupt, ExtractorTypeOK, Ends
<1> QED
  BY <1>1, <1>2

LEMMA PushTaskType ==
  ASSUME ExtractorTypeOK, NEW m \in Messages, PushTask(m)
  PROVE  ExtractorTypeOK'
BY DEF ExtractorTypeOK, PushTask

LEMMA PopTaskType ==
  ASSUME ExtractorTypeOK, NEW w \in Workers, PopTask(w)
  PROVE  ExtractorTypeOK'
<1> DEFINE m == Head(queue)
<1>1. m \in Messages /\ queue' \in Seq(Messages)
  BY DEF ExtractorTypeOK, PopTask
<1>2. CASE m \in Malformed
  <2>1. ended[m] \in [Ends -> Nat] /\ "dropped" \in Ends
    BY <1>1 DEF ExtractorTypeOK, Ends
  <2>2. ended[m]["dropped"] + 1 \in Nat
    BY <2>1
  <2>3. ended' = [ended EXCEPT ![m]["dropped"] = @ + 1]
    BY <1>2 DEF PopTask
  <2>4. [ended[m] EXCEPT !["dropped"] = @ + 1] \in [Ends -> Nat]
    BY <2>1, <2>2
  <2>5. ended' \in [Messages -> [Ends -> Nat]]
    BY <1>1, <2>3, <2>4 DEF ExtractorTypeOK
  <2> QED
    BY <1>1, <1>2, <2>5 DEF ExtractorTypeOK, PopTask
<1>3. CASE m \notin Malformed
  <2>1. m \in Calls /\ m # NoTask
    BY <1>1, <1>3, ExtractorAssumption DEF Messages
  <2> QED
    BY <1>1, <1>3, <2>1 DEF ExtractorTypeOK, PopTask
<1> QED
  BY <1>2, <1>3

LEMMA ExtractStepType ==
  ASSUME ExtractorTypeOK, NEW w \in Workers, ExtractStep(w)
  PROVE  ExtractorTypeOK'
<1>1. CASE PopTask(w)
  BY <1>1, PopTaskType
<1>2. CASE Extract(w)
  BY <1>2 DEF ExtractorTypeOK, Extract
<1>3. CASE MarkDone(w)
  <2>1. record' \in [Calls -> Records] /\ queue' \in Seq(Messages)
    BY <1>3, JobIsACall, RowTypes, MarkType DEF MarkDone, ExtractorTypeOK
  <2>2. CASE End(w, "done")
    BY <1>3, <2>1, <2>2, EndType DEF MarkDone, Ends
  <2>3. CASE pc' = [pc EXCEPT ![w] = "mark_failed"] /\ UNCHANGED <<job, pushes, ended>>
    BY <1>3, <2>1, <2>3 DEF MarkDone, ExtractorTypeOK
  <2> QED
    BY <1>3, <2>2, <2>3 DEF MarkDone
<1>4. CASE MarkFailed(w)
  <2>1. record' \in [Calls -> Records] /\ queue' \in Seq(Messages)
    BY <1>4, JobIsACall, RowTypes, MarkType DEF MarkFailed, ExtractorTypeOK
  <2> QED
    BY <1>4, <2>1, EndType DEF MarkFailed, Ends
<1> QED
  BY <1>1, <1>2, <1>3, <1>4 DEF ExtractStep

-----------------------------------------------------------------------------
(* The columns of a record: each UPDATE leaves a row whose columns agree,  *)
(* and what ended is what was marked.                                      *)

LEMMA MarkedRowsAgree ==
  ASSUME NEW row \in Records, ColumnsAgree(row)
  PROVE  /\ ColumnsAgree(Done(row)) /\ ColumnsAgree(Failed(row))
         /\ \A ends : Remembers(Done(row), ends)
         /\ \A ends, later : Remembers(row, ends) /\ later["done"] = ends["done"] =>
              Remembers(Failed(row), later)
BY DEF Records, ColumnsAgree, Remembers, Done, Failed

LEMMA SameEndsRemembered ==
  ASSUME NEW row, NEW ends, NEW later, Remembers(row, ends),
         later["done"] = ends["done"], later["failed"] = ends["failed"]
  PROVE  Remembers(row, later)
BY DEF Remembers

\* One end of one message is counted, and nothing else.
LEMMA OneMore ==
  ASSUME ExtractorTypeOK, NEW m \in Messages, NEW e \in Ends,
         ended' = [ended EXCEPT ![m][e] = @ + 1]
  PROVE  \A n \in Messages, f \in Ends : n # m \/ f # e => ended'[n][f] = ended[n][f]
<1>1. ended \in [Messages -> [Ends -> Nat]] /\ ended[m] \in [Ends -> Nat]
  BY DEF ExtractorTypeOK
<1>2. ended'[m] = [ended[m] EXCEPT ![e] = @ + 1]
  BY <1>1
<1>3. \A f \in Ends : f # e => ended'[m][f] = ended[m][f]
  BY <1>1, <1>2
<1>4. \A n \in Messages : n # m => ended'[n] = ended[n]
  BY <1>1
<1> QED
  BY <1>3, <1>4

\* The same of a call that a worker holds.
LEMMA OneMoreEnd ==
  ASSUME ExtractorTypeOK, NEW w \in Workers, pc[w] # "idle", NEW e \in Ends, End(w, e)
  PROVE  \A c \in Calls, f \in Ends : c # job[w] \/ f # e => ended'[c][f] = ended[c][f]
<1>1. job[w] \in Messages /\ Calls \subseteq Messages
  BY JobIsACall DEF Messages
<1>2. ended' = [ended EXCEPT ![job[w]][e] = @ + 1]
  BY DEF End
<1> QED
  BY <1>1, <1>2, OneMore

LEMMA EndNames ==
  /\ "done" \in Ends /\ "failed" \in Ends /\ "unmarked" \in Ends
  /\ "dropped" \in Ends /\ "lost" \in Ends /\ "unanswered" \in Ends
BY DEF Ends

LEMMA UnmarkedAgrees ==
  ASSUME RecordsAgree, record' = record,
         \A c \in Calls : ended'[c]["done"] = ended[c]["done"]
                       /\ ended'[c]["failed"] = ended[c]["failed"]
  PROVE  RecordsAgree'
BY SameEndsRemembered DEF RecordsAgree

LEMMA ExtractStepAgrees ==
  ASSUME ExtractorTypeOK, RecordsAgree, NEW w \in Workers, ExtractStep(w)
  PROVE  RecordsAgree'
<1> DEFINE c == job[w]
<1>1. CASE PopTask(w)
  <2>1. Head(queue) \in Messages /\ Calls \subseteq Messages
    BY <1>1 DEF PopTask, ExtractorTypeOK, Messages
  <2>2. CASE ended' = [ended EXCEPT ![Head(queue)]["dropped"] = @ + 1]
    BY <1>1, <2>1, <2>2, OneMore, EndNames, UnmarkedAgrees DEF PopTask
  <2>3. CASE ended' = ended
    BY <1>1, <2>3, UnmarkedAgrees DEF PopTask
  <2> QED
    BY <1>1, <2>2, <2>3 DEF PopTask
<1>2. CASE Extract(w)
  BY <1>2, UnmarkedAgrees DEF Extract
<1>3. CASE MarkDone(w)
  <2>1. c \in Calls /\ record[c] \in Records /\ ColumnsAgree(record[c])
    BY <1>3, JobIsACall DEF MarkDone, RecordsAgree
  <2>2. \A d \in Calls : d # c => /\ ended'[d]["done"] = ended[d]["done"]
                                 /\ ended'[d]["failed"] = ended[d]["failed"]
    BY <1>3, OneMoreEnd, EndNames DEF MarkDone
  <2>3. CASE record' = record /\ ended' = ended
    BY <2>3, UnmarkedAgrees
  <2>4. CASE record' = [record EXCEPT ![c] = Done(record[c])]
    <3>1. record'[c] = Done(record[c]) /\ \A d \in Calls : d # c => record'[d] = record[d]
      BY <2>1, <2>4 DEF ExtractorTypeOK
    <3>2. ColumnsAgree(record'[c]) /\ Remembers(record'[c], ended'[c])
      BY <2>1, <3>1, MarkedRowsAgree
    <3> HIDE DEF c
    <3>3. \A d \in Calls \ {c} : ColumnsAgree(record'[d]) /\ Remembers(record'[d], ended'[d])
      BY <2>2, <3>1, SameEndsRemembered DEF RecordsAgree
    <3> QED
      BY <3>2, <3>3 DEF RecordsAgree
  <2> QED
    BY <1>3, <2>3, <2>4 DEF MarkDone, MaybeMark, Mark
<1>4. CASE MarkFailed(w)
  <2>1. c \in Calls /\ record[c] \in Records /\ ColumnsAgree(record[c]) /\ Remembers(record[c], ended[c])
    BY <1>4, JobIsACall DEF MarkFailed, RecordsAgree
  <2>2. \A d \in Calls : d # c => /\ ended'[d]["done"] = ended[d]["done"]
                                 /\ ended'[d]["failed"] = ended[d]["failed"]
    BY <1>4, OneMoreEnd, EndNames DEF MarkFailed
  <2>5. ended'[c]["done"] = ended[c]["done"]
    BY <1>4, <2>1, OneMoreEnd, EndNames DEF MarkFailed
  <2>3. CASE record' = [record EXCEPT ![c] = Failed(record[c])]
    <3>1. record'[c] = Failed(record[c]) /\ \A d \in Calls : d # c => record'[d] = record[d]
      BY <2>1, <2>3 DEF ExtractorTypeOK
    <3>2. ColumnsAgree(record'[c]) /\ Remembers(record'[c], ended'[c])
      <4> DEFINE ends == ended[c]
                 later == ended'[c]
      <4>1. Remembers(record[c], ends) /\ later["done"] = ends["done"]
        BY <2>1, <2>5
      <4> HIDE DEF c, ends, later
      <4>2. Remembers(Failed(record[c]), later) /\ ColumnsAgree(Failed(record[c]))
        BY <2>1, <4>1, MarkedRowsAgree
      <4> QED
        BY <3>1, <4>2 DEF later
    <3> HIDE DEF c
    <3>3. \A d \in Calls \ {c} : ColumnsAgree(record'[d]) /\ Remembers(record'[d], ended'[d])
      BY <2>2, <3>1, SameEndsRemembered DEF RecordsAgree
    <3> QED
      BY <3>2, <3>3 DEF RecordsAgree
  <2>4. CASE record' = record /\ End(w, "unmarked")
    BY <1>4, <2>4, OneMoreEnd, EndNames, UnmarkedAgrees DEF MarkFailed
  <2> QED
    BY <1>4, <2>3, <2>4 DEF MarkFailed, MaybeMark, Mark
<1> QED
  BY <1>1, <1>2, <1>3, <1>4 DEF ExtractStep

LEMMA InterruptAgrees ==
  ASSUME ExtractorTypeOK, RecordsAgree, NEW w \in Workers, Interrupt(w)
  PROVE  RecordsAgree'
BY OneMoreEnd, EndNames, UnmarkedAgrees DEF Interrupt, extractVars

-----------------------------------------------------------------------------
(* The supervisor, and the two together.                                   *)

\* The clients are open until the process is down, and an extract loop that
\* has ended holds no task.
OpenUntilDown == \A p \in Processes : open[p] <=> phase[p] \notin {"stopped", "crashed"}
EndedIsIdle == \A p \in Processes : task[p]["extract"] = "ended" => pc[p] = "idle"

\* The invariant that is inductive.
IInv == TypeOK /\ NoLoopOutlivesItsClients /\ RecordsAgree /\ OpenUntilDown /\ EndedIsIdle

LEMMA InitEstablishes == Init => IInv
<1> SUFFICES ASSUME Init PROVE IInv
  OBVIOUS
<1>1. ExtractorTypeOK
  BY DEF Init, ExtractorInit, ExtractorTypeOK, Records
<1>2. SupervisorTypeOK
  BY DEF Init, SupervisorInit, SupervisorTypeOK, Phases, TaskStates
<1>3. RecordsAgree
  BY EndNames DEF Init, ExtractorInit, RecordsAgree, ColumnsAgree, Remembers, Messages
<1>4. NoLoopOutlivesItsClients /\ OpenUntilDown /\ EndedIsIdle
  BY ProcessAssumption
  DEF Init, ExtractorInit, SupervisorInit, NoLoopOutlivesItsClients, OpenUntilDown, EndedIsIdle
<1> QED
  BY <1>1, <1>2, <1>3, <1>4 DEF IInv, TypeOK

\* What the rest of the process needs to know of a step of the extract loop.
LEMMA OthersStay ==
  ASSUME ExtractorTypeOK, NEW w \in Workers, ExtractStep(w) \/ Interrupt(w)
  PROVE  /\ \A v \in Workers : v # w => pc'[v] = pc[v]
         /\ Interrupt(w) => pc'[w] = "idle"
BY DEF ExtractorTypeOK, ExtractStep, PopTask, Extract, MarkDone, MarkFailed, End,
   Interrupt, extractVars

SupervisorStep(p) ==
  \/ Start(p) \/ Signal(p) \/ CancelAll(p) \/ Close(p) \/ Crash(p)
  \/ \E l \in Loops : TaskEnds(p, l)

LEMMA SupervisorType ==
  ASSUME SupervisorTypeOK, NEW p \in Processes, SupervisorStep(p)
  PROVE  SupervisorTypeOK'
<1> USE DEF SupervisorTypeOK, Phases, TaskStates
<1>1. CASE Start(p)
  BY <1>1 DEF Start
<1>2. CASE Signal(p)
  BY <1>2 DEF Signal
<1>3. CASE CancelAll(p)
  BY <1>3 DEF CancelAll
<1>4. CASE Close(p)
  BY <1>4 DEF Close
<1>5. CASE Crash(p)
  BY <1>5 DEF Crash
<1>6. ASSUME NEW l \in Loops, TaskEnds(p, l) PROVE SupervisorTypeOK'
  <2>1. task[p] \in [Loops -> TaskStates]
    OBVIOUS
  <2>2. [task[p] EXCEPT ![l] = "ended"] \in [Loops -> TaskStates]
    BY <2>1
  <2> QED
    BY <1>6, <2>2 DEF TaskEnds
<1> QED
  BY <1>1, <1>2, <1>3, <1>4, <1>5, <1>6 DEF SupervisorStep

\* A step of the supervisor alone, or with the interruption of its loop.
LEMMA SupervisorStepPreserves ==
  ASSUME IInv, NEW p \in Processes, SupervisorStep(p),
         Interrupt(p) \/ (UNCHANGED extractVars /\ ~Crash(p) /\ ~TaskEnds(p, "extract"))
  PROVE  IInv'
<1> USE DEF IInv
<1>1. ExtractorTypeOK' /\ RecordsAgree'
  <2>1. CASE Interrupt(p)
    BY <2>1, InterruptType, InterruptAgrees, ProcessAssumption DEF TypeOK
  <2>2. CASE UNCHANGED extractVars
    BY <2>2 DEF TypeOK, ExtractorTypeOK, extractVars, RecordsAgree
  <2> QED
    BY <2>1, <2>2
<1>2. SupervisorTypeOK'
  BY SupervisorType DEF TypeOK
<1>3. \A q \in Processes : pc'[q] = pc[q] \/ pc'[q] = "idle"
  BY OthersStay, ProcessAssumption DEF TypeOK, extractVars
<1>4. OpenUntilDown'
  BY DEF TypeOK, SupervisorTypeOK, SupervisorStep, OpenUntilDown,
     Start, Signal, CancelAll, Close, Crash, TaskEnds
<1>5. EndedIsIdle'
  <2> SUFFICES ASSUME NEW q \in Processes, task'[q]["extract"] = "ended"
               PROVE  pc'[q] = "idle"
    BY DEF EndedIsIdle
  <2>1. CASE task[q]["extract"] = "ended"
    BY <1>3, <2>1 DEF EndedIsIdle
  <2>2. CASE task[q]["extract"] # "ended"
    <3>1. q = p /\ (Crash(p) \/ TaskEnds(p, "extract"))
      BY <2>2, ProcessAssumption DEF TypeOK, SupervisorTypeOK, SupervisorStep,
         Start, Signal, CancelAll, Close, Crash, TaskEnds
    <3> QED
      BY <3>1, OthersStay, ProcessAssumption DEF TypeOK
  <2> QED
    BY <2>1, <2>2
<1>6. NoLoopOutlivesItsClients'
  <2> SUFFICES ASSUME NEW q \in Processes, ~open'[q]
               PROVE  \A l \in Loops : task'[q][l] = "ended"
    BY <1>5, ProcessAssumption DEF NoLoopOutlivesItsClients, EndedIsIdle
  <2> QED
    BY DEF TypeOK, SupervisorTypeOK, SupervisorStep, OpenUntilDown, NoLoopOutlivesItsClients,
       Start, Signal, CancelAll, Close, Crash, TaskEnds
<1> QED
  BY <1>1, <1>2, <1>4, <1>5, <1>6 DEF TypeOK

LEMMA PushTaskPreserves ==
  ASSUME IInv, NEW m \in Messages, PushTask(m), UNCHANGED supervisorVars
  PROVE  IInv'
<1>1. ExtractorTypeOK'
  BY PushTaskType DEF IInv, TypeOK
<1>2. UNCHANGED <<record, ended, pc, phase, task, open, stops>>
  BY DEF PushTask, supervisorVars
<1> QED
  BY <1>1, <1>2 DEF IInv, TypeOK, SupervisorTypeOK, NoLoopOutlivesItsClients, RecordsAgree,
     OpenUntilDown, EndedIsIdle

LEMMA RunsPreserves ==
  ASSUME IInv, NEW p \in Processes, Runs(p)
  PROVE  IInv'
<1>1. p \in Workers /\ "extract" \in Loops
  BY ProcessAssumption
<1>2. ExtractorTypeOK' /\ RecordsAgree'
  BY <1>1, ExtractStepType, ExtractStepAgrees DEF IInv, TypeOK, Runs
<1>3. UNCHANGED <<phase, task, open, stops>>
  BY DEF Runs, supervisorVars
<1>4. \A q \in Processes : q # p => pc'[q] = pc[q]
  BY <1>1, OthersStay, ProcessAssumption DEF IInv, TypeOK, Runs
<1>5. open[p] /\ task[p]["extract"] # "ended"
  BY <1>1 DEF Runs, IInv, NoLoopOutlivesItsClients
<1> QED
  BY <1>2, <1>3, <1>4, <1>5
  DEF IInv, TypeOK, SupervisorTypeOK, NoLoopOutlivesItsClients, OpenUntilDown, EndedIsIdle

LEMMA UnansweredPreserves ==
  ASSUME IInv, NEW p \in Processes, Unanswered(p)
  PROVE  IInv'
<1> DEFINE m == Head(queue)
<1>1. /\ ExtractorTypeOK /\ m \in Messages /\ Calls \subseteq Messages
      /\ queue' \in Seq(Messages) /\ ended' = [ended EXCEPT ![m]["unanswered"] = @ + 1]
      /\ UNCHANGED <<record, pc, job, pushes, phase, task, open, stops>>
  BY DEF IInv, TypeOK, Unanswered, PopUnanswered, supervisorVars, ExtractorTypeOK, Messages
<1> HIDE DEF m
<1>2. ExtractorTypeOK'
  <2>1. ended[m] \in [Ends -> Nat] /\ ended[m]["unanswered"] + 1 \in Nat
    BY <1>1, EndNames DEF ExtractorTypeOK
  <2>2. [ended[m] EXCEPT !["unanswered"] = @ + 1] \in [Ends -> Nat]
    BY <2>1
  <2>3. ended' \in [Messages -> [Ends -> Nat]]
    BY <1>1, <2>2 DEF ExtractorTypeOK
  <2>4. QED
    BY <1>1, <2>3 DEF ExtractorTypeOK
<1>3. RecordsAgree'
  BY <1>1, OneMore, EndNames, UnmarkedAgrees DEF IInv
<1>4. QED
  BY <1>1, <1>2, <1>3 DEF IInv, TypeOK, SupervisorTypeOK, NoLoopOutlivesItsClients,
     OpenUntilDown, EndedIsIdle

\* Only TaskEnds ends a single task, and only Crash a process.
LEMMA PlainSteps ==
  ASSUME IInv, NEW p \in Processes
  PROVE  /\ Start(p) \/ Signal(p) \/ CancelAll(p) \/ Close(p) =>
              ~Crash(p) /\ ~TaskEnds(p, "extract")
         /\ \A l \in Loops \ {"extract"} : TaskEnds(p, l) =>
              ~Crash(p) /\ ~TaskEnds(p, "extract")
<1>1. task[p] \in [Loops -> TaskStates] /\ "extract" \in Loops /\ phase[p] \in Phases
  BY ProcessAssumption DEF IInv, TypeOK, SupervisorTypeOK
<1>2. ASSUME TaskEnds(p, "extract") PROVE task[p]["extract"] = "cancelled" /\ phase' = phase
             /\ task'[p]["extract"] = "ended"
  BY <1>1, <1>2 DEF TaskEnds, IInv, TypeOK, SupervisorTypeOK
<1>3. ASSUME Crash(p) PROVE phase'[p] = "crashed" /\ phase[p] # "crashed"
  BY <1>3 DEF Crash, IInv, TypeOK, SupervisorTypeOK
<1>4. Start(p) \/ Signal(p) \/ CancelAll(p) \/ Close(p) =>
        phase'[p] \notin {phase[p], "crashed"}
  BY DEF Start, Signal, CancelAll, Close, IInv, TypeOK, SupervisorTypeOK
<1>5. \A l \in Loops \ {"extract"} : TaskEnds(p, l) =>
        phase' = phase /\ task'[p]["extract"] = task[p]["extract"]
  BY <1>1 DEF TaskEnds, IInv, TypeOK, SupervisorTypeOK
<1> QED
  BY <1>2, <1>3, <1>4, <1>5

LEMMA StepPreserves == IInv /\ [Next]_vars => IInv'
<1> SUFFICES ASSUME IInv, [Next]_vars PROVE IInv'
  OBVIOUS
<1>1. ASSUME NEW m \in Messages, PushTask(m), UNCHANGED supervisorVars PROVE IInv'
  BY <1>1, PushTaskPreserves
<1>2. ASSUME NEW p \in Processes, Start(p) \/ Signal(p) \/ CancelAll(p) \/ Close(p),
             UNCHANGED extractVars
      PROVE  IInv'
  BY <1>2, PlainSteps, SupervisorStepPreserves DEF SupervisorStep
<1>3. ASSUME NEW p \in Processes, Runs(p) PROVE IInv'
  BY <1>3, RunsPreserves
<1>4. ASSUME NEW p \in Processes, ShutdownStep(p) PROVE IInv'
  <2>1. CASE (CancelAll(p) \/ Close(p)) /\ UNCHANGED extractVars
    BY <1>2, <2>1
  <2>2. ASSUME NEW l \in Loops \ {"extract"}, TaskEnds(p, l), UNCHANGED extractVars
        PROVE  IInv'
    BY <2>2, PlainSteps, SupervisorStepPreserves DEF SupervisorStep
  <2>3. CASE TaskEnds(p, "extract") /\ Interrupt(p)
    BY <2>3, SupervisorStepPreserves, ProcessAssumption DEF SupervisorStep
  <2> QED
    BY <1>4, <2>1, <2>2, <2>3 DEF ShutdownStep
<1>5. ASSUME NEW p \in Processes, Dies(p) PROVE IInv'
  BY <1>5, SupervisorStepPreserves DEF Dies, SupervisorStep
<1>6. ASSUME NEW p \in Processes, Restarts(p) PROVE IInv'
  BY <1>2, <1>6 DEF Restarts
<1>7. CASE UNCHANGED vars
  BY <1>7 DEF vars, extractVars, supervisorVars, IInv, TypeOK, ExtractorTypeOK, SupervisorTypeOK,
     NoLoopOutlivesItsClients, RecordsAgree, OpenUntilDown, EndedIsIdle
<1>8. ASSUME NEW p \in Processes, Unanswered(p) PROVE IInv'
  BY <1>8, UnansweredPreserves
<1> QED
  BY <1>1, <1>2, <1>3, <1>4, <1>5, <1>6, <1>7, <1>8 DEF Next

\* The invariant holds in every reachable state.
THEOREM Invariance == Spec => []IInv
BY InitEstablishes, StepPreserves, PTL DEF Spec

\* Records, messages, tasks and phases keep their types (Extractor and
\* Supervisor), for any number of processes, calls, pushes and stops.
THEOREM TypeCorrect == Spec => []TypeOK
BY Invariance, PTL DEF IInv

\* No loop runs, and no extraction is under way, in a process whose clients
\* are closed (the shutdown of main.py), however often it is stopped,
\* crashes and starts again.
THEOREM ClientsOutliveLoops == Spec => []NoLoopOutlivesItsClients
BY Invariance, PTL DEF IInv

\* The columns extract_status, extracted and extract_error agree, however many
\* processes mark the same call, in whatever order, with lost answers of
\* commits, crashes and cancellations in between (post_call_extractor.py).
THEOREM RecordsStayConsistent == Spec => []RecordsAgree
BY Invariance, PTL DEF IInv

-----------------------------------------------------------------------------
(* The account of pushes: where a message is, and how it ended.            *)

LEMMA WaitingIsPlaces ==
  /\ \A m : Waiting(m) = Cardinality(Places(queue, m))
  /\ \A m : Waiting(m)' = Cardinality(Places(queue', m))
BY DEF Waiting, Places

Holders(m) == {w \in Workers : job[w] = m}

LEMMA HoldersAreFinite ==
  \A m : IsFiniteSet(Holders(m)) /\ InHand(m) = Cardinality(Holders(m)) /\ InHand(m) \in Nat
<1>1. \A m : IsFiniteSet(Holders(m)) /\ Cardinality(Holders(m)) \in Nat
  BY ExtractorAssumption, FS_Subset, FS_CardinalityType DEF Holders
<1>2. QED
  BY <1>1 DEF InHand, Holders

LEMMA AccountTypes ==
  ASSUME ExtractorTypeOK, NEW m \in Messages
  PROVE  Waiting(m) \in Nat /\ InHand(m) \in Nat /\ EndedTimes(m) \in Nat /\ pushes[m] \in Nat
<1>1. Waiting(m) \in Nat
  BY WaitingIsPlaces, PlacesAreFinite DEF ExtractorTypeOK
<1>2. EndedTimes(m) \in Nat
  <2>1. ended[m] \in [Ends -> Nat]
    BY DEF ExtractorTypeOK
  <2>2. QED
    BY <2>1, EndNames DEF EndedTimes
<1>3. QED
  BY <1>1, <1>2, HoldersAreFinite DEF ExtractorTypeOK

\* A worker that takes a message is one more that holds it.
LEMMA TakenInHand ==
  ASSUME ExtractorTypeOK, NEW w \in Workers, NEW m \in Messages, job[w] # m,
         job' = [job EXCEPT ![w] = m], job[w] = NoTask
  PROVE  \A n \in Messages : InHand(n)' = InHand(n) + IF n = m THEN 1 ELSE 0
<1> SUFFICES ASSUME NEW n \in Messages
             PROVE  InHand(n)' = InHand(n) + IF n = m THEN 1 ELSE 0
  OBVIOUS
<1>1. /\ InHand(n)' = Cardinality({v \in Workers : job'[v] = n})
      /\ IsFiniteSet(Holders(n)) /\ InHand(n) = Cardinality(Holders(n))
      /\ InHand(n) \in Nat
  BY HoldersAreFinite DEF InHand
<1>2. n # NoTask /\ job'[w] = m /\ \A v \in Workers \ {w} : job'[v] = job[v]
  BY ExtractorAssumption DEF ExtractorTypeOK
<1>3. CASE n = m
  <2>1. {v \in Workers : job'[v] = n} = Holders(n) \cup {w} /\ w \notin Holders(n)
    BY <1>2, <1>3 DEF Holders
  <2>2. QED
    BY <1>1, <1>3, <2>1, FS_AddElement
<1>4. CASE n # m
  <2>1. {v \in Workers : job'[v] = n} = Holders(n)
    BY <1>2, <1>4 DEF Holders
  <2>2. InHand(n)' = InHand(n)
    BY <1>1, <2>1, Zenon
  <2>3. QED
    BY <1>1, <1>4, <2>2
<1>5. QED
  BY <1>3, <1>4

\* A worker that is done with a message is one less.
LEMMA PutFromHand ==
  ASSUME ExtractorTypeOK, NEW w \in Workers, job[w] # NoTask,
         job' = [job EXCEPT ![w] = NoTask]
  PROVE  \A n \in Messages :
           /\ n = job[w] => InHand(n)' = InHand(n) - 1
           /\ n # job[w] => InHand(n)' = InHand(n)
<1> SUFFICES ASSUME NEW n \in Messages
             PROVE  /\ n = job[w] => InHand(n)' = InHand(n) - 1
                    /\ n # job[w] => InHand(n)' = InHand(n)
  OBVIOUS
<1>1. /\ InHand(n)' = Cardinality({v \in Workers : job'[v] = n})
      /\ IsFiniteSet(Holders(n)) /\ InHand(n) = Cardinality(Holders(n))
      /\ InHand(n) \in Nat
  BY HoldersAreFinite DEF InHand
<1>2. n # NoTask /\ job'[w] = NoTask /\ \A v \in Workers \ {w} : job'[v] = job[v]
  BY ExtractorAssumption DEF ExtractorTypeOK
<1>3. CASE n = job[w]
  <2>1. {v \in Workers : job'[v] = n} = Holders(n) \ {w} /\ w \in Holders(n)
    BY <1>2, <1>3 DEF Holders
  <2>2. QED
    BY <1>1, <1>3, <2>1, FS_RemoveElement
<1>4. CASE n # job[w]
  <2>1. {v \in Workers : job'[v] = n} = Holders(n)
    BY <1>2, <1>4 DEF Holders
  <2>2. InHand(n)' = InHand(n)
    BY <1>1, <2>1, Zenon
  <2>3. QED
    BY <1>1, <1>4, <2>2
<1>5. QED
  BY <1>3, <1>4

LEMMA EndedOnceMore ==
  ASSUME ExtractorTypeOK, NEW m \in Messages, NEW e \in Ends,
         ended' = [ended EXCEPT ![m][e] = @ + 1]
  PROVE  \A n \in Messages : EndedTimes(n)' = EndedTimes(n) + IF n = m THEN 1 ELSE 0
<1> SUFFICES ASSUME NEW n \in Messages
             PROVE  EndedTimes(n)' = EndedTimes(n) + IF n = m THEN 1 ELSE 0
  OBVIOUS
<1>1. ended[m] \in [Ends -> Nat] /\ ended[n] \in [Ends -> Nat]
  BY DEF ExtractorTypeOK
<1>2. \A f \in Ends : ended'[n][f] = ended[n][f] + IF n = m /\ f = e THEN 1 ELSE 0
  <2>1. ended'[m] = [ended[m] EXCEPT ![e] = @ + 1]
    BY DEF ExtractorTypeOK
  <2>2. n # m => ended'[n] = ended[n]
    BY DEF ExtractorTypeOK
  <2>3. QED
    BY <1>1, <2>1, <2>2
<1>3. /\ ended[n]["done"] \in Nat /\ ended[n]["failed"] \in Nat /\ ended[n]["unmarked"] \in Nat
      /\ ended[n]["dropped"] \in Nat /\ ended[n]["lost"] \in Nat
      /\ ended[n]["unanswered"] \in Nat
  BY <1>1, EndNames
<1>4. /\ \A f \in Ends : n # m => ended'[n][f] = ended[n][f]
      /\ \A f \in Ends : f # e => ended'[n][f] = ended[n][f]
      /\ n = m => ended'[n][e] = ended[n][e] + 1
  BY <1>1, <1>2, EndNames
<1>5. CASE n = m
  BY <1>3, <1>4, <1>5, EndNames DEF EndedTimes, Ends
<1>6. CASE n # m
  BY <1>3, <1>4, <1>6, EndNames DEF EndedTimes
<1>7. QED
  BY <1>5, <1>6

\* One message leaves one hand and ends in one way.
LEMMA EndAccount ==
  ASSUME ExtractorTypeOK, EachPushOnce, NEW w \in Workers, pc[w] # "idle", NEW e \in Ends,
         End(w, e), queue' = queue
  PROVE  EachPushOnce'
<1> SUFFICES ASSUME NEW n \in Messages
             PROVE  pushes'[n] = Waiting(n)' + InHand(n)' + EndedTimes(n)'
  BY DEF EachPushOnce
<1> DEFINE m == job[w]
<1>1. m \in Messages /\ m # NoTask
  BY JobIsACall, ExtractorAssumption DEF Messages
<1>2. /\ job' = [job EXCEPT ![w] = NoTask]
      /\ ended' = [ended EXCEPT ![m][e] = @ + 1]
      /\ pushes' = pushes
  BY DEF End
<1>3. /\ n = m => InHand(n)' = InHand(n) - 1
      /\ n # m => InHand(n)' = InHand(n)
  BY <1>1, <1>2, PutFromHand
<1>4. EndedTimes(n)' = EndedTimes(n) + IF n = m THEN 1 ELSE 0
  BY <1>1, <1>2, EndedOnceMore
<1>5. Waiting(n)' = Waiting(n)
  BY WaitingIsPlaces
<1>6. /\ Waiting(n) \in Nat /\ InHand(n) \in Nat /\ EndedTimes(n) \in Nat
      /\ pushes[n] = Waiting(n) + InHand(n) + EndedTimes(n)
  BY AccountTypes DEF EachPushOnce
<1>7. QED
  BY <1>2, <1>3, <1>4, <1>5, <1>6

LEMMA PushAccount ==
  ASSUME ExtractorTypeOK, EachPushOnce, NEW m \in Messages, PushTask(m)
  PROVE  EachPushOnce'
<1> SUFFICES ASSUME NEW n \in Messages
             PROVE  pushes'[n] = Waiting(n)' + InHand(n)' + EndedTimes(n)'
  BY DEF EachPushOnce
<1>1. Waiting(n)' = Waiting(n) + IF m = n THEN 1 ELSE 0
  BY WaitingIsPlaces, PushedPlaces DEF PushTask, ExtractorTypeOK
<1>2. InHand(n)' = InHand(n) /\ EndedTimes(n)' = EndedTimes(n)
  BY DEF PushTask, InHand, EndedTimes
<1>3. pushes'[n] = pushes[n] + IF m = n THEN 1 ELSE 0
  BY DEF PushTask, ExtractorTypeOK
<1>4. /\ Waiting(n) \in Nat /\ InHand(n) \in Nat /\ EndedTimes(n) \in Nat
      /\ pushes[n] = Waiting(n) + InHand(n) + EndedTimes(n)
  BY AccountTypes DEF EachPushOnce
<1>5. QED
  BY <1>1, <1>2, <1>3, <1>4

LEMMA PopAccount ==
  ASSUME ExtractorTypeOK, EachPushOnce, NEW w \in Workers, PopTask(w)
  PROVE  EachPushOnce'
<1> SUFFICES ASSUME NEW n \in Messages
             PROVE  pushes'[n] = Waiting(n)' + InHand(n)' + EndedTimes(n)'
  BY DEF EachPushOnce
<1> DEFINE m == Head(queue)
           one == IF n = m THEN 1 ELSE 0
<1>1. /\ queue \in Seq(Messages) /\ queue # <<>> /\ m \in Messages
      /\ queue' = Tail(queue) /\ pushes' = pushes /\ job[w] = NoTask
  BY DEF PopTask, ExtractorTypeOK
<1>2. Waiting(n) = Waiting(n)' + one
  BY <1>1, WaitingIsPlaces, PoppedPlaces
<1>3. Waiting(n)' \in Nat
  <2>1. Tail(queue) \in Seq(Messages)
    BY <1>1
  <2>2. Cardinality(Places(Tail(queue), n)) \in Nat
    BY <2>1, PlacesAreFinite
  <2>3. QED
    BY <1>1, <2>2, WaitingIsPlaces
<1>4. /\ InHand(n) \in Nat /\ EndedTimes(n) \in Nat
      /\ pushes[n] = Waiting(n) + InHand(n) + EndedTimes(n)
  BY AccountTypes DEF EachPushOnce
<1>5. CASE m \in Malformed
  <2>1. InHand(n)' = InHand(n)
    BY <1>5 DEF PopTask, InHand
  <2>2. EndedTimes(n)' = EndedTimes(n) + one
    BY <1>1, <1>5, EndedOnceMore, EndNames DEF PopTask
  <2>3. QED
    BY <1>1, <1>2, <1>3, <1>4, <2>1, <2>2
<1>6. CASE m \notin Malformed
  <2>1. InHand(n)' = InHand(n) + one
    BY <1>1, <1>6, TakenInHand, ExtractorAssumption DEF PopTask
  <2>2. EndedTimes(n)' = EndedTimes(n)
    BY <1>6 DEF PopTask, EndedTimes
  <2>3. QED
    BY <1>1, <1>2, <1>3, <1>4, <2>1, <2>2
<1>7. QED
  BY <1>5, <1>6

LEMMA UnansweredAccount ==
  ASSUME ExtractorTypeOK, EachPushOnce, NEW w \in Workers, PopUnanswered(w)
  PROVE  EachPushOnce' /\ Losses' = Losses
<1> DEFINE m == Head(queue)
<1>1. /\ queue \in Seq(Messages) /\ queue # <<>> /\ m \in Messages
      /\ queue' = Tail(queue) /\ pushes' = pushes /\ job' = job
      /\ ended' = [ended EXCEPT ![m]["unanswered"] = @ + 1]
  BY DEF PopUnanswered, ExtractorTypeOK
<1>2. ASSUME NEW n \in Messages
      PROVE  pushes'[n] = Waiting(n)' + InHand(n)' + EndedTimes(n)'
  <2> DEFINE one == IF n = m THEN 1 ELSE 0
  <2>1. Waiting(n) = Waiting(n)' + one
    BY <1>1, WaitingIsPlaces, PoppedPlaces
  <2>2. Waiting(n)' \in Nat
    <3>1. Tail(queue) \in Seq(Messages)
      BY <1>1
    <3>2. Cardinality(Places(Tail(queue), n)) \in Nat
      BY <3>1, PlacesAreFinite
    <3>3. QED
      BY <1>1, <3>2, WaitingIsPlaces
  <2>3. /\ InHand(n) \in Nat /\ EndedTimes(n) \in Nat
        /\ pushes[n] = Waiting(n) + InHand(n) + EndedTimes(n)
    BY AccountTypes DEF EachPushOnce
  <2>4. InHand(n)' = InHand(n)
    BY <1>1 DEF InHand
  <2>5. EndedTimes(n)' = EndedTimes(n) + one
    BY <1>1, EndedOnceMore, EndNames
  <2>6. QED
    BY <1>1, <2>1, <2>2, <2>3, <2>4, <2>5
<1>3. \A n \in Messages : ended'[n]["lost"] = ended[n]["lost"]
  BY <1>1, OneMore, EndNames
<1>4. QED
  BY <1>2, <1>3 DEF EachPushOnce, Losses

\* Nothing of the account changes.
LEMMA SameAccount ==
  ASSUME EachPushOnce, UNCHANGED <<queue, job, pushes, ended>>
  PROVE  EachPushOnce'
BY DEF EachPushOnce, Waiting, InHand, EndedTimes

LEMMA StepAccount ==
  ASSUME ExtractorTypeOK, EachPushOnce, NEW w \in Workers, ExtractStep(w) \/ Interrupt(w)
  PROVE  EachPushOnce'
<1>1. CASE PopTask(w)
  BY <1>1, PopAccount
<1>2. CASE Extract(w)
  BY <1>2, SameAccount DEF Extract
<1>3. CASE MarkDone(w)
  <2>1. CASE End(w, "done")
    BY <1>3, <2>1, EndAccount, EndNames DEF MarkDone
  <2>2. CASE UNCHANGED <<job, pushes, ended>>
    BY <1>3, <2>2, SameAccount DEF MarkDone
  <2>3. QED
    BY <1>3, <2>1, <2>2 DEF MarkDone
<1>4. CASE MarkFailed(w)
  BY <1>4, EndAccount, EndNames DEF MarkFailed
<1>5. CASE Interrupt(w)
  BY <1>5, EndAccount, SameAccount, EndNames DEF Interrupt, extractVars
<1>6. QED
  BY <1>1, <1>2, <1>3, <1>4, <1>5 DEF ExtractStep

-----------------------------------------------------------------------------
(* The account of losses: a task is lost by a cancellation or a crash, and *)
(* a stop of a process may cost the task it held, once.                    *)

\* The processes that were told to stop and whose extract loop has not ended.
Doomed == {p \in Processes : phase[p] \in {"signalled", "stopping"} /\ task[p]["extract"] # "ended"}

\* Tasks run until _main cancels them, which it does when it stops.
TasksFollowPhases ==
  \A p \in Processes :
    /\ phase[p] \in {"running", "signalled"} => task[p]["extract"] = "running"
    /\ task[p]["extract"] = "cancelled" => phase[p] = "stopping"

\* Every stop either costs one task at most or has not cost it yet.
StopsPayForLosses ==
  /\ IsFiniteSet(Losses)
  /\ Cardinality(Losses) + Cardinality(Doomed) <= stops

AccountInv == EachPushOnce /\ TasksFollowPhases /\ StopsPayForLosses

LEMMA DoomedAreFinite ==
  \A S \in SUBSET Processes : IsFiniteSet(S) /\ Cardinality(S) \in Nat
BY ExtractorAssumption, ProcessAssumption, FS_Subset, FS_CardinalityType

LEMMA DoomedPlaces == Doomed \in SUBSET Processes
BY DEF Doomed

LEMMA InitAccount == Init => AccountInv
<1> SUFFICES ASSUME Init PROVE AccountInv
  OBVIOUS
<1>1. EachPushOnce
  <2> SUFFICES ASSUME NEW m \in Messages
               PROVE  pushes[m] = Waiting(m) + InHand(m) + EndedTimes(m)
    BY DEF EachPushOnce
  <2>1. pushes[m] = 0 /\ EndedTimes(m) = 0
    BY EndNames DEF Init, ExtractorInit, EndedTimes
  <2>2. {i \in DOMAIN queue : queue[i] = m} = {} /\ {w \in Workers : job[w] = m} = {}
    BY ExtractorAssumption DEF Init, ExtractorInit
  <2>3. Waiting(m) = 0 /\ InHand(m) = 0
    BY <2>2, FS_EmptySet DEF Waiting, InHand
  <2>4. QED
    BY <2>1, <2>3
<1>2. TasksFollowPhases
  BY ProcessAssumption DEF Init, SupervisorInit, TasksFollowPhases
<1>3. StopsPayForLosses
  <2>1. \A m \in Messages : 1..ended[m]["lost"] = {}
    BY EndNames DEF Init, ExtractorInit
  <2>2. Losses = {}
    BY <2>1 DEF Losses
  <2>3. Doomed = {} /\ stops = 0
    BY DEF Init, SupervisorInit, Doomed
  <2>4. QED
    BY <2>2, <2>3, FS_EmptySet DEF StopsPayForLosses
<1>4. QED
  BY <1>1, <1>2, <1>3 DEF AccountInv

\* One more loss is one more element.
LEMMA OneLoss ==
  ASSUME ExtractorTypeOK, NEW m \in Messages, IsFiniteSet(Losses),
         ended' = [ended EXCEPT ![m]["lost"] = @ + 1]
  PROVE  IsFiniteSet(Losses') /\ Cardinality(Losses') = Cardinality(Losses) + 1
<1> DEFINE n == ended[m]["lost"]
           x == <<m, n + 1>>
<1>1. /\ \A k \in Messages : ended[k]["lost"] \in Nat
      /\ ended'[m]["lost"] = n + 1
      /\ \A k \in Messages : k # m => ended'[k]["lost"] = ended[k]["lost"]
  <2>1. ended \in [Messages -> [Ends -> Nat]]
    BY DEF ExtractorTypeOK
  <2>2. ended'[m] = [ended[m] EXCEPT !["lost"] = @ + 1]
    BY <2>1
  <2>3. QED
    BY <2>1, <2>2, EndNames
<1>2. \A y : y \in Losses <=>
        \E k \in Messages, i \in Nat : 1 <= i /\ i <= ended[k]["lost"] /\ y = <<k, i>>
  BY <1>1 DEF Losses
<1>3. \A y : y \in Losses' <=>
        \E k \in Messages, i \in Nat : 1 <= i /\ i <= ended'[k]["lost"] /\ y = <<k, i>>
  BY <1>1 DEF Losses
<1>4. x \notin Losses
  BY <1>1, <1>2
<1>5. Losses' = Losses \cup {x}
  <2>1. \A k \in Messages, i \in Nat :
          (1 <= i /\ i <= ended'[k]["lost"]) <=>
            (1 <= i /\ i <= ended[k]["lost"]) \/ <<k, i>> = x
    BY <1>1
  <2>2. \A y : y \in Losses' <=> y \in Losses \/ y = x
    <3>1. ASSUME NEW y, y \in Losses' PROVE y \in Losses \/ y = x
      BY <1>2, <1>3, <2>1, <3>1
    <3>2. ASSUME NEW y, y \in Losses PROVE y \in Losses'
      BY <1>2, <1>3, <2>1, <3>2
    <3>3. x \in Losses'
      BY <1>1, <1>3
    <3>4. QED
      BY <3>1, <3>2, <3>3
  <2>3. QED
    BY <2>2, Zenon
<1>6. QED
  BY <1>4, <1>5, FS_AddElement

LEMMA SameLosses ==
  ASSUME \A m \in Messages : ended'[m]["lost"] = ended[m]["lost"]
  PROVE  Losses' = Losses
BY DEF Losses

\* Only an interruption of an extraction under way loses its task.
LEMMA ExtractLosesNothing ==
  ASSUME ExtractorTypeOK, NEW w \in Workers, ExtractStep(w)
  PROVE  Losses' = Losses
<1>1. CASE ended' = ended
  BY <1>1, SameLosses
<1>2. CASE \E m \in Messages, e \in Ends \ {"lost"} : ended' = [ended EXCEPT ![m][e] = @ + 1]
  BY <1>2, OneMore, EndNames, SameLosses
<1>3. CASE PopTask(w)
  BY <1>1, <1>2, <1>3, EndNames DEF PopTask, ExtractorTypeOK
<1>4. CASE \E e \in Ends \ {"lost"} : End(w, e) /\ pc[w] # "idle"
  BY <1>2, <1>4, JobIsACall DEF End, Messages
<1>5. QED
  BY <1>1, <1>3, <1>4, EndNames DEF ExtractStep, Extract, MarkDone, MarkFailed

LEMMA InterruptLosesOne ==
  ASSUME ExtractorTypeOK, IsFiniteSet(Losses), NEW w \in Workers, Interrupt(w)
  PROVE  /\ IsFiniteSet(Losses') /\ Cardinality(Losses) \in Nat
         /\ Cardinality(Losses') \in {Cardinality(Losses), Cardinality(Losses) + 1}
<1>1. Cardinality(Losses) \in Nat
  BY FS_CardinalityType
<1>2. CASE pc[w] = "idle"
  BY <1>1, <1>2, SameLosses DEF Interrupt, extractVars
<1>3. CASE pc[w] # "idle"
  BY <1>1, <1>3, OneLoss, JobIsACall DEF Interrupt, End, Messages
<1>4. QED
  BY <1>2, <1>3

\* What each step of a process does to those that still owe a loss.
LEMMA DoomedStep ==
  ASSUME SupervisorTypeOK, TasksFollowPhases, NEW p \in Processes
  PROVE  /\ Start(p) \/ CancelAll(p) \/ Close(p) => Doomed' \in SUBSET Doomed /\ stops' = stops
         /\ Signal(p) => Doomed' \in SUBSET (Doomed \cup {p}) /\ stops' = stops + 1
         /\ Crash(p) => Doomed' \in SUBSET Doomed /\ stops' = stops + 1
         /\ \A l \in Loops : TaskEnds(p, l) => Doomed' \in SUBSET Doomed /\ stops' = stops
         /\ TaskEnds(p, "extract") => p \in Doomed /\ p \notin Doomed'
<1>1. /\ phase \in [Processes -> Phases] /\ task \in [Processes -> [Loops -> TaskStates]]
      /\ "extract" \in Loops
  BY ProcessAssumption DEF SupervisorTypeOK
<1>2. ASSUME Start(p) \/ Close(p)
      PROVE  Doomed' \in SUBSET Doomed /\ stops' = stops
  BY <1>1, <1>2 DEF Start, Close, Doomed
<1>3. ASSUME CancelAll(p)
      PROVE  Doomed' \in SUBSET Doomed /\ stops' = stops
  BY <1>1, <1>3 DEF CancelAll, Doomed, TasksFollowPhases
<1>4. ASSUME Signal(p)
      PROVE  Doomed' \in SUBSET (Doomed \cup {p}) /\ stops' = stops + 1
  BY <1>1, <1>4 DEF Signal, Doomed
<1>5. ASSUME Crash(p)
      PROVE  Doomed' \in SUBSET Doomed /\ stops' = stops + 1
  BY <1>1, <1>5 DEF Crash, Doomed
<1>6. ASSUME NEW l \in Loops, TaskEnds(p, l)
      PROVE  Doomed' \in SUBSET Doomed /\ stops' = stops
  <2>1. \A q \in Processes : task[q]["extract"] = "ended" => task'[q]["extract"] = "ended"
    BY <1>1, <1>6 DEF TaskEnds
  <2>2. QED
    BY <1>6, <2>1 DEF TaskEnds, Doomed
<1>7. ASSUME TaskEnds(p, "extract")
      PROVE  p \in Doomed /\ p \notin Doomed'
  BY <1>1, <1>7 DEF TaskEnds, Doomed, TasksFollowPhases
<1>8. QED
  BY <1>2, <1>3, <1>4, <1>5, <1>6, <1>7

LEMMA SupervisorKeepsPhases ==
  ASSUME SupervisorTypeOK, TasksFollowPhases, NEW p \in Processes, SupervisorStep(p)
  PROVE  TasksFollowPhases'
<1>1. /\ phase \in [Processes -> Phases] /\ task \in [Processes -> [Loops -> TaskStates]]
      /\ "extract" \in Loops
  BY ProcessAssumption DEF SupervisorTypeOK
<1>2. CASE Start(p) \/ Signal(p) \/ CancelAll(p) \/ Crash(p)
  BY <1>1, <1>2 DEF TasksFollowPhases, Start, Signal, CancelAll, Crash
<1>3. CASE Close(p)
  BY <1>1, <1>3 DEF TasksFollowPhases, Close
<1>4. ASSUME NEW l \in Loops, TaskEnds(p, l)
      PROVE  TasksFollowPhases'
  <2>1. \A q \in Processes :
          \/ task'[q]["extract"] = task[q]["extract"]
          \/ task'[q]["extract"] = "ended" /\ task[q]["extract"] = "cancelled"
    BY <1>1, <1>4 DEF TaskEnds
  <2>2. phase' = phase
    BY <1>4 DEF TaskEnds
  <2>3. QED
    BY <2>1, <2>2 DEF TasksFollowPhases
<1>5. QED
  BY <1>2, <1>3, <1>4 DEF SupervisorStep

LEMMA SupervisorStepAccount ==
  ASSUME IInv, AccountInv, NEW p \in Processes, SupervisorStep(p),
         \/ Interrupt(p) /\ (Crash(p) \/ TaskEnds(p, "extract"))
         \/ UNCHANGED extractVars /\ ~Crash(p) /\ ~TaskEnds(p, "extract")
  PROVE  AccountInv'
<1>1. /\ ExtractorTypeOK /\ SupervisorTypeOK /\ EachPushOnce /\ TasksFollowPhases
      /\ IsFiniteSet(Losses) /\ Cardinality(Losses) + Cardinality(Doomed) <= stops
      /\ p \in Workers /\ stops \in Nat
  BY ProcessAssumption DEF IInv, TypeOK, AccountInv, StopsPayForLosses, SupervisorTypeOK
<1>2. EachPushOnce'
  <2>1. CASE Interrupt(p)
    BY <1>1, <2>1, StepAccount
  <2>2. CASE UNCHANGED extractVars
    BY <1>1, <2>2, SameAccount DEF extractVars
  <2>3. QED
    BY <2>1, <2>2
<1>3. TasksFollowPhases'
  BY <1>1, SupervisorKeepsPhases
<1>4. /\ Cardinality(Losses) \in Nat /\ Cardinality(Doomed) \in Nat /\ IsFiniteSet(Doomed)
  BY <1>1, DoomedAreFinite, DoomedPlaces, FS_CardinalityType
<1>5. StopsPayForLosses'
  <2>1. CASE Interrupt(p) /\ (Crash(p) \/ TaskEnds(p, "extract"))
    <3>1. /\ IsFiniteSet(Losses')
          /\ Cardinality(Losses') <= Cardinality(Losses) + 1 /\ Cardinality(Losses') \in Nat
      BY <1>1, <1>4, <2>1, InterruptLosesOne
    <3>2. CASE Crash(p)
      <4>1. Doomed' \in SUBSET Doomed /\ stops' = stops + 1
        BY <1>1, <3>2, DoomedStep
      <4>2. Cardinality(Doomed') <= Cardinality(Doomed) /\ Cardinality(Doomed') \in Nat
        BY <1>4, <4>1, FS_Subset, FS_CardinalityType
      <4>3. QED
        BY <1>1, <1>4, <3>1, <4>1, <4>2 DEF StopsPayForLosses
    <3>3. CASE TaskEnds(p, "extract")
      <4>1. Doomed' \in SUBSET (Doomed \ {p}) /\ stops' = stops /\ p \in Doomed
        <5>1. Doomed' \in SUBSET Doomed /\ stops' = stops
          BY <1>1, <3>3, DoomedStep, ProcessAssumption
        <5>2. p \in Doomed /\ p \notin Doomed'
          BY <1>1, <3>3, DoomedStep
        <5>3. QED
          BY <5>1, <5>2
      <4>2. IsFiniteSet(Doomed \ {p}) /\ Cardinality(Doomed \ {p}) = Cardinality(Doomed) - 1
        BY <1>4, <4>1, FS_RemoveElement
      <4>3. Cardinality(Doomed') <= Cardinality(Doomed) - 1 /\ Cardinality(Doomed') \in Nat
        BY <4>1, <4>2, FS_Subset, FS_CardinalityType
      <4>4. QED
        BY <1>1, <1>4, <3>1, <4>1, <4>3 DEF StopsPayForLosses
    <3>4. QED
      BY <2>1, <3>2, <3>3
  <2>2. CASE UNCHANGED extractVars /\ ~Crash(p) /\ ~TaskEnds(p, "extract")
    <3>1. Losses' = Losses
      BY <2>2, SameLosses DEF extractVars
    <3>2. CASE Signal(p)
      <4>1. Doomed' \in SUBSET (Doomed \cup {p}) /\ stops' = stops + 1
        BY <1>1, <3>2, DoomedStep
      <4>2. /\ IsFiniteSet(Doomed \cup {p})
            /\ Cardinality(Doomed \cup {p}) <= Cardinality(Doomed) + 1
            /\ Cardinality(Doomed \cup {p}) \in Nat
        <5>1. /\ IsFiniteSet(Doomed \cup {p})
              /\ Cardinality(Doomed \cup {p}) =
                   IF p \in Doomed THEN Cardinality(Doomed) ELSE Cardinality(Doomed) + 1
          BY <1>4, FS_AddElement, Zenon
        <5>2. QED
          BY <1>4, <5>1
      <4>3. Cardinality(Doomed') <= Cardinality(Doomed) + 1 /\ Cardinality(Doomed') \in Nat
        <5>1. Cardinality(Doomed') <= Cardinality(Doomed \cup {p}) /\ IsFiniteSet(Doomed')
          BY <4>1, <4>2, FS_Subset
        <5>2. QED
          BY <1>4, <4>2, <5>1, FS_CardinalityType
      <4>4. QED
        BY <1>1, <1>4, <3>1, <4>1, <4>3 DEF StopsPayForLosses
    <3>3. CASE ~Signal(p)
      <4>1. Doomed' \in SUBSET Doomed /\ stops' = stops
        BY <1>1, <2>2, <3>3, DoomedStep DEF SupervisorStep
      <4>2. Cardinality(Doomed') <= Cardinality(Doomed) /\ Cardinality(Doomed') \in Nat
        BY <1>4, <4>1, FS_Subset, FS_CardinalityType
      <4>3. QED
        BY <1>1, <1>4, <3>1, <4>1, <4>2 DEF StopsPayForLosses
    <3>4. QED
      BY <3>2, <3>3
  <2>3. QED
    BY <2>1, <2>2
<1>6. QED
  BY <1>2, <1>3, <1>5 DEF AccountInv

\* A step that leaves the processes alone.
LEMMA OtherStepAccount ==
  ASSUME AccountInv, EachPushOnce', Losses' = Losses, UNCHANGED supervisorVars
  PROVE  AccountInv'
BY DEF AccountInv, TasksFollowPhases, StopsPayForLosses, Doomed, supervisorVars

LEMMA AccountInductive == IInv /\ AccountInv /\ [Next]_vars => AccountInv'
<1> SUFFICES ASSUME IInv, AccountInv, [Next]_vars PROVE AccountInv'
  OBVIOUS
<1> USE ProcessAssumption
<1>1. ExtractorTypeOK /\ EachPushOnce
  BY DEF IInv, TypeOK, AccountInv
<1>2. ASSUME NEW m \in Messages, PushTask(m), UNCHANGED supervisorVars PROVE AccountInv'
  BY <1>1, <1>2, PushAccount, SameLosses, OtherStepAccount DEF PushTask
<1>3. ASSUME NEW p \in Processes, Start(p) \/ Signal(p) \/ CancelAll(p) \/ Close(p),
             UNCHANGED extractVars
      PROVE  AccountInv'
  BY <1>3, PlainSteps, SupervisorStepAccount DEF SupervisorStep
<1>4. ASSUME NEW p \in Processes, Runs(p) PROVE AccountInv'
  BY <1>1, <1>4, StepAccount, ExtractLosesNothing, OtherStepAccount DEF Runs
<1>5. ASSUME NEW p \in Processes, ShutdownStep(p) PROVE AccountInv'
  <2>1. CASE (CancelAll(p) \/ Close(p)) /\ UNCHANGED extractVars
    BY <1>3, <2>1
  <2>2. ASSUME NEW l \in Loops \ {"extract"}, TaskEnds(p, l), UNCHANGED extractVars
        PROVE  AccountInv'
    BY <2>2, PlainSteps, SupervisorStepAccount DEF SupervisorStep
  <2>3. CASE TaskEnds(p, "extract") /\ Interrupt(p)
    BY <2>3, SupervisorStepAccount DEF SupervisorStep
  <2>4. QED
    BY <1>5, <2>1, <2>2, <2>3 DEF ShutdownStep
<1>6. ASSUME NEW p \in Processes, Dies(p) PROVE AccountInv'
  BY <1>6, SupervisorStepAccount DEF Dies, SupervisorStep
<1>7. ASSUME NEW p \in Processes, Restarts(p) PROVE AccountInv'
  BY <1>3, <1>7 DEF Restarts
<1>8. CASE UNCHANGED vars
  BY <1>1, <1>8, SameAccount, SameLosses, OtherStepAccount DEF vars, extractVars
<1>9. ASSUME NEW p \in Processes, Unanswered(p) PROVE AccountInv'
  BY <1>1, <1>9, UnansweredAccount, OtherStepAccount DEF Unanswered
<1>10. QED
  BY <1>2, <1>3, <1>4, <1>5, <1>6, <1>7, <1>8, <1>9 DEF Next

\* Both parts of the invariant hold in every reachable state.
THEOREM AccountInvariance == Spec => [](IInv /\ AccountInv)
BY InitEstablishes, StepPreserves, InitAccount, AccountInductive, PTL DEF Spec

\* Over any number of crashes, shutdowns, restarts and lost replies of BLPOP,
\* every extract task that was pushed waits, is in one worker's hand or has
\* ended in one way, and of those a worker took no more are lost than
\* processes were stopped.
THEOREM TasksAreAccounted == Spec => []TasksAccounted
<1>1. IInv /\ AccountInv => TasksAccounted
  <2> SUFFICES ASSUME IInv, AccountInv PROVE Cardinality(Losses) <= stops
    BY DEF TasksAccounted, AccountInv
  <2>1. /\ Cardinality(Losses) \in Nat /\ Cardinality(Doomed) \in Nat /\ stops \in Nat
    BY DoomedAreFinite, DoomedPlaces, FS_CardinalityType
    DEF AccountInv, StopsPayForLosses, IInv, TypeOK, SupervisorTypeOK
  <2>2. QED
    BY <2>1 DEF AccountInv, StopsPayForLosses
<1>2. QED
  BY <1>1, AccountInvariance, PTL
=============================================================================
