----------------------------- MODULE WorkerProcess -----------------------------
(***************************************************************************)
(* Worker processes and the extract loop they run: Supervisor and          *)
(* Extractor composed.  A loop takes steps while its task runs; once the   *)
(* task is cancelled the next thing it sees is CancelledError, and when    *)
(* the process dies it sees nothing.  The other loops only end here; what  *)
(* cancellation does to their data is the Crash of CallPipeline and the    *)
(* Abort of CallbackRetry.                                                 *)
(***************************************************************************)
EXTENDS Extractor, Supervisor

ASSUME ProcessAssumption ==
  /\ Processes = Workers
  /\ "extract" \in Loops
  /\ MaxStops \in Nat

vars == <<extractVars, supervisorVars>>

Init == ExtractorInit /\ SupervisorInit

Runs(p) == task[p]["extract"] = "running" /\ ExtractStep(p) /\ UNCHANGED supervisorVars

\* A command that is under way when the task is cancelled may still be served.
Unanswered(p) ==
  task[p]["extract"] # "ended" /\ PopUnanswered(p) /\ UNCHANGED supervisorVars

\* Shutdown as _main goes through it.
ShutdownStep(p) ==
  \/ (CancelAll(p) \/ Close(p)) /\ UNCHANGED extractVars
  \/ \E l \in Loops \ {"extract"} : TaskEnds(p, l) /\ UNCHANGED extractVars
  \/ TaskEnds(p, "extract") /\ Interrupt(p)

Dies(p) == Crash(p) /\ Interrupt(p)

\* Restart=on-failure: a crashed process is started again, a stopped one by
\* an operator only.
Restarts(p) == phase[p] = "crashed" /\ Start(p) /\ UNCHANGED extractVars

Next ==
  \/ \E m \in Messages : PushTask(m) /\ UNCHANGED supervisorVars
  \/ \E p \in Processes :
       \/ (Start(p) \/ Signal(p)) /\ UNCHANGED extractVars
       \/ Runs(p) \/ Unanswered(p) \/ ShutdownStep(p) \/ Dies(p) \/ Restarts(p)

Spec == Init /\ [][Next]_vars

\* The event loop runs what is ready, BLPOP returns when there is a task, and
\* the service manager restarts; pushes, signals, crashes, lost replies and
\* the operator's start are not forced.
FairSpec ==
  /\ Spec
  /\ \A p \in Processes :
       WF_vars(Runs(p)) /\ WF_vars(ShutdownStep(p)) /\ WF_vars(Restarts(p))

-----------------------------------------------------------------------------
TypeOK == ExtractorTypeOK /\ SupervisorTypeOK

\* No loop's task runs, and no extraction is under way, in a process whose
\* clients are closed: _main awaits every loop before it closes what they
\* use.  (Tasks a loop started itself, in the gather of stage 2, it does not.)
NoLoopOutlivesItsClients ==
  \A p \in Processes :
    ~open[p] => (\A l \in Loops : task[p][l] = "ended") /\ pc[p] = "idle"

\* The account of the extract queue over crashes, restarts and lost replies:
\* every push is somewhere, and of the tasks that reached a worker a stop of
\* a process costs one at most.  (A task in a lost reply reached none.)
Losses == UNION {{m} \X (1..ended[m]["lost"]) : m \in Messages}
TasksAccounted == EachPushOnce /\ Cardinality(Losses) <= stops

\* A process that was asked to stop gets there, whatever its loops were doing.
ShutdownCompletes ==
  \A p \in Processes : phase[p] = "signalled" ~> phase[p] \in {"stopped", "crashed"}

\* Once nothing is pushed or stopped any more, the extract queue is worked
\* off, unless every process was told to stop.  A task that was lost, in a
\* worker or with a reply, is off the queue too.
QueueDrains ==
  <>[](\/ queue = <<>> /\ \A w \in Workers : pc[w] = "idle"
       \/ \A p \in Processes : phase[p] = "stopped")
=============================================================================
