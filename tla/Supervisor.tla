------------------------------ MODULE Supervisor ------------------------------
(***************************************************************************)
(* The life of a worker process: _main of isales_worker/main.py creates    *)
(* the clients and one asyncio task per loop, waits for a signal, cancels  *)
(* the tasks, awaits them and closes the clients.  The service manager     *)
(* (deploy/isales-worker.service) starts a process again that failed.      *)
(***************************************************************************)
EXTENDS Naturals

CONSTANTS
  Processes,
  Loops,     \* callend_loop, retry_loop, metrics_loop, extract_loop
  MaxStops   \* bound on signals and crashes

VARIABLES
  phase,  \* where _main is
  task,   \* the asyncio task of each loop
  open,   \* whether the http, redis and database clients are open
  stops   \* history: signals and crashes

supervisorVars == <<phase, task, open, stops>>

Phases == {"running", "signalled", "stopping", "stopped", "crashed"}
TaskStates == {"running", "cancelled", "ended"}

SupervisorInit ==
  /\ phase = [p \in Processes |-> "stopped"]
  /\ task = [p \in Processes |-> [l \in Loops |-> "ended"]]
  /\ open = [p \in Processes |-> FALSE]
  /\ stops = 0

-----------------------------------------------------------------------------
Start(p) ==
  /\ phase[p] \in {"stopped", "crashed"}
  /\ phase' = [phase EXCEPT ![p] = "running"]
  /\ task' = [task EXCEPT ![p] = [l \in Loops |-> "running"]]
  /\ open' = [open EXCEPT ![p] = TRUE]
  /\ UNCHANGED stops

\* SIGINT or SIGTERM sets the stop event; a second one changes nothing.
Signal(p) ==
  /\ phase[p] = "running"
  /\ stops < MaxStops
  /\ phase' = [phase EXCEPT ![p] = "signalled"]
  /\ stops' = stops + 1
  /\ UNCHANGED <<task, open>>

\* Mutant: a loop is missing in the tuple of tasks to cancel.
CancelAllButExtract(p) ==
  /\ phase[p] = "signalled"
  /\ phase' = [phase EXCEPT ![p] = "stopping"]
  /\ task' = [task EXCEPT ![p] =
                [l \in Loops |-> IF l = "extract" THEN @[l] ELSE "cancelled"]]
  /\ UNCHANGED <<open, stops>>

CancelAll(p) ==
  /\ phase[p] = "signalled"
  /\ phase' = [phase EXCEPT ![p] = "stopping"]
  /\ task' = [task EXCEPT ![p] = [l \in Loops |-> "cancelled"]]
  /\ UNCHANGED <<open, stops>>

\* CancelledError is raised where the task awaits, and every loop lets it out.
TaskEnds(p, l) ==
  /\ task[p][l] = "cancelled"
  /\ task' = [task EXCEPT ![p][l] = "ended"]
  /\ UNCHANGED <<phase, open, stops>>

\* Mutant: the clients are closed without awaiting the cancelled tasks.
CloseAtOnce(p) ==
  /\ phase[p] = "stopping"
  /\ phase' = [phase EXCEPT ![p] = "stopped"]
  /\ open' = [open EXCEPT ![p] = FALSE]
  /\ UNCHANGED <<task, stops>>

\* Every task was awaited: the clients are closed and _main returns.
Close(p) ==
  /\ phase[p] = "stopping"
  /\ \A l \in Loops : task[p][l] = "ended"
  /\ phase' = [phase EXCEPT ![p] = "stopped"]
  /\ open' = [open EXCEPT ![p] = FALSE]
  /\ UNCHANGED <<task, stops>>

\* The process dies, while it runs or during its shutdown.
Crash(p) ==
  /\ phase[p] \notin {"stopped", "crashed"}
  /\ stops < MaxStops
  /\ phase' = [phase EXCEPT ![p] = "crashed"]
  /\ task' = [task EXCEPT ![p] = [l \in Loops |-> "ended"]]
  /\ open' = [open EXCEPT ![p] = FALSE]
  /\ stops' = stops + 1

-----------------------------------------------------------------------------
SupervisorTypeOK ==
  /\ phase \in [Processes -> Phases]
  /\ task \in [Processes -> [Loops -> TaskStates]]
  /\ open \in [Processes -> BOOLEAN]
  /\ stops \in Nat
=============================================================================
