---------------------------- MODULE CallbackDispatch ----------------------------
(***************************************************************************)
(* Stage 2 of one message at the level of the event loop: process_callbacks *)
(* of isales_worker/callbacks.py gathers one dispatch_callback task per    *)
(* enabled config, and all of them use one AsyncSession.                   *)
(*                                                                         *)
(* The session (SQLAlchemy) is external: a flush suspends its task until   *)
(* the database answers, and a flush that starts while another one is      *)
(* under way raises "Session is already flushing".                         *)
(***************************************************************************)
EXTENDS Naturals, FiniteSets

CONSTANTS
  Configs,    \* the enabled callback_configs of the campaign
  Scenarios,  \* what may happen to them: functions from Configs to Kinds
  Nobody

\* The trigger does not match; the payload does not render; something raises
\* between the two flushes (decrypt, httpx.InvalidURL); a request is made.
Kinds == {"no_match", "unrenderable", "raising", "sendable"}

ASSUME DispatchAssumption ==
  /\ IsFiniteSet(Configs)
  /\ Scenarios \subseteq [Configs -> Kinds]
  /\ Nobody \notin Configs

VARIABLES
  kind,       \* the scenario
  step,       \* where each task is
  flushing,   \* the task whose flush is under way
  rows,       \* configs with a callback_log in the open transaction
  committed,  \* configs with a callback_log in the database
  stage,      \* process_callbacks: "gather", "commit", "ended" or "failed"
  sent        \* history: requests made for each config

vars == <<kind, step, flushing, rows, committed, stage, sent>>

Steps == {"created", "inserting", "sending", "saving", "returned", "raised"}

Init ==
  /\ kind \in Scenarios
  /\ step = [k \in Configs |-> "created"]
  /\ flushing = Nobody
  /\ rows = {}
  /\ committed = {}
  /\ stage = "gather"
  /\ sent = [k \in Configs |-> 0]

-----------------------------------------------------------------------------
\* Mutant: the session knows that a flush is under way, not whose.
FlushUnowned(k, free, waiting) ==
  IF free
  THEN flushing' = TRUE /\ step' = [step EXCEPT ![k] = waiting]
  ELSE step' = [step EXCEPT ![k] = "raised"] /\ UNCHANGED flushing

\* session.flush(): the task waits at `waiting`, or raises.
Flush(k, free, waiting) ==
  IF free
  THEN flushing' = k /\ step' = [step EXCEPT ![k] = waiting]
  ELSE step' = [step EXCEPT ![k] = "raised"] /\ UNCHANGED flushing

\* The task evaluates its trigger and inserts a PENDING row.
Begin(k) ==
  /\ step[k] = "created"
  /\ IF kind[k] = "no_match"
     THEN /\ step' = [step EXCEPT ![k] = "returned"]
          /\ UNCHANGED <<flushing, rows>>
     ELSE /\ Flush(k, flushing = Nobody, "inserting")
          /\ rows' = rows \cup {k}
  /\ UNCHANGED <<kind, committed, stage, sent>>

\* gather put all tasks in the ready queue, so every one of them has begun
\* before the event loop polls for an answer of the database.
AllBegun == \A k \in Configs : step[k] # "created"

\* The INSERT is done: render, decrypt and sign run without a suspension.
Inserted(k) ==
  /\ step[k] = "inserting"
  /\ AllBegun
  /\ CASE kind[k] = "unrenderable" -> Flush(k, TRUE, "saving")
       [] kind[k] = "raising" -> /\ step' = [step EXCEPT ![k] = "raised"]
                                 /\ flushing' = Nobody
       [] kind[k] = "sendable" -> /\ step' = [step EXCEPT ![k] = "sending"]
                                  /\ flushing' = Nobody
  /\ UNCHANGED <<kind, rows, committed, stage, sent>>

\* The receiver answered, or the request failed: the row gets its status.
\* What raises here (a retry policy that does not parse) raises after the
\* request was made.
Responds(k) ==
  /\ step[k] = "sending"
  /\ sent' = [sent EXCEPT ![k] = @ + 1]
  /\ \/ Flush(k, flushing = Nobody, "saving")
     \/ step' = [step EXCEPT ![k] = "raised"] /\ UNCHANGED flushing
  /\ UNCHANGED <<kind, rows, committed, stage>>

Saved(k) ==
  /\ step[k] = "saving"
  /\ step' = [step EXCEPT ![k] = "returned"]
  /\ flushing' = Nobody
  /\ UNCHANGED <<kind, rows, committed, stage, sent>>

\* A task of a closed session fails at its next use of it.
ClosedUnderneath(k) ==
  /\ stage = "failed"
  /\ step[k] \in {"inserting", "saving"}
  /\ step' = [step EXCEPT ![k] = "raised"]
  /\ flushing' = Nobody
  /\ UNCHANGED <<kind, rows, committed, stage, sent>>

Task(k) == Begin(k) \/ Inserted(k) \/ Responds(k) \/ Saved(k) \/ ClosedUnderneath(k)

\* Mutants: what is in the session is committed in spite of the exception;
\* the gather raises when all tasks have raised; it does not wait for them.
GatherRaisesCommits ==
  /\ stage = "gather" /\ AllBegun
  /\ \E k \in Configs : step[k] = "raised"
  /\ stage' = "failed" /\ committed' = rows
  /\ UNCHANGED <<kind, step, flushing, rows, sent>>
GatherRaisesLast ==
  /\ stage = "gather" /\ \A k \in Configs : step[k] = "raised"
  /\ stage' = "failed" /\ rows' = {}
  /\ UNCHANGED <<kind, step, flushing, committed, sent>>
GatherReturnsAtOnce ==
  /\ stage = "gather" /\ AllBegun
  /\ stage' = "commit"
  /\ UNCHANGED <<kind, step, flushing, rows, committed, sent>>

\* return_exceptions=False: the first exception ends the gather; the other
\* tasks are not cancelled.  The session is closed, its transaction undone.
GatherRaises ==
  /\ stage = "gather"
  /\ AllBegun
  /\ \E k \in Configs : step[k] = "raised"
  /\ stage' = "failed"
  /\ rows' = {}
  /\ UNCHANGED <<kind, step, flushing, committed, sent>>

GatherReturns ==
  /\ stage = "gather"
  /\ \A k \in Configs : step[k] = "returned"
  /\ stage' = "commit"
  /\ UNCHANGED <<kind, step, flushing, rows, committed, sent>>

Commit ==
  /\ stage = "commit"
  /\ stage' = "ended"
  /\ committed' = rows
  /\ UNCHANGED <<kind, step, flushing, rows, sent>>

CommitFails ==
  /\ stage = "commit"
  /\ stage' = "failed"
  /\ rows' = {}
  /\ UNCHANGED <<kind, step, flushing, committed, sent>>

Stage == GatherRaises \/ GatherReturns \/ Commit \/ CommitFails

Next == Stage \/ \E k \in Configs : Task(k)

Spec == Init /\ [][Next]_vars

\* Requests time out, the database answers, the event loop runs ready tasks.
FairSpec == Spec /\ WF_vars(Stage) /\ \A k \in Configs : WF_vars(Task(k))

-----------------------------------------------------------------------------
Matching == {k \in Configs : kind[k] # "no_match"}

\* Tasks, session and stage are in states of the kinds above.
TypeOK ==
  /\ kind \in Scenarios
  /\ step \in [Configs -> Steps]
  /\ flushing \in Configs \cup {Nobody}
  /\ rows \subseteq Configs /\ committed \subseteq Configs
  /\ stage \in {"gather", "commit", "ended", "failed"}
  /\ sent \in [Configs -> Nat]

\* The log is all or nothing: a stage that ends logs exactly the configs that
\* matched, and made one request for each of them that could be sent; one
\* that fails logs none, whatever it has sent; no request goes out twice.
LogsAreAllOrNothing ==
  /\ stage = "ended" =>
       /\ committed = Matching
       /\ {k \in Configs : sent[k] > 0} = {k \in Configs : kind[k] = "sendable"}
  /\ stage # "ended" => committed = {}
  /\ \A k \in Configs : sent[k] <= 1

\* The gather does not cancel the siblings of a task that raised: a request
\* may leave when stage 2 is over and stage 3 at work.  It comes from a stage
\* that failed, it is the only request the stage ever makes however many
\* configs matched, and another config's exception ended the gather.
StrayRequestIsAlone ==
  [][sent' # sent /\ stage \in {"ended", "failed"} =>
       /\ stage = "failed" /\ \A k \in Configs : sent[k] = 0
       /\ \E j, k \in Matching : j # k /\ step[j] = "raised" /\ sent'[k] > 0]_vars

\* Stage 2 always ends.
StageEnds == <>(stage \in {"ended", "failed"})

\* Two configs that match one call are never both served, although the
\* docstring runs "all enabled callback_configs for the call's campaign
\* concurrently": the second task's flush finds the first one under way and
\* raises, whatever the receivers answer, and nothing is ever logged.
TwoMatchesFail ==
  Cardinality(Matching) >= 2 /\ AllBegun =>
    /\ \E k \in Configs : step[k] = "raised"
    /\ stage \in {"gather", "failed"} /\ committed = {}

=============================================================================
