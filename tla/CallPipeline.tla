----------------------------- MODULE CallPipeline -----------------------------
(***************************************************************************)
(* The CallEnded consumer (isales_worker/callend.py) with the stages it    *)
(* runs: summarize.py, callbacks.py (at the level of "a webhook was sent", *)
(* "a log row was committed") and lead_state.py.  Workers are processes    *)
(* that run callend_loop, each stage in a transaction of its own, over one *)
(* Redis queue and one database.                                           *)
(*                                                                         *)
(* The environment is modelled from what the code relies on: the scheduler *)
(* claims a lead that waits (status 'calling', a new call_record), the     *)
(* engine ends the call and LPUSHes its message, and may deliver a message *)
(* again.                                                                  *)
(***************************************************************************)
EXTENDS TranscriptMarkers, FiniteSets

CONSTANTS
  Leads, Calls, Workers,
  Endings,        \* how a call may end: a subset of EndingRecords
  CallbackOn,     \* the goal fields for which the webhook's trigger is true
  MaxDuplicates,  \* bound on deliveries of one message beyond the first
  NoCall, NoLead, NoEnding

EndingRecords ==
  [cause : HangupCauses,       \* required in the message
   transcript : Seq(Events),  \* call_record.transcript, from the engine
   missing : {"nothing", "call", "lead", "campaign"},  \* a row deleted since
   valid : BOOLEAN]           \* the message validates (schema_version, fields)

ASSUME PipelineAssumption ==
  /\ IsFiniteSet(Workers)
  /\ Endings \subseteq EndingRecords
  /\ CallbackOn \subseteq Summaries
  /\ MaxDuplicates \in Nat
  /\ NoCall \notin Calls
  /\ NoLead \notin Leads
  /\ NoEnding \notin EndingRecords
  /\ NoSummary \notin Summaries

VARIABLES
  lead,        \* table lead
  caller,      \* call_record.lead_id, NoLead for a call not placed yet
  ending,      \* the call_record and the message, NoEnding before the end
  summary,     \* table call_summary, by call_record_id
  logged,      \* table callback_log: committed rows of each call
  queue,       \* engine:worker:call-ended, its head first
  dlq,         \* worker:dlq
  pc,          \* where each worker is
  job,         \* the call whose message a worker holds
  seen,        \* the lead row apply_lead_state loaded
  view,        \* the call_summary row apply_lead_state loaded
  dials,       \* history: the calls placed for each lead, in order
  deliveries,  \* history: how often each message was pushed
  sent,        \* history: webhook requests sent for each call
  fate         \* history: how the deliveries of each message ended

database == <<lead, caller, ending, summary, logged>>
broker == <<queue, dlq>>
local == <<pc, job, seen, view>>
history == <<dials, deliveries, sent, fate>>
vars == <<database, broker, local, history>>

Stages ==
  {"idle", "dead_letter", "summarize", "insert", "callbacks", "send", "log",
   "load", "decide", "write"}

\* A delivery ends with the lead written, blocked by the guard, skipped for
\* a missing row, in the dead letter queue, or lost.
Fates == {"written", "blocked", "skipped", "dead_letter", "lost"}

Init ==
  /\ lead = [l \in Leads |-> NewLead]
  /\ caller = [c \in Calls |-> NoLead]
  /\ ending = [c \in Calls |-> NoEnding]
  /\ summary = [c \in Calls |-> NoSummary]
  /\ logged = [c \in Calls |-> 0]
  /\ queue = <<>>
  /\ dlq = {}
  /\ pc = [w \in Workers |-> "idle"]
  /\ job = [w \in Workers |-> NoCall]
  /\ seen = [w \in Workers |-> NewLead]
  /\ view = [w \in Workers |-> NoSummary]
  /\ dials = [l \in Leads |-> <<>>]
  /\ deliveries = [c \in Calls |-> 0]
  /\ sent = [c \in Calls |-> 0]
  /\ fate = [c \in Calls |-> {}]

-----------------------------------------------------------------------------
(* The environment.                                                        *)

Claim(l, c) ==
  /\ lead[l].status \in {"new"} \cup Redialled
  /\ caller[c] = NoLead
  /\ lead' = [lead EXCEPT ![l].status = "calling"]
  /\ caller' = [caller EXCEPT ![c] = l]
  /\ dials' = [dials EXCEPT ![l] = Append(@, c)]
  /\ UNCHANGED <<ending, summary, logged, broker, local, deliveries, sent, fate>>

Push(c) ==
  /\ queue' = <<c>> \o queue
  /\ deliveries' = [deliveries EXCEPT ![c] = @ + 1]

EndCall(c, e) ==
  /\ caller[c] # NoLead
  /\ ending[c] = NoEnding
  /\ ending' = [ending EXCEPT ![c] = e]
  /\ Push(c)
  /\ UNCHANGED <<lead, caller, summary, logged, dlq, local, dials, sent, fate>>

Redeliver(c) ==
  /\ deliveries[c] \in 1..MaxDuplicates
  /\ Push(c)
  /\ UNCHANGED <<database, dlq, local, dials, sent, fate>>

-----------------------------------------------------------------------------
(* The worker.                                                             *)

Ending(w) == ending[job[w]]
Missing(w, rows) == Ending(w).missing \in rows
Caller(w) == caller[job[w]]

\* The worker goes back to BLPOP; the message it held is gone from Redis.
Finish(w, f) ==
  /\ pc' = [pc EXCEPT ![w] = "idle"]
  /\ job' = [job EXCEPT ![w] = NoCall]
  /\ seen' = [seen EXCEPT ![w] = NewLead]
  /\ view' = [view EXCEPT ![w] = NoSummary]
  /\ fate' = [fate EXCEPT ![job[w]] = @ \cup {f}]
  /\ UNCHANGED <<dials, deliveries, sent>>

Goto(w, stage) ==
  /\ pc' = [pc EXCEPT ![w] = stage]
  /\ UNCHANGED <<job, seen, view, history>>

\* Mutant: the message is read and left in the list.
PopKeeps(w) ==
  /\ pc[w] = "idle" /\ queue # <<>>
  /\ job' = [job EXCEPT ![w] = Head(queue)]
  /\ pc' = [pc EXCEPT ![w] = "summarize"]
  /\ UNCHANGED <<database, broker, seen, view, history>>

\* schema_version is supported and the fields validate.
ValidatesAnything(c) == ending[c] # NoEnding
Validates(c) == ending[c].valid

Pop(w) ==
  /\ pc[w] = "idle"
  /\ queue # <<>>
  /\ job' = [job EXCEPT ![w] = Head(queue)]
  /\ queue' = Tail(queue)
  /\ pc' = [pc EXCEPT ![w] =
              IF Validates(Head(queue)) THEN "summarize" ELSE "dead_letter"]
  /\ UNCHANGED <<database, dlq, seen, view, history>>

DeadLetter(w) ==
  /\ pc[w] = "dead_letter"
  /\ dlq' = dlq \cup {job[w]}
  /\ Finish(w, "dead_letter")
  /\ UNCHANGED <<database, queue>>

\* An existing summary is returned as it is; no call row, no summary.
SummarizeRead(w) ==
  /\ pc[w] = "summarize"
  /\ Goto(w, IF summary[job[w]] # NoSummary \/ Missing(w, {"call"})
             THEN "callbacks" ELSE "insert")
  /\ UNCHANGED <<database, broker>>

\* The unique constraint refuses a second row: the stage fails, the next
\* one starts.
SummarizeInsert(w) ==
  /\ pc[w] = "insert"
  /\ summary' = [summary EXCEPT ![job[w]] =
                   IF @ = NoSummary
                   THEN LastRoleMarkers(Ending(w).transcript) ELSE @]
  /\ Goto(w, "callbacks")
  /\ UNCHANGED <<lead, caller, ending, logged, broker>>

\* What a trigger can read: a call without a summary looks like one whose
\* goal was not reached.
EvalContext(stored) ==
  IF stored = NoSummary THEN [goal_achieved |-> FALSE, goal_type |-> "none"] ELSE stored

EvaluateTrigger(context) == context \in CallbackOn

\* The trigger is evaluated on the rows loaded here.
CallbacksLoad(w) ==
  /\ pc[w] = "callbacks"
  /\ Goto(w, IF /\ EvaluateTrigger(EvalContext(summary[job[w]]))
                /\ ~Missing(w, {"call", "lead"})
             THEN "send" ELSE "load")
  /\ UNCHANGED <<database, broker>>

\* A payload that does not render is logged without a request.
CallbacksSend(w) ==
  /\ pc[w] = "send"
  /\ pc' = [pc EXCEPT ![w] = "log"]
  /\ \E rendered \in BOOLEAN :
       sent' = IF rendered THEN [sent EXCEPT ![job[w]] = @ + 1] ELSE sent
  /\ UNCHANGED <<database, broker, job, seen, view, dials, deliveries, fate>>

CallbacksCommit(w) ==
  /\ pc[w] = "log"
  /\ logged' = [logged EXCEPT ![job[w]] = @ + 1]
  /\ Goto(w, "load")
  /\ UNCHANGED <<lead, caller, ending, summary, broker>>

LoadCachedRow(w) == seen[w]
LoadRow(w) == lead[Caller(w)]

LeadLoad(w) ==
  /\ pc[w] = "load"
  /\ IF Missing(w, {"call", "lead", "campaign"})
     THEN Finish(w, "skipped")
     ELSE /\ pc' = [pc EXCEPT ![w] = "decide"]
          /\ seen' = [seen EXCEPT ![w] = LoadRow(w)]
          /\ UNCHANGED <<job, view, history>>
  /\ UNCHANGED <<database, broker>>

LeadDecide(w) ==
  /\ pc[w] = "decide"
  /\ pc' = [pc EXCEPT ![w] = "write"]
  /\ view' = [view EXCEPT ![w] = summary[job[w]]]
  /\ UNCHANGED <<database, broker, job, seen, history>>

DecisionWithoutEvents(w) ==
  DecideNext(seen[w], view[w], FALSE, Ending(w).cause)
Decision(w) ==
  DecideNext(seen[w], view[w], MarkedDoNotCall(Ending(w).transcript), Ending(w).cause)

\* UPDATE ... WHERE id = lead.id AND status = 'calling'.
GuardForgotten(row) == row.status \in LeadStatuses
GuardHolds(row) == row.status = "calling"

LeadWrite(w) ==
  /\ pc[w] = "write"
  /\ IF GuardHolds(lead[Caller(w)])
     THEN /\ lead' = [lead EXCEPT ![Caller(w)] = WriteBack(@, seen[w], Decision(w))]
          /\ Finish(w, "written")
     ELSE /\ Finish(w, "blocked")
          /\ UNCHANGED lead
  /\ UNCHANGED <<caller, ending, summary, logged, broker>>

\* Mutants: the exception ends the task; the callbacks stage is retried.
AfterFailureTaskEnds(stage) == "ended"
AfterFailureRetries(stage) ==
  CASE stage \in {"summarize", "insert"} -> "callbacks"
    [] stage \in {"callbacks", "send", "log"} -> "callbacks"
    [] OTHER -> "idle"

\* Where `except Exception` resumes when the current stage raises.
AfterFailure(stage) ==
  CASE stage \in {"summarize", "insert"} -> "callbacks"
    [] stage \in {"callbacks", "send", "log"} -> "load"
    [] OTHER -> "idle"

\* A stage raises before its commit: its transaction is rolled back.
StageFails(w) ==
  /\ pc[w] # "idle"
  /\ IF AfterFailure(pc[w]) = "idle"
     THEN Finish(w, "lost")
     ELSE Goto(w, AfterFailure(pc[w]))
  /\ UNCHANGED <<database, broker>>

\* The process dies, or the task is cancelled at an await: BLPOP already
\* removed the message, and the open transaction is rolled back.  A BLPOP that
\* raises after Redis popped leaves what a Pop and a Crash leave.
Crash(w) ==
  /\ pc[w] # "idle"
  /\ Finish(w, "lost")
  /\ UNCHANGED <<database, broker>>

-----------------------------------------------------------------------------
Environment ==
  \/ \E l \in Leads, c \in Calls : Claim(l, c)
  \/ \E c \in Calls, e \in Endings : EndCall(c, e)
  \/ \E c \in Calls : Redeliver(c)

\* What a worker does when nothing goes wrong.
Progress(w) ==
  \/ Pop(w) \/ DeadLetter(w)
  \/ SummarizeRead(w) \/ SummarizeInsert(w)
  \/ CallbacksLoad(w) \/ CallbacksSend(w) \/ CallbacksCommit(w)
  \/ LeadLoad(w) \/ LeadDecide(w) \/ LeadWrite(w)

Worker(w) == Progress(w) \/ StageFails(w) \/ Crash(w)

Next == Environment \/ \E w \in Workers : Worker(w)

Spec == Init /\ [][Next]_vars

\* The event loop runs a ready task and BLPOP returns when the list is not
\* empty; nothing makes the environment or a failure happen.
FairSpec == Spec /\ \A w \in Workers : WF_vars(Progress(w))

-----------------------------------------------------------------------------
Life == INSTANCE LeadLife WITH dials <- [l \in Leads |-> Len(dials[l])]

LastDial(l) == dials[l][Len(dials[l])]

\* Every variable holds rows, messages and stages of the kinds above.
TypeOK ==
  /\ lead \in [Leads -> LeadRows]
  /\ caller \in [Calls -> Leads \cup {NoLead}]
  /\ ending \in [Calls -> Endings \cup {NoEnding}]
  /\ summary \in [Calls -> Summaries \cup {NoSummary}]
  /\ logged \in [Calls -> Nat]
  /\ queue \in Seq(Calls)
  /\ dlq \subseteq Calls
  /\ pc \in [Workers -> Stages]
  /\ job \in [Workers -> Calls \cup {NoCall}]
  /\ seen \in [Workers -> LeadRows]
  /\ view \in [Workers -> Summaries \cup {NoSummary}]
  /\ dials \in [Leads -> Seq(Calls)]
  /\ deliveries \in [Calls -> Nat]
  /\ sent \in [Calls -> Nat]
  /\ fate \in [Calls -> SUBSET Fates]

\* Whatever is delivered twice, lost or interleaved, the counters the worker
\* writes from a row it read earlier never pass the campaign's limits, and a
\* lead that may still be called is below both.
CounterLimits ==
  \A l \in Leads : LiveRowBelowLimits(lead[l]) /\ RowWithinLimits(lead[l])

\* A lead in a terminal status is never written again, not by a worker that
\* loaded the row before it became terminal either: the guard of the UPDATE.
TerminalIsFinal ==
  [][\A l \in Leads : lead[l].status \in Terminal => lead'[l] = lead[l]]_vars

\* At most one webhook request and one callback_log row per delivery, and
\* none for what the call's only summary does not say: stage 1 commits before
\* stage 2 evaluates the triggers.  (A trigger that is true when no goal was
\* reached may fire before the summary is stored.)
WebhooksTellTheTruth ==
  \A c \in Calls :
    /\ sent[c] <= deliveries[c] /\ logged[c] <= deliveries[c]
    /\ sent[c] > 0 =>
         \E stored \in {summary[c], NoSummary} : EvaluateTrigger(EvalContext(stored))

\* A message that does not validate has no effect but its dead letter, and
\* only such messages get there.
InvalidOnlyDeadLettered ==
  \A c \in Calls :
    IF ending[c] = NoEnding \/ ending[c].valid
    THEN c \notin dlq
    ELSE /\ fate[c] \subseteq {"dead_letter", "lost"}
         /\ summary[c] = NoSummary /\ sent[c] = 0 /\ logged[c] = 0

\* From the claim to the end of its only delivery a call owns its lead: the
\* lead stays 'calling' for this call, so the guard never blocks it.
CallOwnsItsLead ==
  \A c \in Calls :
    /\ caller[c] # NoLead /\ fate[c] = {} =>
         lead[caller[c]].status = "calling" /\ LastDial(caller[c]) = c
    /\ fate[c] = {} \/ \E f \in Fates \ {"blocked"} : fate[c] = {f}

\* A person is called again only after a call that leaves that open: not
\* after a do-not-call event, a handoff, a refusal, a hangup by the referee
\* or an unnamed cause, and not after a call whose stored summary says the
\* goal was reached or asks not to be called.
NoUnwantedRedial ==
  \A l \in Leads : \A i \in 1..(Len(dials[l]) - 1) :
    LET c == dials[l][i]
        e == ending[c]
    IN /\ e # NoEnding /\ ~MarkedDoNotCall(e.transcript)
       /\ e.cause \in RetryHangupCauses \cup NormalHangupCauses
       /\ summary[c] # NoSummary =>
            /\ summary[c].goal_type # "do_not_call"
            /\ summary[c].goal_achieved => e.cause \in RetryHangupCauses

\* The status of a lead that is not in a call is what the ending and the
\* stored summary of its last call ask for.
StatusExplainedByLastCall ==
  \A l \in Leads :
    LET status == lead[l].status
        c == LastDial(l)
        stored == summary[c]
        achieved == stored # NoSummary /\ stored.goal_achieved
        unwanted == \/ MarkedDoNotCall(ending[c].transcript)
                    \/ stored # NoSummary /\ stored.goal_type = "do_not_call"
    IN status \notin {"new", "calling"} =>
         /\ fate[c] = {"written"}
         /\ unwanted <=> status = "do_not_call"
         /\ status = "completed" => achieved
         /\ status = "transferred" => ending[c].cause = "marked_for_handoff"
         /\ status = "retrying" => ending[c].cause \in RetryHangupCauses
         /\ status \in {"following_up", "follow_up_exhausted"} =>
              ending[c].cause \in NormalHangupCauses /\ ~achieved

\* What is stored about a call is what its whole transcript says: a goal once
\* reached is not undone by the replies of the wrap-up, the last goal counts,
\* and no name but the engine's present one is read.  Whoever inserted the
\* row, and however often, it is never another call's.
SummaryTellsTheTranscript ==
  \A c \in Calls :
    summary[c] # NoSummary => IsLastRoleMarkers(summary[c], ending[c].transcript)

\* Every ended call is resolved: its lead is written, or its message is
\* skipped, dead-lettered or lost to a failure of the last stage or a crash.
\* (A worker that was stopped is taken to be started again.)
EndedCallResolves ==
  \A c \in Calls :
    ending[c] # NoEnding ~> fate[c] \cap (Fates \ {"blocked"}) # {}

\* As long as no message is delivered twice the pipeline, with its stages,
\* failures and crashes, is the one-step resolution of LeadLife.
ImplementsLeadLife == Life!Spec

\* "We never clobber a lead ... that another worker already moved": a worker
\* writes a lead only for the call the lead is in.
NeverClobbersAnotherCall ==
  [][\A w \in Workers : LeadWrite(w) /\ lead' # lead =>
       LastDial(Caller(w)) = job[w]]_vars

\* "goal_type='do_not_call' OR transcript do_not_call_marked", whatever
\* happens to the summarize stage: nobody is called again after a call that
\* ended with either.
DoNotCallHonoured ==
  \A l \in Leads : \A i \in 1..(Len(dials[l]) - 1) :
    LET e == ending[dials[l][i]]
    IN /\ e # NoEnding /\ ~MarkedDoNotCall(e.transcript)
       /\ LastRoleMarkers(e.transcript).goal_type # "do_not_call"
=============================================================================
