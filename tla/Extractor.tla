------------------------------- MODULE Extractor -------------------------------
(***************************************************************************)
(* The post-call extractor (isales_worker/post_call_extractor.py): workers *)
(* BLPOP tasks from isales:extract, ask the provider, and mark the call's  *)
(* record done or failed.  Nothing is put back in the queue.               *)
(*                                                                         *)
(* Tasks are pushed by the engine, once per ended call; a second push is a *)
(* duplicate, or an operator running a failed extraction again.            *)
(***************************************************************************)
EXTENDS Naturals, Sequences, FiniteSets

CONSTANTS
  Calls,      \* a task is the id of the call it is about
  Malformed,  \* messages that are no JSON object with a call_record_id
  Workers,
  MaxPushes,  \* bound on the pushes of one message
  NoTask

Messages == Calls \cup Malformed

ASSUME ExtractorAssumption ==
  /\ Calls \cap Malformed = {}
  /\ NoTask \notin Messages
  /\ MaxPushes \in Nat
  /\ IsFiniteSet(Workers)

VARIABLES
  record,  \* extract_status, extracted and extract_error of each call_record
  queue,   \* isales:extract, its head first
  pc,      \* where each worker is
  job,     \* the task a worker holds
  pushes,  \* history: how often each message was pushed
  ended    \* history: how often each message ended in each way

extractVars == <<record, queue, pc, job, pushes, ended>>

\* A message is marked, left unmarked because marking it failed as well,
\* dropped as malformed, lost with the task that held it, or popped by a
\* BLPOP whose reply no worker read.
Ends == {"done", "failed", "unmarked", "dropped", "lost", "unanswered"}

\* extracted and extract_error: whether the column is not NULL.
Records ==
  [status : {"none", "done", "failed"}, extracted : BOOLEAN, error : BOOLEAN]

ExtractorInit ==
  /\ record = [c \in Calls |-> [status |-> "none", extracted |-> FALSE, error |-> FALSE]]
  /\ queue = <<>>
  /\ pc = [w \in Workers |-> "idle"]
  /\ job = [w \in Workers |-> NoTask]
  /\ pushes = [m \in Messages |-> 0]
  /\ ended = [m \in Messages |-> [e \in Ends |-> 0]]

-----------------------------------------------------------------------------
PushTask(m) ==
  /\ pushes[m] < MaxPushes
  /\ queue' = <<m>> \o queue
  /\ pushes' = [pushes EXCEPT ![m] = @ + 1]
  /\ UNCHANGED <<record, pc, job, ended>>

End(w, e) ==
  /\ pc' = [pc EXCEPT ![w] = "idle"]
  /\ job' = [job EXCEPT ![w] = NoTask]
  /\ ended' = [ended EXCEPT ![job[w]][e] = @ + 1]
  /\ UNCHANGED pushes

\* A message without a call_record_id is dropped where it was popped.
PopTask(w) ==
  /\ pc[w] = "idle"
  /\ queue # <<>>
  /\ queue' = Tail(queue)
  /\ IF Head(queue) \in Malformed
     THEN /\ ended' = [ended EXCEPT ![Head(queue)]["dropped"] = @ + 1]
          /\ UNCHANGED <<pc, job>>
     ELSE /\ pc' = [pc EXCEPT ![w] = "extract"]
          /\ job' = [job EXCEPT ![w] = Head(queue)]
          /\ UNCHANGED ended
  /\ UNCHANGED <<record, pushes>>

\* BLPOP raises, which is logged, and the worker asks again: Redis may have
\* removed a message before the reply was lost.
PopUnanswered(w) ==
  /\ pc[w] = "idle"
  /\ queue # <<>>
  /\ queue' = Tail(queue)
  /\ ended' = [ended EXCEPT ![Head(queue)]["unanswered"] = @ + 1]
  /\ UNCHANGED <<record, pc, job, pushes>>

\* The prompt is loaded and the provider asked; either may raise, and so
\* does an answer that is no dict.
Extract(w) ==
  /\ pc[w] = "extract"
  /\ \E next \in {"mark_done", "mark_failed"} : pc' = [pc EXCEPT ![w] = next]
  /\ UNCHANGED <<record, queue, job, pushes, ended>>

\* Mutant: the failure erases what was extracted.
FailedErases(row) == [status |-> "failed", extracted |-> FALSE, error |-> TRUE]

Done(row) == [status |-> "done", extracted |-> TRUE, error |-> FALSE]
Failed(row) == [row EXCEPT !.status = "failed", !.error = TRUE]

\* An UPDATE that raises may have been committed: the answer can be lost.
Mark(w, row) == record' = [record EXCEPT ![job[w]] = row]
MaybeMark(w, row) == Mark(w, row) \/ UNCHANGED record

MarkDone(w) ==
  /\ pc[w] = "mark_done"
  /\ \/ Mark(w, Done(record[job[w]])) /\ End(w, "done")
     \/ /\ MaybeMark(w, Done(record[job[w]]))
        /\ pc' = [pc EXCEPT ![w] = "mark_failed"]
        /\ UNCHANGED <<job, pushes, ended>>
  /\ UNCHANGED queue

\* Mutants: the failed task goes back to the queue; a failure of the UPDATE
\* escapes and ends the loop.
MarkFailedRequeues(w) ==
  /\ pc[w] = "mark_failed"
  /\ Mark(w, Failed(record[job[w]])) /\ End(w, "failed")
  /\ queue' = <<job[w]>> \o queue
MarkFailedEscapes(w) ==
  /\ pc[w] = "mark_failed"
  /\ \/ Mark(w, Failed(record[job[w]])) /\ End(w, "failed")
     \/ /\ pc' = [pc EXCEPT ![w] = "gone"]
        /\ UNCHANGED <<record, job, pushes, ended>>
  /\ UNCHANGED queue

\* Marking the task failed may fail too; that is only logged.
MarkFailed(w) ==
  /\ pc[w] = "mark_failed"
  /\ \/ Mark(w, Failed(record[job[w]])) /\ End(w, "failed")
     \/ MaybeMark(w, Failed(record[job[w]])) /\ End(w, "unmarked")
  /\ UNCHANGED queue

\* Mutant: the cancelled task keeps what it held.
InterruptKeepsTask(w) ==
  /\ pc' = [pc EXCEPT ![w] = "idle"]
  /\ UNCHANGED <<record, queue, job, pushes, ended>>

\* CancelledError at an await, or the end of the process: no handler of the
\* extractor catches it, and what the worker held is gone from Redis.
Interrupt(w) ==
  IF pc[w] = "idle"
  THEN UNCHANGED extractVars
  ELSE End(w, "lost") /\ UNCHANGED <<record, queue>>

ExtractStep(w) == PopTask(w) \/ Extract(w) \/ MarkDone(w) \/ MarkFailed(w)

-----------------------------------------------------------------------------
\* Records, messages and stages of the kinds above; a worker that is idle
\* holds nothing.
ExtractorTypeOK ==
  /\ record \in [Calls -> Records]
  /\ queue \in Seq(Messages)
  /\ pc \in [Workers -> {"idle", "extract", "mark_done", "mark_failed"}]
  /\ job \in [Workers -> Calls \cup {NoTask}]
  /\ pushes \in [Messages -> Nat]
  /\ ended \in [Messages -> [Ends -> Nat]]
  /\ \A w \in Workers : job[w] = NoTask <=> pc[w] = "idle"

Waiting(m) == Cardinality({i \in DOMAIN queue : queue[i] = m})
InHand(m) == Cardinality({w \in Workers : job[w] = m})
EndedTimes(m) ==
  ended[m]["done"] + ended[m]["failed"] + ended[m]["unmarked"]
    + ended[m]["dropped"] + ended[m]["lost"] + ended[m]["unanswered"]

\* Each push is in the queue, in one worker's hand, or ended in one way: a
\* task is never handled twice for one push ("does NOT re-enqueue").
EachPushOnce == \A m \in Messages : pushes[m] = Waiting(m) + InHand(m) + EndedTimes(m)

ColumnsAgree(row) ==
  /\ row.status = "done" <=> row.extracted /\ ~row.error
  /\ row.status = "failed" <=> row.error

Remembers(row, ends) ==
  /\ ends["done"] > 0 => row.extracted
  /\ row.status = "none" => ends["done"] = 0 /\ ends["failed"] = 0

\* The columns of a record agree whatever its deliveries did, and in which
\* order: done has a result and no error, failed has an error, a call with
\* neither was never marked, and a result survives every later failure.
RecordsAgree ==
  \A c \in Calls : ColumnsAgree(record[c]) /\ Remembers(record[c], ended[c])
=============================================================================
