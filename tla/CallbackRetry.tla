----------------------------- MODULE CallbackRetry -----------------------------
(***************************************************************************)
(* The life of callback_log rows: the first attempt of callbacks.py        *)
(* (dispatch_callback, one step here) and the background resends of        *)
(* isales_worker/retry_loop.py.  A tick loads a batch of due rows, resends *)
(* them one after the other, and writes all of them in one commit at the   *)
(* end; rows are not locked, so that two workers may hold the same row.    *)
(*                                                                         *)
(* Time is an integer clock.  It stops while no pending row lies in the    *)
(* future: the code only compares times, so nothing is lost, and a limit   *)
(* on attempts makes the model finite.                                     *)
(***************************************************************************)
EXTENDS Integers, Sequences, FiniteSets

CONSTANTS
  Logs, Workers,
  MaxAttempts,   \* retry_policy.max_attempts; 0 is no limit
  Intervals,     \* retry_policy.intervals_seconds
  BatchSize,     \* settings.worker_retry_batch_size
  Orphans,       \* logs whose callback_config has been deleted
  Poison,        \* logs whose resend raises before any request is made: the
                 \* signing secret does not decrypt, the URL does not parse
  MaxAborts,     \* bound on ticks that end without their commit
  MaxRaises,     \* bound on attempts judged by a policy that does not parse
  NoTime

ASSUME RetryAssumption ==
  /\ IsFiniteSet(Logs)
  /\ MaxAttempts \in Nat
  /\ Intervals \in Seq(Nat)
  /\ BatchSize \in Nat \ {0}
  /\ Orphans \subseteq Logs /\ Poison \subseteq Logs
  /\ MaxAborts \in Nat /\ MaxRaises \in Nat
  /\ NoTime \notin Nat

VARIABLES
  log,     \* table callback_log
  now,
  pc,      \* each worker: "sleep", or "resend" inside a tick
  batch,   \* the rows of the tick that are still to be handled
  loaded,  \* the rows as the tick's session loaded them
  copy,    \* the session's objects, changed by _retry_one
  sends,   \* history: requests made for each row
  acks,    \* history: 2xx answers to them
  aborts,  \* history: ticks that were rolled back
  raises   \* history: attempts whose outcome could not be decided

session == <<pc, batch, loaded, copy>>
history == <<sends, acks, aborts, raises>>
vars == <<log, now, session, history>>

Resolved == {"success", "failed_http_4xx", "failed_render", "exhausted"}
Statuses == {"none", "pending_retry"} \cup Resolved
Rows == [status : Statuses, retry_count : Nat, next_retry_at : Nat \cup {NoTime}]
NoRow == [status |-> "none", retry_count |-> 0, next_retry_at |-> NoTime]
Responses == {"2xx", "4xx", "failure"}  \* failure: 5xx, or no answer

Init ==
  /\ log = [r \in Logs |-> NoRow]
  /\ now = 0
  /\ pc = [w \in Workers |-> "sleep"]
  /\ batch = [w \in Workers |-> <<>>]
  /\ loaded = [w \in Workers |-> log]
  /\ copy = [w \in Workers |-> log]
  /\ sends = [r \in Logs |-> 0]
  /\ acks = [r \in Logs |-> 0]
  /\ aborts = 0
  /\ raises = 0

-----------------------------------------------------------------------------
\* intervals_seconds[attempt], clamped to the last; 60 when there is none.
RetryInterval(attempt) ==
  IF Intervals = <<>> THEN 60
  ELSE Intervals[IF attempt < Len(Intervals) THEN attempt + 1 ELSE Len(Intervals)]

\* Mutants: one attempt too many; the row forgets when to try again; the
\* interval is subtracted.
DecideRetryLate(row) ==
  IF MaxAttempts > 0 /\ row.retry_count >= MaxAttempts
  THEN [status |-> "exhausted", retry_count |-> row.retry_count + 1,
        next_retry_at |-> NoTime]
  ELSE [status |-> "pending_retry", retry_count |-> row.retry_count + 1,
        next_retry_at |-> now + RetryInterval(row.retry_count)]
DecideRetryUnscheduled(row) ==
  IF MaxAttempts > 0 /\ row.retry_count + 1 >= MaxAttempts
  THEN [row EXCEPT !.status = "exhausted", !.retry_count = @ + 1]
  ELSE [status |-> "pending_retry", retry_count |-> row.retry_count + 1,
        next_retry_at |-> NoTime]
DecideRetryBackwards(row) ==
  IF MaxAttempts > 0 /\ row.retry_count + 1 >= MaxAttempts
  THEN [status |-> "exhausted", retry_count |-> row.retry_count + 1,
        next_retry_at |-> NoTime]
  ELSE [status |-> "pending_retry", retry_count |-> row.retry_count + 1,
        next_retry_at |-> now - RetryInterval(row.retry_count)]

DecideRetry(row) ==
  IF MaxAttempts > 0 /\ row.retry_count + 1 >= MaxAttempts
  THEN [status |-> "exhausted", retry_count |-> row.retry_count + 1,
        next_retry_at |-> NoTime]
  ELSE [status |-> "pending_retry", retry_count |-> row.retry_count + 1,
        next_retry_at |-> now + RetryInterval(row.retry_count)]

\* _decide_retry with a retry_policy edited into one that does not parse: it
\* raises at max_attempts, or, below the limit, at the interval, when the
\* counter is raised and the row's old time still stands.
Undecided(row) ==
  {row} \cup IF MaxAttempts > 0 /\ row.retry_count + 1 >= MaxAttempts THEN {}
            ELSE {[row EXCEPT !.retry_count = @ + 1]}

\* What an attempt makes of a row.
AfterResponse(row, response) ==
  CASE response = "2xx" -> [row EXCEPT !.status = "success", !.next_retry_at = NoTime]
    [] response = "4xx" -> [row EXCEPT !.status = "failed_http_4xx", !.next_retry_at = NoTime]
    [] response = "failure" -> DecideRetry(row)

CountSend(r, response) ==
  /\ sends' = [sends EXCEPT ![r] = @ + 1]
  /\ acks' = IF response = "2xx" THEN [acks EXCEPT ![r] = @ + 1] ELSE acks
  /\ UNCHANGED <<aborts, raises>>

\* dispatch_callback: the row is committed with the outcome of its first
\* attempt, or as failed_render when there was nothing to send.
Dispatch(r) ==
  /\ log[r].status = "none"
  /\ \/ /\ log' = [log EXCEPT ![r].status = "failed_render"]
        /\ UNCHANGED history
     \/ \E response \in Responses :
          /\ log' = [log EXCEPT ![r] = AfterResponse(@, response)]
          /\ CountSend(r, response)
  /\ UNCHANGED <<now, session>>

Advance ==
  /\ \E r \in Logs : /\ log[r].status = "pending_retry"
                     /\ log[r].next_retry_at # NoTime
                     /\ log[r].next_retry_at > now
  /\ now' = now + 1
  /\ UNCHANGED <<log, session, history>>

\* WHERE status = 'pending_retry' AND next_retry_at <= now
Due == {r \in Logs : /\ log[r].status = "pending_retry"
                     /\ log[r].next_retry_at # NoTime
                     /\ log[r].next_retry_at <= now}

\* ... ORDER BY next_retry_at LIMIT batch size, ties in any order.
Batches ==
  LET size == IF Cardinality(Due) < BatchSize THEN Cardinality(Due) ELSE BatchSize
      Time(r) == log[r].next_retry_at
  IN {b \in [1..size -> Due] :
        /\ \A i, j \in 1..size : i < j => b[i] # b[j] /\ Time(b[i]) <= Time(b[j])
        /\ \A r \in Due : \/ \E i \in 1..size : b[i] = r
                          \/ \A i \in 1..size : Time(b[i]) <= Time(r)}

Select(w) ==
  /\ pc[w] = "sleep"
  /\ Due # {}
  /\ \E b \in Batches : batch' = [batch EXCEPT ![w] = b]
  /\ pc' = [pc EXCEPT ![w] = "resend"]
  /\ loaded' = [loaded EXCEPT ![w] = log]
  /\ copy' = [copy EXCEPT ![w] = log]
  /\ UNCHANGED <<log, now, history>>

\* One row of the batch.  A missing config exhausts the row; an exception of
\* _retry_one is logged and leaves the object as it is then: unchanged before
\* the request, and perhaps counted when deciding on its failure raises.
Resend(w) ==
  LET r == Head(batch[w])
  IN /\ pc[w] = "resend"
     /\ batch[w] # <<>>
     /\ batch' = [batch EXCEPT ![w] = Tail(@)]
     /\ \/ /\ r \in Orphans
           /\ copy' = [copy EXCEPT ![w][r].status = "exhausted"]
           /\ UNCHANGED history
        \/ /\ r \in Poison \ Orphans
           /\ UNCHANGED <<copy, history>>
        \/ /\ r \notin Poison \cup Orphans
           /\ \E response \in Responses :
                /\ copy' = [copy EXCEPT ![w][r] = AfterResponse(@, response)]
                /\ CountSend(r, response)
        \/ /\ r \notin Poison \cup Orphans
           /\ raises < MaxRaises
           /\ \E row \in Undecided(copy[w][r]) : copy' = [copy EXCEPT ![w][r] = row]
           /\ sends' = [sends EXCEPT ![r] = @ + 1]
           /\ raises' = raises + 1
           /\ UNCHANGED <<acks, aborts>>
     /\ UNCHANGED <<log, now, pc, loaded>>

Sleep(w) ==
  /\ pc' = [pc EXCEPT ![w] = "sleep"]
  /\ batch' = [batch EXCEPT ![w] = <<>>]
  /\ loaded' = [loaded EXCEPT ![w] = [r \in Logs |-> NoRow]]
  /\ copy' = [copy EXCEPT ![w] = [r \in Logs |-> NoRow]]

\* Mutants: the whole object is written back; only the status is.
FlushWholeRow(row, old, new) == IF new = old THEN row ELSE new
FlushStatusOnly(row, old, new) == [row EXCEPT !.status = new.status]

\* The UPDATE of the ORM: the columns whose value the session changed, and
\* no condition but the primary key.
Flush(row, old, new) ==
  [status |-> IF new.status # old.status THEN new.status ELSE row.status,
   retry_count |-> IF new.retry_count # old.retry_count
                   THEN new.retry_count ELSE row.retry_count,
   next_retry_at |-> IF new.next_retry_at # old.next_retry_at
                     THEN new.next_retry_at ELSE row.next_retry_at]

Commit(w) ==
  /\ pc[w] = "resend"
  /\ batch[w] = <<>>
  /\ log' = [r \in Logs |-> Flush(log[r], loaded[w][r], copy[w][r])]
  /\ Sleep(w)
  /\ UNCHANGED <<now, history>>

\* The process dies, the task is cancelled, or the tick raises: requests that
\* were made stay made, what they led to is rolled back.
Abort(w) ==
  /\ pc[w] = "resend"
  /\ aborts < MaxAborts
  /\ aborts' = aborts + 1
  /\ Sleep(w)
  /\ UNCHANGED <<log, now, sends, acks, raises>>

Tick(w) == Select(w) \/ Resend(w) \/ Commit(w)

Next ==
  \/ \E r \in Logs : Dispatch(r)
  \/ Advance
  \/ \E w \in Workers : Tick(w) \/ Abort(w)

Spec == Init /\ [][Next]_vars

\* The loop wakes up after every sleep and time passes.
FairSpec == Spec /\ WF_vars(Advance) /\ \A w \in Workers : WF_vars(Tick(w))

-----------------------------------------------------------------------------
\* Rows, sessions and counts of the kinds above.
TypeOK ==
  /\ log \in [Logs -> Rows]
  /\ now \in Nat
  /\ pc \in [Workers -> {"sleep", "resend"}]
  /\ batch \in [Workers -> Seq(Logs)]
  /\ loaded \in [Workers -> [Logs -> Rows]]
  /\ copy \in [Workers -> [Logs -> Rows]]
  /\ sends \in [Logs -> Nat]
  /\ acks \in [Logs -> Nat]
  /\ aborts \in Nat /\ raises \in Nat

\* The attempts a row has counted never pass the policy, and a pending row
\* has one left, even when two workers resend it from the same old copy.
AttemptsWithinPolicy ==
  MaxAttempts > 0 =>
    \A r \in Logs :
      /\ log[r].retry_count <= MaxAttempts
      /\ log[r].status = "pending_retry" => log[r].retry_count < MaxAttempts

\* A pending row always has a time: without one no tick would select it.
PendingIsScheduled ==
  \A r \in Logs : log[r].status = "pending_retry" => log[r].next_retry_at # NoTime

\* A resolved row never becomes pending again: a worker that commits an old
\* copy may replace one resolution by another, but starts no new round.
ResolvedStaysResolved ==
  [][\A r \in Logs : log[r].status \in Resolved => log'[r].status \in Resolved]_vars

\* With one worker the requests of a row are those its columns count; each
\* aborted tick, and each attempt that raised after its request, may have made
\* one more; a receiver that acknowledged is called again only if the tick
\* that called it was aborted.
Handled(w, r) ==
  pc[w] = "resend" /\ copy[w][r] # loaded[w][r] /\ r \notin Orphans
Counted(r) ==
  log[r].retry_count + IF log[r].status \in {"success", "failed_http_4xx"} THEN 1 ELSE 0
SendsAccounted ==
  \A r \in Logs :
    LET open == IF \E w \in Workers : Handled(w, r) THEN 1 ELSE 0
    IN /\ sends[r] \in (Counted(r) + open)..(Counted(r) + open + aborts + raises)
       /\ acks[r] <= 1 + aborts

\* "every tick re-sends pending_retry callback_logs": a row leaves
\* pending_retry, by an answer, by running out of attempts or for want of its
\* config, unless its resend raises before every request.
PendingResolves ==
  \A r \in Logs \ Poison :
    log[r].status = "pending_retry" ~> log[r].status \in Resolved
=============================================================================
