------------------------- MODULE CallbackRetryProofs -------------------------
(***************************************************************************)
(* The theorems of CallbackRetry: those that hold for any number of        *)
(* workers on the same unlocked rows, any batch size and any retry policy, *)
(* and the account of requests, which needs that there is one worker.      *)
(***************************************************************************)
EXTENDS CallbackRetry, TLAPS, FiniteSetTheorems

\* A row that is pending has attempts left and a time for the next one; none
\* has counted more attempts than the policy has, or any before it exists.
Sound(row) ==
  /\ row.status = "none" => row.retry_count = 0
  /\ MaxAttempts > 0 => row.retry_count <= MaxAttempts
  /\ row.status = "pending_retry" =>
       /\ MaxAttempts > 0 => row.retry_count < MaxAttempts
       /\ row.next_retry_at # NoTime

\* What a session may have made of a row it loaded: nothing, or a sound row,
\* from a pending one, that is pending or resolved.
Handling(old, new) ==
  \/ new = old
  \/ /\ old.status = "pending_retry"
     /\ new.status \in {"pending_retry"} \cup Resolved
     /\ Sound(new)

\* Rows still in a batch are pending, unchanged, and occur once in it.
Fresh(w) ==
  /\ \A i \in 1..Len(batch[w]) :
       LET r == batch[w][i]
       IN loaded[w][r].status = "pending_retry" /\ copy[w][r] = loaded[w][r]
  /\ \A i, j \in 1..Len(batch[w]) : batch[w][i] = batch[w][j] => i = j

IInv ==
  /\ TypeOK
  /\ \A r \in Logs : Sound(log[r])
  /\ \A w \in Workers : /\ Fresh(w)
                        /\ \A r \in Logs : /\ Handling(loaded[w][r], copy[w][r])
                                           /\ Sound(loaded[w][r])
                                           /\ loaded[w][r].status = "pending_retry"
                                                => log[r].status # "none"

LEMMA NoRowIsSound == NoRow \in Rows /\ Sound(NoRow)
BY RetryAssumption DEF NoRow, Rows, Statuses, Sound

LEMMA IntervalIsNat ==
  ASSUME NEW n \in Nat
  PROVE  RetryInterval(n) \in Nat
<1>1. CASE Intervals = <<>>
  BY <1>1 DEF RetryInterval
<1>2. CASE Intervals # <<>>
  <2>1. /\ Len(Intervals) \in Nat \ {0}
        /\ \A i \in 1..Len(Intervals) : Intervals[i] \in Nat
    BY <1>2, RetryAssumption
  <2>2. QED
    BY <1>2, <2>1 DEF RetryInterval
<1>3. QED
  BY <1>1, <1>2

\* _decide_retry and the rest of an attempt turn a row with an attempt left
\* (a pending one, or a new one) into a sound row, pending or resolved.
LEMMA ResponseIsSound ==
  ASSUME TypeOK, NEW row \in Rows, NEW response \in Responses,
         MaxAttempts > 0 => row.retry_count < MaxAttempts
  PROVE  LET new == AfterResponse(row, response)
         IN /\ new \in Rows /\ Sound(new)
            /\ new.status \in {"pending_retry"} \cup Resolved
<1>1. /\ now \in Nat /\ row.retry_count \in Nat /\ MaxAttempts \in Nat
      /\ row.next_retry_at \in Nat \cup {NoTime}
  BY RetryAssumption DEF TypeOK, Rows
<1>2. RetryInterval(row.retry_count) \in Nat
  BY <1>1, IntervalIsNat
<1>3. CASE response = "failure"
  <2>1. AfterResponse(row, response) = DecideRetry(row)
    BY <1>3 DEF AfterResponse
  <2>2. CASE MaxAttempts > 0 /\ row.retry_count + 1 >= MaxAttempts
    BY <1>1, <2>1, <2>2 DEF DecideRetry, Rows, Statuses, Resolved, Sound
  <2>3. CASE ~(MaxAttempts > 0 /\ row.retry_count + 1 >= MaxAttempts)
    <3>1. now + RetryInterval(row.retry_count) \in Nat
      BY <1>1, <1>2
    <3>2. QED
      BY <1>1, <2>1, <2>3, <3>1, RetryAssumption
      DEF DecideRetry, Rows, Statuses, Resolved, Sound
  <2>4. QED
    BY <2>2, <2>3
<1>4. CASE response # "failure"
  <2>1. PICK s \in {"success", "failed_http_4xx"} :
          AfterResponse(row, response) = [row EXCEPT !.status = s, !.next_retry_at = NoTime]
    BY <1>4 DEF AfterResponse, Responses
  <2> DEFINE new == AfterResponse(row, response)
  <2>2. /\ new.status = s /\ new.retry_count = row.retry_count /\ new.next_retry_at = NoTime
        /\ new \in Rows
    BY <2>1 DEF Rows, Statuses, Resolved
  <2> HIDE DEF new
  <2>3. Sound(new) /\ new.status \in Resolved
    BY <1>1, <2>2 DEF Sound, Resolved
  <2>4. QED
    BY <2>2, <2>3 DEF new
<1>5. QED
  BY <1>3, <1>4

\* An attempt whose outcome could not be decided leaves a pending row that has
\* counted it or has not, and that still has an attempt left.
LEMMA UndecidedIsSound ==
  ASSUME NEW row \in Rows, Sound(row), row.status = "pending_retry",
         NEW new \in Undecided(row)
  PROVE  /\ new \in Rows /\ Handling(row, new)
         /\ new.status = "pending_retry"
         /\ new.retry_count = row.retry_count \/ new.retry_count = row.retry_count + 1
         /\ new.retry_count = row.retry_count <=> new = row
<1>1. row.retry_count \in Nat /\ MaxAttempts \in Nat
  BY RetryAssumption DEF Rows
<1>2. CASE new = row
  BY <1>1, <1>2 DEF Handling
<1>3. CASE new # row
  <2>1. /\ ~(MaxAttempts > 0 /\ row.retry_count + 1 >= MaxAttempts)
        /\ new = [row EXCEPT !.retry_count = @ + 1]
    BY <1>3 DEF Undecided
  <2>2. /\ new \in Rows /\ new.status = "pending_retry"
        /\ new.retry_count = row.retry_count + 1 /\ new.next_retry_at = row.next_retry_at
    BY <1>1, <2>1 DEF Rows
  <2>3. Sound(new)
    BY <1>1, <2>1, <2>2 DEF Sound
  <2>4. QED
    BY <1>1, <2>2, <2>3 DEF Handling
<1>4. QED
  BY <1>2, <1>3

\* Writing the changed columns of a handled row over whatever the row is now
\* leaves a sound row, and does not make a resolved row pending again.
LEMMA FlushIsSound ==
  ASSUME NEW row \in Rows, NEW old \in Rows, NEW new \in Rows,
         Sound(row), Sound(old), Handling(old, new),
         old.status = "pending_retry" => row.status # "none"
  PROVE  /\ Flush(row, old, new) \in Rows
         /\ Sound(Flush(row, old, new))
         /\ row.status \in Resolved => Flush(row, old, new).status \in Resolved
<1> DEFINE flushed == Flush(row, old, new)
<1>1. flushed \in Rows
  BY DEF Flush, Rows
<1>2. CASE new = old
  BY <1>1, <1>2 DEF Flush, Rows, Sound
<1>3. CASE new # old
  <2>1. /\ old.status = "pending_retry" /\ Sound(new)
        /\ new.status \in {"pending_retry"} \cup Resolved
    BY <1>3 DEF Handling
  <2>2. CASE new.status = "pending_retry"
    BY <1>1, <2>1, <2>2 DEF Flush, Rows, Sound
  <2>3. CASE new.status \in Resolved
    BY <1>1, <2>1, <2>3 DEF Flush, Rows, Sound, Resolved
  <2>4. QED
    BY <2>1, <2>2, <2>3
<1>4. QED
  BY <1>2, <1>3

-----------------------------------------------------------------------------
LEMMA InitEstablishes == Init => IInv
<1> SUFFICES ASSUME Init PROVE IInv
  OBVIOUS
<1>1. TypeOK
  BY NoRowIsSound DEF Init, TypeOK
<1>2. \A r \in Logs : Sound(log[r])
  BY NoRowIsSound DEF Init
<1>3. \A w \in Workers : Fresh(w)
  BY DEF Init, Fresh
<1>4. \A w \in Workers, r \in Logs : Handling(loaded[w][r], copy[w][r]) /\ Sound(loaded[w][r])
  BY <1>2 DEF Init, Handling
<1>5. \A w \in Workers, r \in Logs : loaded[w][r].status # "pending_retry"
  BY DEF Init, NoRow
<1>6. QED
  BY <1>1, <1>2, <1>3, <1>4, <1>5 DEF IInv

LEMMA DispatchPreserves ==
  ASSUME IInv, NEW r \in Logs, Dispatch(r)
  PROVE  IInv'
<1>1. /\ log[r] \in Rows /\ log[r].status = "none" /\ log[r].retry_count = 0 /\ TypeOK
      /\ UNCHANGED <<now, session>>
  BY DEF IInv, TypeOK, Dispatch, Sound
<1>2. ASSUME NEW new \in Rows, Sound(new), new.status # "none",
             log' = [log EXCEPT ![r] = new],
             sends' \in [Logs -> Nat], acks' \in [Logs -> Nat],
             aborts' \in Nat, raises' \in Nat
      PROVE  IInv'
  <2>1. TypeOK'
    BY <1>1, <1>2 DEF TypeOK, session
  <2>2. \A q \in Logs : Sound(log'[q]) /\ (log[q].status # "none" => log'[q].status # "none")
    BY <1>1, <1>2 DEF IInv, TypeOK
  <2>3. QED
    BY <1>1, <2>1, <2>2 DEF IInv, Fresh, session
<1>3. CASE log' = [log EXCEPT ![r].status = "failed_render"] /\ UNCHANGED history
  <2> DEFINE new == [log[r] EXCEPT !.status = "failed_render"]
  <2>1. new \in Rows /\ Sound(new) /\ new.status # "none"
    BY <1>1, RetryAssumption DEF Rows, Statuses, Resolved, Sound
  <2>2. log' = [log EXCEPT ![r] = new]
    BY <1>1, <1>3 DEF TypeOK
  <2> HIDE DEF new
  <2>3. QED
    BY <1>1, <1>2, <1>3, <2>1, <2>2 DEF TypeOK, history
<1>4. ASSUME NEW response \in Responses,
             log' = [log EXCEPT ![r] = AfterResponse(@, response)],
             CountSend(r, response)
      PROVE  IInv'
  <2> DEFINE new == AfterResponse(log[r], response)
  <2>1. new \in Rows /\ Sound(new) /\ new.status # "none"
    BY <1>1, ResponseIsSound DEF Resolved
  <2>2. log' = [log EXCEPT ![r] = new]
    BY <1>4
  <2> HIDE DEF new
  <2>3. /\ sends' \in [Logs -> Nat] /\ acks' \in [Logs -> Nat]
        /\ aborts' \in Nat /\ raises' \in Nat
    BY <1>1, <1>4 DEF TypeOK, CountSend
  <2>4. QED
    BY <1>2, <2>1, <2>2, <2>3
<1>5. QED
  BY <1>3, <1>4 DEF Dispatch

LEMMA AdvancePreserves ==
  ASSUME IInv, Advance
  PROVE  IInv'
<1>1. TypeOK'
  BY DEF IInv, TypeOK, Advance, session, history
<1>2. QED
  BY <1>1 DEF IInv, Advance, Fresh, session

\* The batch: rows that are due, each of them once.
LEMMA BatchIsDue ==
  ASSUME NEW b \in Batches
  PROVE  /\ b \in Seq(Logs)
         /\ \A i \in 1..Len(b) : b[i] \in Due
         /\ \A i, j \in 1..Len(b) : b[i] = b[j] => i = j
<1> DEFINE n == IF Cardinality(Due) < BatchSize THEN Cardinality(Due) ELSE BatchSize
<1>1. Due \subseteq Logs
  BY DEF Due
<1>2. n \in Nat
  <2>1. Cardinality(Due) \in Nat
    BY <1>1, RetryAssumption, FS_Subset, FS_CardinalityType
  <2>2. QED
    BY <2>1, RetryAssumption
<1>3. b \in [1..n -> Due] /\ \A i, j \in 1..n : i < j => b[i] # b[j]
  BY DEF Batches
<1> HIDE DEF n
<1>4. b \in Seq(Logs) /\ Len(b) = n
  BY <1>1, <1>2, <1>3
<1>5. \A i, j \in 1..n : b[i] = b[j] => i = j
  BY <1>2, <1>3
<1>6. QED
  BY <1>3, <1>4, <1>5

LEMMA SelectPreserves ==
  ASSUME IInv, NEW w \in Workers, Select(w)
  PROVE  IInv'
<1>1. PICK b \in Batches : batch' = [batch EXCEPT ![w] = b]
  BY DEF Select
<1>2. /\ b \in Seq(Logs)
      /\ \A i \in 1..Len(b) : b[i] \in Due
      /\ \A i, j \in 1..Len(b) : b[i] = b[j] => i = j
  BY BatchIsDue
<1>3. TypeOK /\ UNCHANGED <<log, now, history>>
  BY DEF IInv, Select
<1>4. /\ pc' = [pc EXCEPT ![w] = "resend"]
      /\ loaded' = [loaded EXCEPT ![w] = log]
      /\ copy' = [copy EXCEPT ![w] = log]
  BY DEF Select
<1>5. TypeOK'
  BY <1>1, <1>2, <1>3, <1>4 DEF TypeOK, history
<1>6. ASSUME NEW v \in Workers
      PROVE  /\ Fresh(v)'
             /\ \A r \in Logs : /\ Handling(loaded'[v][r], copy'[v][r])
                                /\ Sound(loaded'[v][r])
                                /\ loaded'[v][r].status = "pending_retry"
                                     => log'[r].status # "none"
  <2>1. CASE v = w
    <3>1. batch'[v] = b /\ loaded'[v] = log /\ copy'[v] = log
      BY <1>1, <1>3, <1>4, <2>1 DEF TypeOK
    <3>2. Fresh(v)'
      BY <1>2, <3>1 DEF Fresh, Due
    <3>3. QED
      BY <1>3, <3>1, <3>2 DEF IInv, Handling
  <2>2. CASE v # w
    <3>1. batch'[v] = batch[v] /\ loaded'[v] = loaded[v] /\ copy'[v] = copy[v]
      BY <1>1, <1>3, <1>4, <2>2 DEF TypeOK
    <3>2. QED
      BY <1>3, <3>1 DEF IInv, Fresh
  <2>3. QED
    BY <2>1, <2>2
<1>7. QED
  BY <1>3, <1>5, <1>6 DEF IInv

LEMMA ResendPreserves ==
  ASSUME IInv, NEW w \in Workers, Resend(w)
  PROVE  IInv'
<1> DEFINE r == Head(batch[w])
<1>1. /\ TypeOK /\ Fresh(w) /\ UNCHANGED <<log, now, pc, loaded>>
      /\ batch[w] \in Seq(Logs) /\ batch[w] # <<>>
      /\ batch' = [batch EXCEPT ![w] = Tail(@)]
  BY DEF IInv, TypeOK, Resend
<1>2. /\ r \in Logs /\ r = batch[w][1] /\ 1 \in 1..Len(batch[w])
      /\ Tail(batch[w]) \in Seq(Logs)
      /\ Len(Tail(batch[w])) = Len(batch[w]) - 1 /\ Len(batch[w]) \in Nat
      /\ \A i \in 1..Len(Tail(batch[w])) : /\ i + 1 \in 1..Len(batch[w])
                                           /\ Tail(batch[w])[i] = batch[w][i + 1]
  BY <1>1
<1>3. /\ loaded[w][r].status = "pending_retry" /\ copy[w][r] = loaded[w][r]
      /\ \A i \in 1..Len(Tail(batch[w])) : Tail(batch[w])[i] # r
      /\ \A i, j \in 1..Len(Tail(batch[w])) :
           Tail(batch[w])[i] = Tail(batch[w])[j] => i = j
  BY <1>1, <1>2 DEF Fresh
<1> HIDE DEF r
<1>4. loaded[w][r] \in Rows /\ Sound(loaded[w][r])
  BY <1>1, <1>2 DEF IInv, TypeOK
<1>5. ASSUME NEW new \in Rows, Handling(loaded[w][r], new),
             copy' = [copy EXCEPT ![w][r] = new],
             sends' \in [Logs -> Nat], acks' \in [Logs -> Nat],
             aborts' \in Nat, raises' \in Nat
      PROVE  IInv'
  <2>1. TypeOK'
    BY <1>1, <1>2, <1>5 DEF TypeOK
  <2>2. copy'[w][r] = new /\ \A q \in Logs : q # r => copy'[w][q] = copy[w][q]
    BY <1>1, <1>2, <1>5 DEF TypeOK
  <2>3. \A v \in Workers : v # w => copy'[v] = copy[v] /\ batch'[v] = batch[v]
    BY <1>1, <1>5 DEF TypeOK
  <2>4. batch'[w] = Tail(batch[w])
    BY <1>1 DEF TypeOK
  <2>5. Fresh(w)'
    <3>1. ASSUME NEW i \in 1..Len(Tail(batch[w]))
          PROVE  LET q == Tail(batch[w])[i]
                 IN loaded[w][q].status = "pending_retry" /\ copy'[w][q] = loaded[w][q]
      <4>1. /\ Tail(batch[w])[i] \in Logs /\ Tail(batch[w])[i] # r
            /\ i + 1 \in 1..Len(batch[w]) /\ Tail(batch[w])[i] = batch[w][i + 1]
        BY <1>1, <1>2, <1>3
      <4>2. QED
        BY <1>1, <2>2, <4>1 DEF Fresh
    <3>2. loaded'[w] = loaded[w]
      BY <1>1
    <3>3. QED
      BY <1>3, <2>4, <3>1, <3>2 DEF Fresh
  <2>6. \A v \in Workers : v # w => Fresh(v)'
    BY <1>1, <2>3 DEF IInv, Fresh
  <2>7. \A v \in Workers, q \in Logs : Handling(loaded'[v][q], copy'[v][q])
    BY <1>1, <1>5, <2>2, <2>3 DEF IInv
  <2>8. QED
    BY <1>1, <2>1, <2>5, <2>6, <2>7 DEF IInv
<1>6. CASE copy' = [copy EXCEPT ![w][r].status = "exhausted"] /\ UNCHANGED history
  <2> DEFINE new == [loaded[w][r] EXCEPT !.status = "exhausted"]
  <2>1. new \in Rows /\ Handling(loaded[w][r], new)
    BY <1>3, <1>4, RetryAssumption DEF Rows, Statuses, Resolved, Sound, Handling
  <2>2. copy' = [copy EXCEPT ![w][r] = new]
    BY <1>3, <1>6
  <2> HIDE DEF new
  <2>3. QED
    BY <1>1, <1>5, <1>6, <2>1, <2>2 DEF TypeOK, history
<1>7. CASE UNCHANGED <<copy, history>>
  <2>1. copy' = [copy EXCEPT ![w][r] = loaded[w][r]]
    BY <1>1, <1>2, <1>3, <1>7 DEF TypeOK
  <2>2. QED
    BY <1>1, <1>4, <1>5, <1>7, <2>1 DEF TypeOK, history, Handling
<1>8. ASSUME NEW response \in Responses,
             copy' = [copy EXCEPT ![w][r] = AfterResponse(@, response)],
             CountSend(r, response)
      PROVE  IInv'
  <2> DEFINE new == AfterResponse(loaded[w][r], response)
  <2>1. MaxAttempts > 0 => loaded[w][r].retry_count < MaxAttempts
    BY <1>3, <1>4 DEF Sound
  <2>2. new \in Rows /\ Handling(loaded[w][r], new)
    BY <1>1, <1>3, <1>4, <2>1, ResponseIsSound DEF Handling
  <2>3. copy' = [copy EXCEPT ![w][r] = new]
    BY <1>3, <1>8
  <2> HIDE DEF new
  <2>4. /\ sends' \in [Logs -> Nat] /\ acks' \in [Logs -> Nat]
        /\ aborts' \in Nat /\ raises' \in Nat
    BY <1>1, <1>2, <1>8 DEF TypeOK, CountSend
  <2>5. QED
    BY <1>5, <2>2, <2>3, <2>4
<1>9. ASSUME NEW row \in Undecided(copy[w][r]),
             copy' = [copy EXCEPT ![w][r] = row],
             sends' = [sends EXCEPT ![r] = @ + 1], raises' = raises + 1,
             UNCHANGED <<acks, aborts>>
      PROVE  IInv'
  <2>1. row \in Rows /\ Handling(loaded[w][r], row)
    BY <1>3, <1>4, <1>9, UndecidedIsSound
  <2>2. /\ sends' \in [Logs -> Nat] /\ acks' \in [Logs -> Nat]
        /\ aborts' \in Nat /\ raises' \in Nat
    BY <1>1, <1>2, <1>9 DEF TypeOK
  <2>3. QED
    BY <1>5, <1>9, <2>1, <2>2
<1>10. QED
  BY <1>6, <1>7, <1>8, <1>9 DEF Resend, r

\* What Commit and Abort share: the worker lets go of its rows, and the rows
\* that existed still do.
LEMMA SleepPreserves ==
  ASSUME IInv, NEW w \in Workers, Sleep(w), UNCHANGED <<now, sends, acks, raises>>,
         log' \in [Logs -> Rows], aborts' \in Nat,
         \A r \in Logs : /\ Sound(log'[r])
                         /\ log[r].status # "none" => log'[r].status # "none"
  PROVE  IInv'
<1>1. TypeOK /\ NoRow \in Rows /\ Sound(NoRow)
  BY NoRowIsSound DEF IInv
<1>2. TypeOK'
  BY <1>1 DEF TypeOK, Sleep
<1>3. ASSUME NEW v \in Workers
      PROVE  /\ Fresh(v)'
             /\ \A r \in Logs : /\ Handling(loaded'[v][r], copy'[v][r])
                                /\ Sound(loaded'[v][r])
                                /\ loaded'[v][r].status = "pending_retry"
                                     => log'[r].status # "none"
  <2>1. CASE v = w
    <3>1. /\ batch'[v] = <<>> /\ loaded'[v] = [r \in Logs |-> NoRow]
          /\ copy'[v] = [r \in Logs |-> NoRow]
      BY <1>1, <2>1 DEF TypeOK, Sleep
    <3>2. Fresh(v)'
      BY <3>1 DEF Fresh
    <3>3. NoRow.status = "none"
      BY DEF NoRow
    <3>4. QED
      BY <1>1, <3>1, <3>2, <3>3 DEF Handling
  <2>2. CASE v # w
    <3>1. batch'[v] = batch[v] /\ loaded'[v] = loaded[v] /\ copy'[v] = copy[v]
      BY <1>1, <2>2 DEF TypeOK, Sleep
    <3>2. QED
      BY <3>1 DEF IInv, Fresh
  <2>3. QED
    BY <2>1, <2>2
<1>4. QED
  BY <1>2, <1>3 DEF IInv

\* The commit of an old copy, row by row; what it does to a resolved row is
\* needed again below.
LEMMA CommitPerRow ==
  ASSUME IInv, NEW w \in Workers, Commit(w), NEW r \in Logs
  PROVE  /\ log'[r] \in Rows /\ Sound(log'[r])
         /\ log[r].status \in Resolved => log'[r].status \in Resolved
         /\ log[r].status # "none" => log'[r].status # "none"
<1>1. /\ log[r] \in Rows /\ loaded[w][r] \in Rows /\ copy[w][r] \in Rows
      /\ Sound(log[r]) /\ Sound(loaded[w][r]) /\ Handling(loaded[w][r], copy[w][r])
      /\ loaded[w][r].status = "pending_retry" => log[r].status # "none"
  BY DEF IInv, TypeOK
<1>2. log'[r] = Flush(log[r], loaded[w][r], copy[w][r])
  BY DEF Commit
<1>3. log[r].status # "none" => log'[r].status # "none"
  BY <1>1, <1>2 DEF Flush, Handling, Resolved
<1>4. QED
  BY <1>1, <1>2, <1>3, FlushIsSound

LEMMA Inductive == IInv /\ [Next]_vars => IInv'
<1> SUFFICES ASSUME IInv, [Next]_vars PROVE IInv'
  OBVIOUS
<1>1. ASSUME NEW r \in Logs, Dispatch(r) PROVE IInv'
  BY <1>1, DispatchPreserves
<1>2. CASE Advance
  BY <1>2, AdvancePreserves
<1>3. ASSUME NEW w \in Workers, Select(w) PROVE IInv'
  BY <1>3, SelectPreserves
<1>4. ASSUME NEW w \in Workers, Resend(w) PROVE IInv'
  BY <1>4, ResendPreserves
<1>5. ASSUME NEW w \in Workers, Commit(w) PROVE IInv'
  <2>1. \A r \in Logs : /\ log'[r] \in Rows /\ Sound(log'[r])
                        /\ log[r].status # "none" => log'[r].status # "none"
    BY <1>5, CommitPerRow
  <2>2. log' \in [Logs -> Rows]
    BY <1>5, <2>1 DEF Commit
  <2>3. aborts' \in Nat /\ UNCHANGED <<now, sends, acks, raises>> /\ Sleep(w)
    BY <1>5 DEF IInv, TypeOK, Commit, history
  <2>4. QED
    BY <2>1, <2>2, <2>3, SleepPreserves
<1>6. ASSUME NEW w \in Workers, Abort(w) PROVE IInv'
  <2>1. /\ aborts' \in Nat /\ UNCHANGED <<log, now, sends, acks, raises>> /\ Sleep(w)
        /\ log' \in [Logs -> Rows]
    BY <1>6 DEF IInv, TypeOK, Abort
  <2>2. \A r \in Logs : Sound(log'[r]) /\ (log[r].status # "none" => log'[r].status # "none")
    BY <2>1 DEF IInv
  <2>3. QED
    BY <2>1, <2>2, SleepPreserves
<1>7. CASE UNCHANGED vars
  BY <1>7 DEF vars, session, history, IInv, TypeOK, Fresh
<1>8. QED
  BY <1>1, <1>2, <1>3, <1>4, <1>5, <1>6, <1>7 DEF Next, Tick

\* The strengthening holds in every reachable state.
THEOREM Invariance == Spec => []IInv
BY InitEstablishes, Inductive, PTL DEF Spec

\* Rows, sessions and counts keep their kinds.
THEOREM TypeCorrect == Spec => []TypeOK
<1>1. IInv => TypeOK
  BY DEF IInv
<1>2. QED
  BY <1>1, Invariance, PTL

\* No row counts more attempts than max_attempts, and a pending one has an
\* attempt left, however many workers write back old copies of it.
THEOREM AttemptsHold == Spec => []AttemptsWithinPolicy
<1>1. IInv => AttemptsWithinPolicy
  <2> SUFFICES ASSUME IInv, MaxAttempts > 0, NEW r \in Logs
               PROVE  /\ log[r].retry_count <= MaxAttempts
                      /\ log[r].status = "pending_retry" => log[r].retry_count < MaxAttempts
    BY DEF AttemptsWithinPolicy
  <2>1. QED
    BY DEF IInv, Sound
<1>2. QED
  BY <1>1, Invariance, PTL

\* A pending row can be selected by some later tick.
THEOREM PendingScheduled == Spec => []PendingIsScheduled
<1>1. IInv => PendingIsScheduled
  BY DEF IInv, Sound, PendingIsScheduled
<1>2. QED
  BY <1>1, Invariance, PTL

\* A resolved row never returns to pending_retry, even when a second worker
\* writes back what it made of the row while it was still pending.
THEOREM ResolvedStays == Spec => ResolvedStaysResolved
<1>1. ASSUME IInv, [Next]_vars, NEW r \in Logs, log[r].status \in Resolved
      PROVE  log'[r].status \in Resolved
  <2>1. ASSUME NEW q \in Logs, Dispatch(q) PROVE log'[r] = log[r]
    <3>1. q # r
      BY <1>1, <2>1 DEF Dispatch, Resolved
    <3>2. QED
      BY <1>1, <2>1, <3>1 DEF Dispatch, IInv, TypeOK
  <2>2. ASSUME NEW w \in Workers, Commit(w) PROVE log'[r].status \in Resolved
    BY <1>1, <2>2, CommitPerRow
  <2>3. CASE Advance \/ (\E w \in Workers : Select(w) \/ Resend(w) \/ Abort(w)) \/ UNCHANGED vars
    BY <1>1, <2>3 DEF Advance, Select, Resend, Abort, vars
  <2>4. QED
    BY <1>1, <2>1, <2>2, <2>3 DEF Next, Tick
<1>2. IInv /\ [Next]_vars =>
        [\A r \in Logs : log[r].status \in Resolved => log'[r].status \in Resolved]_vars
  BY <1>1
<1>3. QED
  BY <1>2, Invariance, PTL DEF Spec, ResolvedStaysResolved

-----------------------------------------------------------------------------
(* One worker: what it loaded is what the table still holds, so that its   *)
(* columns count its requests.                                             *)

CountedRow(row) ==
  row.retry_count + IF row.status \in {"success", "failed_http_4xx"} THEN 1 ELSE 0

\* The request of a tick that has not committed, and the acknowledgement that
\* a row or an uncommitted copy remembers.
Open(w, r) == IF Handled(w, r) THEN 1 ELSE 0
Acked(w, r) ==
  IF log[r].status = "success" \/ (Handled(w, r) /\ copy[w][r].status = "success")
  THEN 1 ELSE 0

Settled(w, r) ==
  /\ pc[w] = "resend" /\ loaded[w][r].status # "none" => log[r] = loaded[w][r]
  /\ copy[w][r] # loaded[w][r] =>
       CountedRow(copy[w][r]) = CountedRow(loaded[w][r]) + IF r \in Orphans THEN 0 ELSE 1
  /\ CountedRow(log[r]) + Open(w, r) <= sends[r]
  /\ sends[r] <= CountedRow(log[r]) + Open(w, r) + aborts + raises
  /\ acks[r] <= aborts + Acked(w, r)

\* The part of an attempt that the account depends on.
LEMMA ResponseIsCounted ==
  ASSUME TypeOK, NEW row \in Rows, NEW response \in Responses,
         row.status \in {"none", "pending_retry"}
  PROVE  LET new == AfterResponse(row, response)
         IN /\ CountedRow(new) = CountedRow(row) + 1
            /\ new # row
            /\ new.status = "success" <=> response = "2xx"
<1> DEFINE new == AfterResponse(row, response)
<1>1. row.retry_count \in Nat /\ CountedRow(row) = row.retry_count
  BY DEF Rows, CountedRow
<1>2. CASE response = "failure"
  <2>1. new = DecideRetry(row)
    BY <1>2 DEF AfterResponse
  <2>2. new.retry_count = row.retry_count + 1 /\ new.status \in {"pending_retry", "exhausted"}
    BY <2>1 DEF DecideRetry
  <2> HIDE DEF new
  <2>3. QED
    BY <1>1, <1>2, <2>2 DEF CountedRow, new
<1>3. CASE response # "failure"
  <2>1. new = [row EXCEPT !.status = IF response = "2xx" THEN "success" ELSE "failed_http_4xx",
                          !.next_retry_at = NoTime]
    BY <1>3 DEF AfterResponse, Responses
  <2>2. /\ new.status = IF response = "2xx" THEN "success" ELSE "failed_http_4xx"
        /\ new.retry_count = row.retry_count
    BY <2>1 DEF Rows
  <2> HIDE DEF new
  <2>3. QED
    BY <1>1, <2>2 DEF CountedRow, new
<1>4. QED
  BY <1>2, <1>3

LEMMA CountTypes ==
  ASSUME IInv, NEW w \in Workers, NEW r \in Logs
  PROVE  /\ log[r] \in Rows /\ loaded[w][r] \in Rows /\ copy[w][r] \in Rows
         /\ CountedRow(log[r]) \in Nat /\ CountedRow(loaded[w][r]) \in Nat
         /\ CountedRow(copy[w][r]) \in Nat
         /\ sends[r] \in Nat /\ acks[r] \in Nat /\ aborts \in Nat /\ raises \in Nat
<1>1. /\ log[r] \in Rows /\ loaded[w][r] \in Rows /\ copy[w][r] \in Rows
      /\ sends[r] \in Nat /\ acks[r] \in Nat /\ aborts \in Nat /\ raises \in Nat
  BY DEF IInv, TypeOK
<1>2. \A row \in Rows : CountedRow(row) \in Nat
  BY DEF Rows, CountedRow
<1>3. QED
  BY <1>1, <1>2

LEMMA InitSettles ==
  ASSUME Init, NEW w \in Workers, NEW r \in Logs
  PROVE  Settled(w, r)
<1>1. /\ pc[w] = "sleep" /\ copy[w] = loaded[w] /\ sends[r] = 0 /\ acks[r] = 0
      /\ aborts = 0 /\ raises = 0
      /\ log[r] = NoRow
  BY DEF Init
<1>2. CountedRow(NoRow) = 0
  BY DEF CountedRow, NoRow
<1>3. QED
  BY <1>1, <1>2 DEF Settled, Open, Acked, Handled, NoRow

\* A row is untouched by a step that changes none of what it is settled by;
\* an attempt that raised elsewhere only gives its bound more room.
LEMMA SettledElsewhere ==
  ASSUME IInv, NEW w \in Workers, NEW r \in Logs, Settled(w, r),
         log'[r] = log[r], pc'[w] = pc[w], loaded'[w][r] = loaded[w][r],
         copy'[w][r] = copy[w][r], sends'[r] = sends[r], acks'[r] = acks[r], aborts' = aborts,
         raises' \in {raises, raises + 1}
  PROVE  Settled(w, r)'
<1>1. /\ CountedRow(log'[r]) = CountedRow(log[r])
      /\ Open(w, r)' = Open(w, r) /\ Acked(w, r)' = Acked(w, r)
      /\ Open(w, r) \in {0, 1} /\ Acked(w, r) \in {0, 1}
  BY DEF CountedRow, Open, Acked, Handled
<1>2. /\ CountedRow(log[r]) + Open(w, r) <= sends[r]
      /\ sends[r] <= CountedRow(log[r]) + Open(w, r) + aborts + raises
      /\ acks[r] <= aborts + Acked(w, r)
  BY DEF Settled
<1>3. /\ CountedRow(log'[r]) + Open(w, r)' <= sends'[r]
      /\ sends'[r] <= CountedRow(log'[r]) + Open(w, r)' + aborts' + raises'
      /\ acks'[r] <= aborts' + Acked(w, r)'
  BY <1>1, <1>2, CountTypes
<1>4. QED
  BY <1>3 DEF Settled

\* Nothing is open on a row whose copy is the row that was loaded.
LEMMA NothingOpen ==
  ASSUME IInv, NEW w \in Workers, NEW r \in Logs, Settled(w, r), ~Handled(w, r)
  PROVE  /\ CountedRow(log[r]) <= sends[r] /\ sends[r] <= CountedRow(log[r]) + aborts + raises
         /\ log[r].status # "success" => acks[r] <= aborts
         /\ acks[r] <= 1 + aborts
BY CountTypes DEF Settled, Open, Acked

LEMMA CountedSends ==
  ASSUME TypeOK, NEW r \in Logs, NEW response \in Responses, CountSend(r, response)
  PROVE  /\ sends'[r] = sends[r] + 1 /\ aborts' = aborts /\ raises' = raises
         /\ acks'[r] = acks[r] + IF response = "2xx" THEN 1 ELSE 0
         /\ \A q \in Logs : q # r => sends'[q] = sends[q] /\ acks'[q] = acks[q]
BY DEF TypeOK, CountSend

LEMMA DispatchSettles ==
  ASSUME IInv, NEW w \in Workers, NEW r \in Logs, Settled(w, r), NEW q \in Logs, Dispatch(q)
  PROVE  Settled(w, r)'
<1>1. UNCHANGED <<now, pc, batch, loaded, copy>> /\ log[q].status = "none" /\ TypeOK
  BY DEF Dispatch, session, IInv
<1>2. CASE q # r
  <2>1. /\ log'[r] = log[r] /\ sends'[r] = sends[r] /\ acks'[r] = acks[r]
        /\ aborts' = aborts /\ raises' = raises
    BY <1>1, <1>2, CountedSends DEF Dispatch, history, TypeOK
  <2>2. QED
    BY <1>1, <2>1, SettledElsewhere
<1>3. CASE q = r
  <2>1. loaded[w][r].status # "none" => pc[w] # "resend"
    BY <1>1, <1>3 DEF Settled
  <2>2. ~Handled(w, r) /\ ~Handled(w, r)'
    BY <1>1, <2>1 DEF IInv, Handling, Handled
  <2>3. /\ CountedRow(log[r]) <= sends[r] /\ sends[r] <= CountedRow(log[r]) + aborts + raises
        /\ acks[r] <= aborts
    BY <1>1, <1>3, <2>2, NothingOpen
  <2>4. /\ CountedRow(log'[r]) <= sends'[r] /\ sends'[r] <= CountedRow(log'[r]) + aborts' + raises'
        /\ acks'[r] <= aborts' + IF log'[r].status = "success" THEN 1 ELSE 0
        /\ CountedRow(log'[r]) \in Nat /\ aborts' \in Nat /\ raises' \in Nat
    <3>1. CASE log' = [log EXCEPT ![r].status = "failed_render"] /\ UNCHANGED history
      <4>1. log'[r].retry_count = log[r].retry_count /\ log'[r].status = "failed_render"
        BY <3>1, CountTypes DEF Rows, TypeOK, IInv
      <4>2. CountedRow(log'[r]) = CountedRow(log[r])
        BY <1>1, <1>3, <4>1 DEF CountedRow
      <4>3. QED
        BY <2>3, <3>1, <4>1, <4>2, CountTypes DEF history
    <3>2. ASSUME NEW response \in Responses,
                 log' = [log EXCEPT ![r] = AfterResponse(@, response)],
                 CountSend(r, response)
          PROVE  /\ CountedRow(log'[r]) <= sends'[r]
                 /\ sends'[r] <= CountedRow(log'[r]) + aborts' + raises'
                 /\ acks'[r] <= aborts' + IF log'[r].status = "success" THEN 1 ELSE 0
                 /\ CountedRow(log'[r]) \in Nat /\ aborts' \in Nat /\ raises' \in Nat
      <4>1. log'[r] = AfterResponse(log[r], response)
        BY <1>1, <3>2 DEF TypeOK
      <4>2. /\ CountedRow(log'[r]) = CountedRow(log[r]) + 1
            /\ log'[r].status = "success" <=> response = "2xx"
        BY <1>1, <1>3, <4>1, CountTypes, ResponseIsCounted
      <4>3. QED
        BY <1>1, <2>3, <3>2, <4>2, CountedSends, CountTypes
    <3>3. QED
      BY <1>3, <3>1, <3>2 DEF Dispatch
  <2>5. loaded[w][r].status # "none" => pc'[w] # "resend"
    BY <1>1, <2>1
  <2>6. Open(w, r)' = 0 /\ Acked(w, r)' = IF log'[r].status = "success" THEN 1 ELSE 0
    BY <2>2 DEF Open, Acked
  <2>7. /\ CountedRow(log'[r]) + Open(w, r)' <= sends'[r]
        /\ sends'[r] <= CountedRow(log'[r]) + Open(w, r)' + aborts' + raises'
        /\ acks'[r] <= aborts' + Acked(w, r)'
    BY <2>4, <2>6
  <2>8. QED
    BY <1>1, <2>5, <2>7 DEF Settled
<1>4. QED
  BY <1>2, <1>3

\* Nothing is open before a tick or after it.
LEMMA RestedSettles ==
  ASSUME IInv, NEW w \in Workers, NEW r \in Logs,
         CountedRow(log'[r]) \in Nat, sends'[r] \in Nat, acks'[r] \in Nat,
         aborts' \in Nat, raises' \in Nat,
         copy'[w][r] = loaded'[w][r],
         pc'[w] = "resend" /\ loaded'[w][r].status # "none" => log'[r] = loaded'[w][r],
         CountedRow(log'[r]) <= sends'[r], sends'[r] <= CountedRow(log'[r]) + aborts' + raises',
         acks'[r] <= aborts' + IF log'[r].status = "success" THEN 1 ELSE 0
  PROVE  Settled(w, r)'
<1>1. Open(w, r)' = 0 /\ Acked(w, r)' = IF log'[r].status = "success" THEN 1 ELSE 0
  BY DEF Open, Acked, Handled
<1>2. /\ CountedRow(log'[r]) + Open(w, r)' <= sends'[r]
      /\ sends'[r] <= CountedRow(log'[r]) + Open(w, r)' + aborts' + raises'
      /\ acks'[r] <= aborts' + Acked(w, r)'
  BY <1>1
<1>3. QED
  BY <1>2 DEF Settled

\* What Settled says, of a row whose request is open or not.
LEMMA SettledCounts ==
  ASSUME IInv, NEW w \in Workers, NEW r \in Logs, Settled(w, r)
  PROVE  /\ Handled(w, r) =>
              /\ CountedRow(log[r]) + 1 <= sends[r]
              /\ sends[r] <= CountedRow(log[r]) + 1 + aborts + raises
         /\ ~Handled(w, r) =>
              /\ CountedRow(log[r]) <= sends[r] /\ sends[r] <= CountedRow(log[r]) + aborts + raises
         /\ acks[r] <= aborts + 1
         /\ log[r].status # "success" /\ ~(Handled(w, r) /\ copy[w][r].status = "success") =>
              acks[r] <= aborts
<1>1. Open(w, r) = (IF Handled(w, r) THEN 1 ELSE 0) /\ Acked(w, r) \in {0, 1}
  BY DEF Open, Acked
<1>2. log[r].status # "success" /\ ~(Handled(w, r) /\ copy[w][r].status = "success") =>
        Acked(w, r) = 0
  BY DEF Acked
<1>3. /\ CountedRow(log[r]) + Open(w, r) <= sends[r]
      /\ sends[r] <= CountedRow(log[r]) + Open(w, r) + aborts + raises
      /\ acks[r] <= aborts + Acked(w, r)
  BY DEF Settled
<1>4. QED
  BY <1>1, <1>2, <1>3, CountTypes

LEMMA SelectSettles ==
  ASSUME IInv, NEW w \in Workers, NEW r \in Logs, Settled(w, r), Select(w)
  PROVE  Settled(w, r)'
<1>1. /\ loaded'[w] = log /\ copy'[w] = log /\ UNCHANGED <<log, sends, acks, aborts, raises>>
      /\ ~Handled(w, r)
  BY DEF Select, Handled, history, IInv, TypeOK
<1>2. /\ CountedRow(log[r]) <= sends[r] /\ sends[r] <= CountedRow(log[r]) + aborts + raises
      /\ acks[r] <= aborts + IF log[r].status = "success" THEN 1 ELSE 0
  BY <1>1, SettledCounts, CountTypes
<1>3. QED
  BY <1>1, <1>2, RestedSettles, CountTypes

LEMMA ResendSettles ==
  ASSUME IInv, NEW w \in Workers, NEW q \in Logs, Settled(w, q), Resend(w)
  PROVE  Settled(w, q)'
<1> DEFINE r == Head(batch[w])
<1>1. /\ TypeOK /\ Fresh(w) /\ UNCHANGED <<log, now, pc, loaded>> /\ pc[w] = "resend"
      /\ batch[w] \in Seq(Logs) /\ batch[w] # <<>>
  BY DEF IInv, TypeOK, Resend
<1>2. r \in Logs /\ r = batch[w][1] /\ 1 \in 1..Len(batch[w])
  BY <1>1
<1>3. loaded[w][r].status = "pending_retry" /\ copy[w][r] = loaded[w][r]
  BY <1>1, <1>2 DEF Fresh
<1> HIDE DEF r
<1>4. CASE UNCHANGED <<copy, history>>
  BY <1>1, <1>4, SettledElsewhere DEF history
<1>5. CASE r \in Orphans /\ copy' = [copy EXCEPT ![w][r].status = "exhausted"] /\ UNCHANGED history
  <2>1. CASE q # r
    BY <1>1, <1>2, <1>5, <2>1, SettledElsewhere DEF history, TypeOK
  <2>2. CASE q = r
    <3>1. /\ copy'[w][q].retry_count = copy[w][q].retry_count
          /\ copy'[w][q].status = "exhausted"
      <4>1. copy[w][q] \in Rows /\ copy' = [copy EXCEPT ![w][q].status = "exhausted"]
        BY <1>5, <2>2, CountTypes
      <4>2. copy'[w][q] = [copy[w][q] EXCEPT !.status = "exhausted"]
        BY <1>1, <4>1 DEF TypeOK
      <4>3. QED
        BY <4>1, <4>2 DEF Rows
    <3>2. CountedRow(copy'[w][q]) = CountedRow(loaded[w][q])
      BY <1>3, <2>2, <3>1 DEF CountedRow
    <3>3. ~Handled(w, q)' /\ ~Handled(w, q)
      BY <1>5, <2>2 DEF Handled
    <3>4. Open(w, q)' = Open(w, q) /\ Acked(w, q)' = Acked(w, q)
      BY <1>1, <2>2, <3>3 DEF Open, Acked
    <3>5. CountedRow(copy'[w][q]) = CountedRow(loaded[w][q]) + IF q \in Orphans THEN 0 ELSE 1
      BY <1>2, <1>5, <2>2, <3>2, CountTypes
    <3>6. QED
      BY <1>1, <1>5, <2>2, <3>4, <3>5 DEF Settled, history
  <2>3. QED
    BY <2>1, <2>2
<1>6. ASSUME r \notin Orphans, NEW response \in Responses,
             copy' = [copy EXCEPT ![w][r] = AfterResponse(@, response)],
             CountSend(r, response)
      PROVE  Settled(w, q)'
  <2>1. CASE q # r
    <3>1. copy'[w][q] = copy[w][q]
      BY <1>1, <1>2, <1>6, <2>1 DEF TypeOK
    <3>2. sends'[q] = sends[q] /\ acks'[q] = acks[q] /\ aborts' = aborts /\ raises' = raises
      BY <1>1, <1>2, <1>6, <2>1, CountedSends
    <3>3. QED
      BY <1>1, <3>1, <3>2, SettledElsewhere
  <2>2. CASE q = r
    <3>1. copy'[w][q] = AfterResponse(loaded[w][q], response)
      BY <1>1, <1>2, <1>3, <1>6, <2>2 DEF TypeOK
    <3>2. /\ CountedRow(copy'[w][q]) = CountedRow(loaded[w][q]) + 1
          /\ copy'[w][q] # loaded[w][q]
          /\ copy'[w][q].status = "success" <=> response = "2xx"
      BY <1>1, <1>2, <1>3, <2>2, <3>1, CountTypes, ResponseIsCounted
    <3>3. log[q] = loaded[w][q]
      BY <1>1, <1>3, <2>2 DEF Settled
    <3>4. Handled(w, q)' /\ ~Handled(w, q)
      BY <1>1, <1>3, <1>6, <2>2, <3>2 DEF Handled
    <3>5. /\ sends'[q] = sends[q] + 1 /\ aborts' = aborts /\ raises' = raises
          /\ acks'[q] = acks[q] + IF response = "2xx" THEN 1 ELSE 0
      BY <1>1, <1>2, <1>6, <2>2, CountedSends
    <3>6. /\ Open(w, q)' = 1
          /\ Acked(w, q)' = IF response = "2xx" THEN 1 ELSE 0
      BY <1>1, <1>3, <2>2, <3>2, <3>3, <3>4 DEF Open, Acked
    <3>7. /\ CountedRow(log[q]) <= sends[q] /\ sends[q] <= CountedRow(log[q]) + aborts + raises
          /\ acks[q] <= aborts
      BY <1>2, <1>3, <2>2, <3>3, <3>4, SettledCounts
    <3>8. /\ CountedRow(log[q]) + Open(w, q)' <= sends'[q]
          /\ sends'[q] <= CountedRow(log[q]) + Open(w, q)' + aborts' + raises'
          /\ acks'[q] <= aborts' + Acked(w, q)'
      BY <3>5, <3>6, <3>7, CountTypes
    <3>9. QED
      BY <1>1, <1>6, <2>2, <3>2, <3>3, <3>8 DEF Settled
  <2>3. QED
    BY <2>1, <2>2
<1>7. ASSUME r \notin Orphans, NEW row \in Undecided(copy[w][r]),
             copy' = [copy EXCEPT ![w][r] = row],
             sends' = [sends EXCEPT ![r] = @ + 1], raises' = raises + 1,
             UNCHANGED <<acks, aborts>>
      PROVE  Settled(w, q)'
  <2>1. CASE q # r
    <3>1. copy'[w][q] = copy[w][q] /\ sends'[q] = sends[q]
      BY <1>1, <1>2, <1>7, <2>1 DEF TypeOK
    <3>2. QED
      BY <1>1, <1>7, <3>1, SettledElsewhere
  <2>2. CASE q = r
    <3>1. /\ copy'[w][q] = row
          /\ sends'[q] = sends[q] + 1 /\ acks'[q] = acks[q]
          /\ aborts' = aborts /\ raises' = raises + 1
      BY <1>1, <1>2, <1>7, <2>2 DEF TypeOK
    <3>2. /\ row.status = "pending_retry"
          /\ row.retry_count \in {loaded[w][q].retry_count, loaded[w][q].retry_count + 1}
          /\ row.retry_count = loaded[w][q].retry_count <=> row = loaded[w][q]
      BY <1>2, <1>3, <1>7, <2>2, UndecidedIsSound, CountTypes DEF IInv
    <3>3. /\ CountedRow(row) = row.retry_count
          /\ CountedRow(loaded[w][q]) = loaded[w][q].retry_count
          /\ loaded[w][q].retry_count \in Nat
      <4>1. /\ loaded[w][q].status = "pending_retry"
            /\ loaded[w][q].retry_count \in Nat
        BY <1>2, <1>3, <2>2, CountTypes DEF Rows
      <4>2. QED
        BY <3>2, <4>1 DEF CountedRow
    <3>4. row # loaded[w][q] => CountedRow(row) = CountedRow(loaded[w][q]) + 1
      BY <3>2, <3>3
    <3>5. log[q] = loaded[w][q] /\ ~Handled(w, q)
      BY <1>1, <1>3, <2>2 DEF Settled, Handled
    <3>6. Open(w, q)' \in {0, 1} /\ Acked(w, q)' = 0
      BY <1>1, <1>3, <2>2, <3>1, <3>2, <3>5 DEF Open, Acked, Handled
    <3>7. /\ CountedRow(log[q]) <= sends[q] /\ sends[q] <= CountedRow(log[q]) + aborts + raises
          /\ acks[q] <= aborts
      BY <1>2, <1>3, <2>2, <3>5, SettledCounts
    <3>8. /\ CountedRow(log[q]) + Open(w, q)' <= sends'[q]
          /\ sends'[q] <= CountedRow(log[q]) + Open(w, q)' + aborts' + raises'
          /\ acks'[q] <= aborts' + Acked(w, q)'
      <4>1. /\ CountedRow(log[q]) \in Nat /\ sends[q] \in Nat /\ acks[q] \in Nat
            /\ aborts \in Nat /\ raises \in Nat
        BY CountTypes
      <4>2. QED
        BY <3>1, <3>6, <3>7, <4>1
    <3>9. QED
      BY <1>1, <1>7, <2>2, <3>1, <3>4, <3>5, <3>8 DEF Settled
  <2>3. QED
    BY <2>1, <2>2
<1>8. QED
  BY <1>4, <1>5, <1>6, <1>7 DEF Resend, r

LEMMA CommitSettles ==
  ASSUME IInv, NEW w \in Workers, NEW r \in Logs, Settled(w, r), Commit(w)
  PROVE  Settled(w, r)'
<1>1. /\ log'[r] = Flush(log[r], loaded[w][r], copy[w][r])
      /\ pc[w] = "resend" /\ pc'[w] = "sleep" /\ loaded'[w][r] = copy'[w][r]
      /\ UNCHANGED <<sends, acks, aborts, raises>>
  BY DEF Commit, Sleep, history, IInv, TypeOK
<1>2. log[r] \in Rows /\ loaded[w][r] \in Rows /\ copy[w][r] \in Rows
  BY CountTypes
<1>3. CASE copy[w][r] = loaded[w][r]
  <2>1. log'[r] = log[r] /\ ~Handled(w, r)
    BY <1>1, <1>2, <1>3 DEF Flush, Rows, Handled
  <2>2. /\ CountedRow(log[r]) <= sends[r] /\ sends[r] <= CountedRow(log[r]) + aborts + raises
        /\ acks[r] <= aborts + IF log[r].status = "success" THEN 1 ELSE 0
    BY <2>1, SettledCounts, CountTypes
  <2>3. QED
    BY <1>1, <2>1, <2>2, RestedSettles, CountTypes
<1>4. CASE copy[w][r] # loaded[w][r]
  <2>1. loaded[w][r].status = "pending_retry" /\ log[r] = loaded[w][r]
    BY <1>1, <1>4 DEF IInv, Handling, Settled
  <2>2. log'[r] = copy[w][r]
    BY <1>1, <1>2, <2>1 DEF Flush, Rows
  <2>3. CountedRow(log'[r]) = CountedRow(log[r]) + IF r \in Orphans THEN 0 ELSE 1
    BY <1>4, <2>1, <2>2 DEF Settled
  <2>4. Handled(w, r) <=> r \notin Orphans
    BY <1>1, <1>4 DEF Handled
  <2>5. /\ CountedRow(log'[r]) \in Nat
        /\ CountedRow(log'[r]) <= sends[r] /\ sends[r] <= CountedRow(log'[r]) + aborts + raises
    BY <2>3, <2>4, SettledCounts, CountTypes
  <2>6. acks[r] <= aborts + IF log'[r].status = "success" THEN 1 ELSE 0
    <3>1. CASE log'[r].status = "success"
      BY <3>1, SettledCounts
    <3>2. CASE log'[r].status # "success"
      BY <2>1, <2>2, <3>2, SettledCounts, CountTypes
    <3>3. QED
      BY <3>1, <3>2
  <2>7. QED
    BY <1>1, <2>5, <2>6, RestedSettles, CountTypes
<1>5. QED
  BY <1>3, <1>4

LEMMA AbortSettles ==
  ASSUME IInv, NEW w \in Workers, NEW r \in Logs, Settled(w, r), Abort(w)
  PROVE  Settled(w, r)'
<1>1. /\ pc'[w] = "sleep" /\ loaded'[w][r] = copy'[w][r]
      /\ UNCHANGED <<log, sends, acks, raises>> /\ aborts' = aborts + 1
  BY DEF Abort, Sleep, IInv, TypeOK
<1>2. /\ CountedRow(log[r]) <= sends[r] /\ sends[r] <= CountedRow(log[r]) + aborts + raises + 1
      /\ acks[r] <= aborts + 1 + IF log[r].status = "success" THEN 1 ELSE 0
  BY SettledCounts, CountTypes
<1>3. QED
  BY <1>1, <1>2, RestedSettles, CountTypes

LEMMA OneWorkerInductive ==
  ASSUME NEW w \in Workers, Workers = {w}
  PROVE  IInv /\ (\A r \in Logs : Settled(w, r)) /\ [Next]_vars =>
           (\A r \in Logs : Settled(w, r)')
<1> SUFFICES ASSUME IInv, \A r \in Logs : Settled(w, r), [Next]_vars, NEW r \in Logs
             PROVE  Settled(w, r)'
  OBVIOUS
<1>1. ASSUME NEW q \in Logs, Dispatch(q) PROVE Settled(w, r)'
  BY <1>1, DispatchSettles
<1>2. CASE Advance \/ UNCHANGED vars
  BY <1>2, SettledElsewhere DEF Advance, vars, session, history
<1>3. CASE Select(w)
  BY <1>3, SelectSettles
<1>4. CASE Resend(w)
  BY <1>4, ResendSettles
<1>5. CASE Commit(w)
  BY <1>5, CommitSettles
<1>6. CASE Abort(w)
  BY <1>6, AbortSettles
<1>7. QED
  BY <1>1, <1>2, <1>3, <1>4, <1>5, <1>6 DEF Next, Tick

\* With one worker the columns of a row count its requests, up to one for
\* every tick that made a request and was aborted before its commit and one
\* for every attempt whose outcome a malformed policy could not decide; a
\* receiver that acknowledged is called again only after an aborted tick.
THEOREM SendsAreAccounted ==
  ASSUME NEW w \in Workers, Workers = {w}
  PROVE  Spec => []SendsAccounted
<1>1. Init => IInv /\ \A r \in Logs : Settled(w, r)
  BY InitEstablishes, InitSettles
<1>2. IInv /\ (\A r \in Logs : Settled(w, r)) /\ [Next]_vars =>
        IInv' /\ (\A r \in Logs : Settled(w, r))'
  BY Inductive, OneWorkerInductive
<1>3. IInv /\ (\A r \in Logs : Settled(w, r)) => SendsAccounted
  <2> SUFFICES ASSUME IInv, \A r \in Logs : Settled(w, r), NEW r \in Logs
               PROVE  LET open == IF \E v \in Workers : Handled(v, r) THEN 1 ELSE 0
                      IN /\ sends[r] \in (Counted(r) + open)..(Counted(r) + open + aborts + raises)
                         /\ acks[r] <= 1 + aborts
    BY DEF SendsAccounted
  <2>1. Counted(r) = CountedRow(log[r]) /\ CountedRow(log[r]) \in Nat
    BY CountTypes DEF Counted, CountedRow
  <2>2. (\E v \in Workers : Handled(v, r)) <=> Handled(w, r)
    OBVIOUS
  <2>3. QED
    BY <2>1, <2>2, SettledCounts, CountTypes
<1>4. QED
  BY <1>1, <1>2, <1>3, PTL DEF Spec
=============================================================================
