-------------------------- MODULE CallPipelineProofs --------------------------
(***************************************************************************)
(* The theorems of CallPipeline, for every campaign, every set of leads,   *)
(* calls, workers and endings, and every bound on duplicate deliveries.    *)
(***************************************************************************)
EXTENDS CallPipeline, LeadDecisionProofs, QueueTheorems

\* A message in the queue or in a worker is about a call that was placed and
\* has ended.
Delivered ==
  \A c \in Calls : /\ deliveries[c] > 0 => ending[c] # NoEnding
                   /\ ending[c] # NoEnding => caller[c] # NoLead
Queued == \A i \in 1..Len(queue) : ending[queue[i]] # NoEnding
Held == \A w \in Workers :
          pc[w] # "idle" => job[w] \in Calls /\ ending[job[w]] # NoEnding

\* What a worker loaded may be old, but a row whose counters are at the limit
\* can only be old in a lead that is terminal by now, which the guard of the
\* UPDATE refuses.
BelowLimits(row) ==
  row.retry_count < RetryLimit /\ row.follow_up_count < FollowUpLimit
SeenBelowLimits ==
  \A w \in Workers : pc[w] \in {"decide", "write"} =>
    BelowLimits(seen[w]) \/ lead[Caller(w)].status \in Terminal

IInv == TypeOK /\ Delivered /\ Queued /\ Held /\ SeenBelowLimits /\ CounterLimits

\* Pushing a call that has ended keeps every queued call an ended one.
LEMMA PushKeepsQueued ==
  ASSUME queue \in Seq(Calls), Queued, NEW c \in Calls, queue' = <<c>> \o queue,
         \A k \in Calls : ending[k] # NoEnding => ending'[k] # NoEnding,
         ending'[c] # NoEnding
  PROVE  queue' \in Seq(Calls) /\ Queued'
<1>1. /\ queue' \in Seq(Calls) /\ queue'[1] = c
      /\ \A i \in 2..Len(queue') : i - 1 \in 1..Len(queue) /\ queue'[i] = queue[i - 1]
  BY PushedQueue
<1>2. \A i \in 1..Len(queue) : queue[i] \in Calls /\ ending'[queue[i]] # NoEnding
  BY DEF Queued
<1>3. ASSUME NEW i \in 1..Len(queue') PROVE ending'[queue'[i]] # NoEnding
  <2>1. CASE i = 1
    BY <1>1, <2>1
  <2>2. CASE i # 1
    <3>1. i \in 2..Len(queue')
      BY <1>1, <2>2
    <3>2. QED
      BY <1>1, <1>2, <3>1
  <2>3. QED
    BY <2>1, <2>2
<1>4. QED
  BY <1>1, <1>3 DEF Queued

LEMMA InitEstablishes == Init => IInv
<1> SUFFICES ASSUME Init PROVE IInv
  OBVIOUS
<1>1. NewLead \in LeadRows
  BY DEF NewLead, LeadRows, LeadStatuses
<1>2. TypeOK
  BY <1>1 DEF Init, TypeOK, Stages
<1>3. Delivered /\ Queued /\ Held /\ SeenBelowLimits
  BY DEF Init, Delivered, Queued, Held, SeenBelowLimits
<1>4. CounterLimits
  BY LimitsArePositive
  DEF Init, CounterLimits, NewLead, LiveRowBelowLimits, RowWithinLimits
<1>5. QED
  BY <1>2, <1>3, <1>4 DEF IInv

-----------------------------------------------------------------------------
(* The environment.                                                        *)

LEMMA ClaimPreserves ==
  ASSUME IInv, NEW l \in Leads, NEW c \in Calls, Claim(l, c)
  PROVE  IInv'
<1> USE DEF IInv
<1> DEFINE new == [lead[l] EXCEPT !.status = "calling"]
<1>1. /\ lead[l] \in LeadRows /\ lead' = [lead EXCEPT ![l] = new]
      /\ caller' = [caller EXCEPT ![c] = l] /\ caller[c] = NoLead
      /\ dials' = [dials EXCEPT ![l] = Append(@, c)]
      /\ UNCHANGED <<ending, summary, logged, broker, local, deliveries, sent, fate>>
      /\ lead[l].status \notin Terminal
  BY DEF Claim, TypeOK, Redialled, Terminal
<1>2. /\ new \in LeadRows /\ new.retry_count = lead[l].retry_count
      /\ new.follow_up_count = lead[l].follow_up_count /\ new.status = "calling"
  BY <1>1 DEF LeadRows, LeadStatuses
<1> HIDE DEF new
<1>3. TypeOK'
  BY <1>1, <1>2 DEF TypeOK, broker, local
<1>4. Delivered' /\ Queued' /\ Held'
  BY <1>1, PipelineAssumption DEF TypeOK, Delivered, Queued, Held, broker, local
<1>5. SeenBelowLimits'
  <2>1. \A w \in Workers : pc[w] # "idle" => job[w] # c
    BY <1>1 DEF Delivered, Held
  <2>2. \A k \in Leads : lead[k].status \in Terminal => lead'[k] = lead[k]
    BY <1>1 DEF TypeOK
  <2>3. \A w \in Workers : pc[w] # "idle" =>
          Caller(w)' = Caller(w) /\ Caller(w) \in Leads
    BY <1>1, <2>1 DEF TypeOK, Delivered, Held, Caller, local
  <2>4. QED
    BY <1>1, <2>2, <2>3 DEF SeenBelowLimits, BelowLimits, local
<1>6. CounterLimits'
  BY <1>1, <1>2 DEF TypeOK, CounterLimits, LiveRowBelowLimits, RowWithinLimits
<1>7. QED
  BY <1>3, <1>4, <1>5, <1>6

LEMMA EndCallPreserves ==
  ASSUME IInv, NEW c \in Calls, NEW e \in Endings, EndCall(c, e)
  PROVE  IInv'
<1> USE DEF IInv
<1>1. /\ caller[c] # NoLead /\ ending[c] = NoEnding
      /\ ending' = [ending EXCEPT ![c] = e]
      /\ queue' = <<c>> \o queue
      /\ deliveries' = [deliveries EXCEPT ![c] = @ + 1]
      /\ UNCHANGED <<lead, caller, summary, logged, dlq, local, dials, sent, fate>>
      /\ e # NoEnding
  BY PipelineAssumption DEF EndCall, Push
<1>2. Delivered'
  BY <1>1 DEF TypeOK, Delivered
<1>3. /\ \A k \in Calls : ending[k] # NoEnding => ending'[k] # NoEnding
      /\ ending'[c] # NoEnding
  BY <1>1 DEF TypeOK
<1>4. queue' \in Seq(Calls) /\ Queued'
  BY <1>1, <1>3, PushKeepsQueued DEF TypeOK
<1>5. TypeOK'
  BY <1>1, <1>4 DEF TypeOK, local
<1>6. Held'
  BY <1>1, <1>3 DEF TypeOK, Held, local
<1>7. SeenBelowLimits' /\ CounterLimits'
  BY <1>1 DEF SeenBelowLimits, BelowLimits, CounterLimits, LiveRowBelowLimits,
     RowWithinLimits, Caller, local
<1>8. QED
  BY <1>5, <1>2, <1>4, <1>6, <1>7

LEMMA RedeliverPreserves ==
  ASSUME IInv, NEW c \in Calls, Redeliver(c)
  PROVE  IInv'
<1> USE DEF IInv
<1>1. /\ deliveries[c] > 0
      /\ queue' = <<c>> \o queue
      /\ deliveries' = [deliveries EXCEPT ![c] = @ + 1]
      /\ UNCHANGED <<database, dlq, local, dials, sent, fate>>
  BY PipelineAssumption DEF Redeliver, Push, TypeOK
<1>2. ending[c] # NoEnding
  BY <1>1 DEF Delivered
<1>3. Delivered' /\ Held'
  BY <1>1, <1>2 DEF TypeOK, Delivered, Held, local, database
<1>4. queue' \in Seq(Calls) /\ Queued'
  BY <1>1, <1>2, PushKeepsQueued DEF TypeOK, database
<1>5. TypeOK'
  BY <1>1, <1>4 DEF TypeOK, local, database
<1>6. SeenBelowLimits' /\ CounterLimits'
  BY <1>1 DEF SeenBelowLimits, BelowLimits, CounterLimits, LiveRowBelowLimits,
     RowWithinLimits, Caller, local, database
<1>7. QED
  BY <1>5, <1>3, <1>4, <1>6

-----------------------------------------------------------------------------
(* The worker.                                                             *)

\* A message a worker holds is about a placed and ended call.
LEMMA HeldFacts ==
  ASSUME IInv, NEW w \in Workers, pc[w] # "idle"
  PROVE  /\ job[w] \in Calls /\ Ending(w) \in Endings /\ Ending(w) \in EndingRecords
         /\ Caller(w) \in Leads
         /\ LastRoleMarkers(Ending(w).transcript) \in Summaries
<1>1. /\ job[w] \in Calls /\ Ending(w) \in Endings /\ Ending(w) \in EndingRecords
      /\ Caller(w) \in Leads
  BY PipelineAssumption DEF IInv, TypeOK, Held, Delivered, Ending, Caller
<1>2. Ending(w).transcript \in Seq(Events)
  BY <1>1 DEF EndingRecords
<1>3. QED
  BY <1>1, <1>2, MarkersAreRight

LEMMA PopPreserves ==
  ASSUME IInv, NEW w \in Workers, Pop(w)
  PROVE  IInv'
<1> USE DEF IInv
<1> DEFINE c == Head(queue)
<1>1. /\ queue # <<>> /\ queue' = Tail(queue) /\ pc[w] = "idle"
      /\ job' = [job EXCEPT ![w] = c]
      /\ \E stage \in {"summarize", "dead_letter"} : pc' = [pc EXCEPT ![w] = stage]
      /\ UNCHANGED <<database, dlq, seen, view, history>>
  BY DEF Pop
<1>2. /\ c \in Calls /\ Tail(queue) \in Seq(Calls) /\ ending[c] # NoEnding
      /\ \A i \in 1..Len(Tail(queue)) :
           i + 1 \in 1..Len(queue) /\ Tail(queue)[i] = queue[i + 1]
  BY <1>1, PoppedQueue DEF TypeOK, Queued
<1> HIDE DEF c
<1>3. TypeOK'
  BY <1>1, <1>2 DEF TypeOK, Stages, database, history
<1>4. Delivered' /\ Queued' /\ Held'
  BY <1>1, <1>2 DEF TypeOK, Delivered, Queued, Held, database, history
<1>5. SeenBelowLimits' /\ CounterLimits'
  BY <1>1 DEF TypeOK, SeenBelowLimits, BelowLimits, CounterLimits,
     LiveRowBelowLimits, RowWithinLimits, Caller, database
<1>6. QED
  BY <1>3, <1>4, <1>5

\* A step of w that leaves leads, calls and queue alone, and in which w keeps
\* its message or drops it, needs to be looked at only for what w has seen.
LEMMA QuietStep ==
  ASSUME IInv, TypeOK', NEW w \in Workers, pc[w] # "idle",
         UNCHANGED <<lead, caller, ending, queue, deliveries>>,
         \A v \in Workers \ {w} :
           pc'[v] = pc[v] /\ job'[v] = job[v] /\ seen'[v] = seen[v],
         pc'[w] # "idle" => job'[w] = job[w],
         pc'[w] \in {"decide", "write"} =>
           BelowLimits(seen'[w]) \/ lead[Caller(w)].status \in Terminal
  PROVE  IInv'
<1> USE DEF IInv
<1>1. Delivered' /\ Queued'
  BY DEF Delivered, Queued
<1>2. Held'
  BY DEF Held
<1>3. SeenBelowLimits'
  BY DEF SeenBelowLimits, BelowLimits, Caller
<1>4. CounterLimits'
  BY DEF CounterLimits, LiveRowBelowLimits, RowWithinLimits
<1>5. QED
  BY <1>1, <1>2, <1>3, <1>4

LEMMA FinishPreserves ==
  ASSUME IInv, NEW w \in Workers, pc[w] # "idle", NEW f \in Fates, Finish(w, f),
         UNCHANGED <<database, queue>>, dlq' \in SUBSET Calls
  PROVE  IInv'
<1>1. NewLead \in LeadRows
  BY DEF NewLead, LeadRows, LeadStatuses
<1>2. TypeOK'
  BY <1>1 DEF IInv, TypeOK, Finish, Stages, database
<1>3. /\ \A v \in Workers \ {w} :
           pc'[v] = pc[v] /\ job'[v] = job[v] /\ seen'[v] = seen[v]
      /\ pc'[w] = "idle"
      /\ UNCHANGED <<lead, caller, ending, queue, deliveries>>
  BY DEF IInv, TypeOK, Finish, database
<1>4. QED
  BY <1>2, <1>3, QuietStep

LEMMA GotoPreserves ==
  ASSUME IInv, NEW w \in Workers, pc[w] # "idle",
         NEW stage \in {"insert", "callbacks", "send", "load"}, Goto(w, stage),
         UNCHANGED <<lead, caller, ending, queue, dlq>>,
         summary' \in [Calls -> Summaries \cup {NoSummary}],
         logged' \in [Calls -> Nat]
  PROVE  IInv'
<1>1. TypeOK'
  BY DEF IInv, TypeOK, Goto, Stages, history
<1>2. /\ \A v \in Workers \ {w} :
           pc'[v] = pc[v] /\ job'[v] = job[v] /\ seen'[v] = seen[v]
      /\ pc'[w] = stage /\ job' = job /\ UNCHANGED deliveries
  BY DEF IInv, TypeOK, Goto, history
<1>3. QED
  BY <1>1, <1>2, QuietStep

LEMMA DeadLetterPreserves ==
  ASSUME IInv, NEW w \in Workers, DeadLetter(w)
  PROVE  IInv'
<1>1. /\ pc[w] # "idle" /\ dlq' = dlq \cup {job[w]} /\ Finish(w, "dead_letter")
      /\ UNCHANGED <<database, queue>>
  BY DEF DeadLetter
<1>2. dlq' \in SUBSET Calls
  BY <1>1, HeldFacts DEF IInv, TypeOK
<1>3. QED
  BY <1>1, <1>2, FinishPreserves DEF Fates

LEMMA SummarizePreserves ==
  ASSUME IInv, NEW w \in Workers, SummarizeRead(w) \/ SummarizeInsert(w)
  PROVE  IInv'
<1>1. CASE SummarizeRead(w)
  <2>1. /\ pc[w] # "idle"
        /\ \E stage \in {"insert", "callbacks"} : Goto(w, stage)
        /\ UNCHANGED <<database, broker>>
    BY <1>1 DEF SummarizeRead
  <2>2. QED
    BY <2>1, GotoPreserves DEF IInv, TypeOK, database, broker
<1>2. CASE SummarizeInsert(w)
  <2>1. /\ pc[w] # "idle" /\ Goto(w, "callbacks")
        /\ UNCHANGED <<lead, caller, ending, logged, broker>>
    BY <1>2 DEF SummarizeInsert
  <2>2. summary' \in [Calls -> Summaries \cup {NoSummary}]
    BY <1>2, <2>1, HeldFacts DEF SummarizeInsert, IInv, TypeOK
  <2>3. QED
    BY <2>1, <2>2, GotoPreserves DEF IInv, TypeOK, broker
<1>3. QED
  BY <1>1, <1>2

LEMMA CallbacksPreserve ==
  ASSUME IInv, NEW w \in Workers,
         CallbacksLoad(w) \/ CallbacksSend(w) \/ CallbacksCommit(w)
  PROVE  IInv'
<1>1. CASE CallbacksLoad(w)
  <2>1. /\ pc[w] # "idle"
        /\ \E stage \in {"send", "load"} : Goto(w, stage)
        /\ UNCHANGED <<database, broker>>
    BY <1>1 DEF CallbacksLoad
  <2>2. QED
    BY <2>1, GotoPreserves DEF IInv, TypeOK, database, broker
<1>2. CASE CallbacksSend(w)
  <2>1. /\ pc[w] # "idle" /\ pc' = [pc EXCEPT ![w] = "log"]
        /\ sent' \in {sent, [sent EXCEPT ![job[w]] = @ + 1]}
        /\ UNCHANGED <<database, broker, job, seen, view, dials, deliveries, fate>>
    BY <1>2 DEF CallbacksSend
  <2>2. TypeOK'
    BY <2>1 DEF IInv, TypeOK, Stages, database, broker
  <2>3. QED
    BY <2>1, <2>2, QuietStep DEF IInv, TypeOK, database, broker
<1>3. CASE CallbacksCommit(w)
  <2>1. /\ pc[w] # "idle" /\ Goto(w, "load")
        /\ logged' = [logged EXCEPT ![job[w]] = @ + 1]
        /\ UNCHANGED <<lead, caller, ending, summary, broker>>
    BY <1>3 DEF CallbacksCommit
  <2>2. logged' \in [Calls -> Nat]
    <3>1. job[w] \in Calls /\ logged \in [Calls -> Nat]
      BY <2>1, HeldFacts DEF IInv, TypeOK
    <3>2. QED
      BY <2>1, <3>1
  <2>3. QED
    BY <2>1, <2>2, GotoPreserves DEF IInv, TypeOK, broker
<1>4. QED
  BY <1>1, <1>2, <1>3

LEMMA LeadLoadPreserves ==
  ASSUME IInv, NEW w \in Workers, LeadLoad(w)
  PROVE  IInv'
<1>1. /\ pc[w] # "idle" /\ UNCHANGED <<database, broker>>
      /\ Caller(w) \in Leads
  BY HeldFacts DEF LeadLoad
<1>2. CASE Finish(w, "skipped")
  BY <1>1, <1>2, FinishPreserves DEF Fates, broker, IInv, TypeOK
<1>3. CASE /\ pc' = [pc EXCEPT ![w] = "decide"]
           /\ seen' = [seen EXCEPT ![w] = LoadRow(w)]
           /\ UNCHANGED <<job, view, history>>
  <2>1. TypeOK'
    BY <1>1, <1>3 DEF IInv, TypeOK, LoadRow, Stages, database, broker, history
  <2>2. seen'[w] = lead[Caller(w)] /\ pc'[w] = "decide"
    BY <1>3 DEF IInv, TypeOK, LoadRow
  <2>3. BelowLimits(seen'[w]) \/ lead[Caller(w)].status \in Terminal
    BY <1>1, <2>2 DEF IInv, CounterLimits, LiveRowBelowLimits, BelowLimits
  <2>4. QED
    BY <1>1, <1>3, <2>1, <2>3, QuietStep
    DEF IInv, TypeOK, database, broker, history
<1>4. QED
  BY <1>2, <1>3 DEF LeadLoad

LEMMA LeadDecidePreserves ==
  ASSUME IInv, NEW w \in Workers, LeadDecide(w)
  PROVE  IInv'
<1>1. /\ pc[w] = "decide" /\ pc' = [pc EXCEPT ![w] = "write"]
      /\ view' = [view EXCEPT ![w] = summary[job[w]]]
      /\ UNCHANGED <<database, broker, job, seen, history>>
      /\ job[w] \in Calls
  BY HeldFacts DEF LeadDecide
<1>2. TypeOK'
  BY <1>1 DEF IInv, TypeOK, Stages, database, broker, history
<1>3. BelowLimits(seen'[w]) \/ lead[Caller(w)].status \in Terminal
  BY <1>1 DEF IInv, SeenBelowLimits
<1>4. QED
  BY <1>1, <1>2, <1>3, QuietStep DEF IInv, TypeOK, database, broker, history

\* The decision is taken on a row below the limits, because the guard holds;
\* the counter that it does not raise is the row's own.
LEMMA LeadWritePreserves ==
  ASSUME IInv, NEW w \in Workers, LeadWrite(w)
  PROVE  IInv'
<1> DEFINE l == Caller(w)
           d == Decision(w)
           new == WriteBack(lead[l], seen[w], d)
<1>1. /\ pc[w] = "write" /\ pc[w] # "idle" /\ l \in Leads
      /\ lead[l] \in LeadRows /\ seen[w] \in LeadRows
      /\ UNCHANGED <<caller, ending, summary, logged, broker>>
  BY HeldFacts DEF LeadWrite, IInv, TypeOK
<1>2. CASE Finish(w, "blocked") /\ UNCHANGED lead
  BY <1>1, <1>2, FinishPreserves DEF Fates, database, broker, IInv, TypeOK
<1>3. CASE /\ GuardHolds(lead[l]) /\ Finish(w, "written")
           /\ lead' = [lead EXCEPT ![l] = new]
  <2>1. /\ lead[l].status = "calling" /\ lead[l].status \notin Terminal
        /\ BelowLimits(lead[l]) /\ BelowLimits(seen[w])
    BY <1>1, <1>3 DEF IInv, GuardHolds, SeenBelowLimits, CounterLimits,
       LiveRowBelowLimits, BelowLimits, Terminal
  <2>2. d \in Decisions
    BY <1>1, DecisionType DEF Decision
  <2>3. /\ d.retry_count_delta + d.follow_up_count_delta \in {0, 1}
        /\ d.status \in Redialled =>
             \/ /\ d.retry_count_delta = 1 /\ d.follow_up_count_delta = 0
                /\ seen[w].retry_count + 1 < RetryLimit
             \/ /\ d.retry_count_delta = 0 /\ d.follow_up_count_delta = 1
                /\ seen[w].follow_up_count + 1 < FollowUpLimit
    BY <1>1, DecisionLimits DEF Decision
  <2> HIDE DEF d
  <2>4. /\ new \in LeadRows /\ new.status = d.status
        /\ new.retry_count = IF d.retry_count_delta = 0 THEN lead[l].retry_count
                             ELSE seen[w].retry_count + 1
        /\ new.follow_up_count =
             IF d.follow_up_count_delta = 0 THEN lead[l].follow_up_count
             ELSE seen[w].follow_up_count + 1
    BY <1>1, <2>2, WriteBackRow
  <2> HIDE DEF new, l
  <2>5. LiveRowBelowLimits(new) /\ RowWithinLimits(new)
    <3>1. /\ d.status \in Redialled \cup Terminal
          /\ d.retry_count_delta \in {0, 1} /\ d.follow_up_count_delta \in {0, 1}
          /\ lead[l].retry_count \in Nat /\ lead[l].follow_up_count \in Nat
          /\ seen[w].retry_count \in Nat /\ seen[w].follow_up_count \in Nat
      BY <1>1, <2>2 DEF Decisions, LeadRows
    <3>2. QED
      BY <2>1, <2>3, <2>4, <3>1, LimitsArePositive
      DEF LiveRowBelowLimits, RowWithinLimits, BelowLimits
  <2>6. CounterLimits'
    BY <1>1, <1>3, <2>5
    DEF IInv, TypeOK, CounterLimits, LiveRowBelowLimits, RowWithinLimits
  <2>7. TypeOK'
    <3>1. NewLead \in LeadRows
      BY DEF NewLead, LeadRows, LeadStatuses
    <3>2. QED
      BY <1>1, <1>3, <2>4, <3>1 DEF IInv, TypeOK, Finish, Stages, Fates, broker
  <2>8. Delivered' /\ Queued' /\ Held'
    BY <1>1, <1>3 DEF IInv, TypeOK, Finish, Delivered, Queued, Held, broker
  <2>9. SeenBelowLimits'
    <3>1. \A k \in Leads : lead[k].status \in Terminal => lead'[k] = lead[k]
      BY <1>1, <1>3, <2>1 DEF IInv, TypeOK
    <3>2. ASSUME NEW v \in Workers, pc'[v] \in {"decide", "write"}
          PROVE  BelowLimits(seen'[v]) \/ lead'[Caller(v)'].status \in Terminal
      <4>1. /\ v # w /\ pc'[v] = pc[v] /\ seen'[v] = seen[v]
            /\ Caller(v)' = Caller(v)
        BY <1>1, <1>3, <3>2 DEF IInv, TypeOK, Finish, Caller
      <4>2. Caller(v) \in Leads
        BY <3>2, <4>1, HeldFacts
      <4>3. QED
        BY <3>1, <3>2, <4>1, <4>2 DEF IInv, SeenBelowLimits
    <3>3. QED
      BY <3>2 DEF SeenBelowLimits, BelowLimits
  <2>10. QED
    BY <2>6, <2>7, <2>8, <2>9 DEF IInv
<1>4. QED
  BY <1>2, <1>3 DEF LeadWrite

LEMMA FailurePreserves ==
  ASSUME IInv, NEW w \in Workers, StageFails(w) \/ Crash(w)
  PROVE  IInv'
<1>1. /\ pc[w] # "idle" /\ UNCHANGED <<database, broker>>
      /\ Finish(w, "lost") \/ Goto(w, "callbacks") \/ Goto(w, "load")
  BY DEF StageFails, Crash, AfterFailure
<1>2. CASE Finish(w, "lost")
  BY <1>1, <1>2, FinishPreserves DEF Fates, broker, IInv, TypeOK
<1>3. CASE Goto(w, "callbacks") \/ Goto(w, "load")
  BY <1>1, <1>3, GotoPreserves DEF IInv, TypeOK, database, broker
<1>4. QED
  BY <1>1, <1>2, <1>3

-----------------------------------------------------------------------------
LEMMA Inductive == IInv /\ [Next]_vars => IInv'
<1> SUFFICES ASSUME IInv, [Next]_vars PROVE IInv'
  OBVIOUS
<1>1. CASE Environment
  BY <1>1, ClaimPreserves, EndCallPreserves, RedeliverPreserves DEF Environment
<1>2. ASSUME NEW w \in Workers, Worker(w) PROVE IInv'
  BY <1>2, PopPreserves, DeadLetterPreserves, SummarizePreserves, CallbacksPreserve,
     LeadLoadPreserves, LeadDecidePreserves, LeadWritePreserves, FailurePreserves
  DEF Worker, Progress
<1>3. CASE UNCHANGED vars
  BY <1>3 DEF vars, database, broker, local, history, IInv, TypeOK, Delivered, Queued,
     Held, SeenBelowLimits, BelowLimits, Caller, CounterLimits, LiveRowBelowLimits,
     RowWithinLimits
<1>4. QED
  BY <1>1, <1>2, <1>3 DEF Next

\* The inductive invariant holds of every behaviour.
THEOREM Invariance == Spec => []IInv
BY InitEstablishes, Inductive, PTL DEF Spec

\* Rows, messages and local variables keep their types.
THEOREM TypeCorrect == Spec => []TypeOK
BY Invariance, PTL DEF IInv

\* Duplicated messages, stale reads, failures and crashes never take a
\* counter past the campaign's limit.
THEOREM LimitsHold == Spec => []CounterLimits
BY Invariance, PTL DEF IInv

\* Nor do they ever touch a lead that is in a terminal status.
THEOREM TerminalStays == Spec => TerminalIsFinal
<1> DEFINE Kept == \A l \in Leads : lead[l].status \in Terminal => lead'[l] = lead[l]
<1>1. ASSUME IInv, [Next]_vars PROVE [Kept]_vars
  <2>1. ASSUME NEW k \in Leads, NEW c \in Calls, Claim(k, c) PROVE Kept
    BY <1>1, <2>1 DEF IInv, TypeOK, Claim, Terminal, Redialled
  <2>2. ASSUME NEW w \in Workers, LeadWrite(w) PROVE Kept
    BY <1>1, <2>2 DEF IInv, TypeOK, LeadWrite, GuardHolds, Terminal
  <2>3. ASSUME lead' = lead PROVE Kept
    BY <2>3
  <2>4. CASE Environment
    BY <2>1, <2>3, <2>4 DEF Environment, EndCall, Redeliver, database
  <2>5. ASSUME NEW w \in Workers, Worker(w) PROVE LeadWrite(w) \/ lead' = lead
    BY <2>5 DEF Worker, Progress, Pop, DeadLetter, SummarizeRead, SummarizeInsert,
       CallbacksLoad, CallbacksSend, CallbacksCommit, LeadLoad, LeadDecide,
       StageFails, Crash, database
  <2>6. QED
    BY <1>1, <2>2, <2>3, <2>4, <2>5 DEF Next
<1>2. QED
  BY <1>1, Invariance, PTL DEF Spec, TerminalIsFinal

-----------------------------------------------------------------------------
(***************************************************************************)
(* What each call's rows say, for every number of duplicate deliveries.    *)
(* A step of a worker takes a message, keeps the one it holds, or ends     *)
(* with it; the lemmas below need only what these three have in common.    *)
(***************************************************************************)
Unsent == {"dead_letter", "summarize", "insert", "callbacks", "send"}
Unlogged == Unsent \cup {"log"}

OthersStay(w) ==
  \A v \in Workers \ {w} :
    pc'[v] = pc[v] /\ job'[v] = job[v] /\ seen'[v] = seen[v] /\ view'[v] = view[v]

Takes(w) ==
  /\ pc[w] = "idle" /\ queue # <<>>
  /\ job'[w] = Head(queue) /\ queue' = Tail(queue)
  /\ pc'[w] = IF ending[Head(queue)].valid THEN "summarize" ELSE "dead_letter"
  /\ OthersStay(w)
  /\ UNCHANGED <<database, dlq, history>>

Keeps(w) ==
  /\ pc[w] \notin {"idle", "dead_letter"} /\ pc'[w] \notin {"idle", "dead_letter"}
  /\ job'[w] = job[w] /\ OthersStay(w)
  /\ pc'[w] \in Unsent => pc[w] \in Unsent
  /\ pc'[w] \in Unlogged => pc[w] \in Unlogged
  /\ pc'[w] = "send" => EvaluateTrigger(EvalContext(summary[job[w]]))
  /\ pc'[w] = "decide" => seen'[w] = lead[Caller(w)]
  /\ pc'[w] = "write" =>
       pc[w] = "decide" /\ seen'[w] = seen[w] /\ view'[w] = summary[job[w]]
  /\ \/ summary' = summary
     \/ /\ pc[w] = "insert" /\ pc'[w] = "callbacks" /\ summary[job[w]] = NoSummary
        /\ summary' = [summary EXCEPT ![job[w]] =
                         LastRoleMarkers(Ending(w).transcript)]
  /\ \/ sent' = sent
     \/ pc[w] = "send" /\ pc'[w] = "log" /\ sent' = [sent EXCEPT ![job[w]] = @ + 1]
  /\ \/ logged' = logged
     \/ pc[w] = "log" /\ pc'[w] = "load" /\ logged' = [logged EXCEPT ![job[w]] = @ + 1]
  /\ UNCHANGED <<lead, caller, ending, broker, dials, deliveries, fate>>

EndsWith(w, f) ==
  /\ pc[w] # "idle" /\ pc'[w] = "idle" /\ OthersStay(w)
  /\ pc[w] = "dead_letter" => f \in {"dead_letter", "lost"}
  /\ IF f = "dead_letter" THEN pc[w] = "dead_letter" /\ dlq' = dlq \cup {job[w]}
                          ELSE dlq' = dlq
  /\ CASE f = "written" -> LeadWrite(w) /\ GuardHolds(lead[Caller(w)])
       [] f = "blocked" -> pc[w] = "write" /\ ~GuardHolds(lead[Caller(w)]) /\ lead' = lead
       [] OTHER -> lead' = lead
  /\ fate' = [fate EXCEPT ![job[w]] = @ \cup {f}]
  /\ UNCHANGED <<caller, ending, summary, logged, queue, dials, deliveries, sent>>

LEMMA FinishEnds ==
  ASSUME TypeOK, NEW w \in Workers, NEW f, Finish(w, f)
  PROVE  /\ pc'[w] = "idle" /\ OthersStay(w)
         /\ fate' = [fate EXCEPT ![job[w]] = @ \cup {f}]
         /\ UNCHANGED <<dials, deliveries, sent>>
BY DEF TypeOK, Finish, OthersStay

LEMMA GotoKeeps ==
  ASSUME TypeOK, NEW w \in Workers, NEW stage, Goto(w, stage)
  PROVE  /\ pc'[w] = stage /\ job'[w] = job[w] /\ OthersStay(w)
         /\ UNCHANGED <<dials, deliveries, sent, fate>>
BY DEF TypeOK, Goto, OthersStay, history

LEMMA PopTakes ==
  ASSUME TypeOK, NEW w \in Workers, Pop(w)
  PROVE  Takes(w)
BY DEF TypeOK, Pop, Takes, OthersStay, Validates, history, database

LEMMA StageKeepsOrEnds ==
  ASSUME IInv, NEW w \in Workers, Progress(w), ~Pop(w)
  PROVE  Keeps(w) \/ \E f \in Fates : EndsWith(w, f)
<1> USE DEF IInv
<1>1. CASE DeadLetter(w)
  BY <1>1, FinishEnds DEF DeadLetter, EndsWith, Fates, database
<1>2. CASE SummarizeRead(w)
  BY <1>2, GotoKeeps DEF SummarizeRead, Keeps, Unsent, Unlogged, database, broker
<1>3. CASE SummarizeInsert(w)
  <2>1. /\ pc[w] = "insert" /\ pc'[w] = "callbacks"
        /\ \/ summary' = summary
           \/ /\ summary[job[w]] = NoSummary
              /\ summary' = [summary EXCEPT ![job[w]] =
                               LastRoleMarkers(Ending(w).transcript)]
    BY <1>3, GotoKeeps, HeldFacts DEF SummarizeInsert, TypeOK
  <2>2. QED
    BY <1>3, <2>1, GotoKeeps DEF SummarizeInsert, Keeps, Unsent, Unlogged, broker
<1>4. CASE CallbacksLoad(w)
  BY <1>4, GotoKeeps DEF CallbacksLoad, Keeps, Unsent, Unlogged, database, broker
<1>5. CASE CallbacksSend(w)
  <2>1. /\ pc[w] = "send" /\ pc'[w] = "log" /\ OthersStay(w)
        /\ \/ sent' = sent
           \/ sent' = [sent EXCEPT ![job[w]] = @ + 1]
    BY <1>5 DEF CallbacksSend, TypeOK, OthersStay
  <2>2. QED
    BY <1>5, <2>1 DEF CallbacksSend, Keeps, Unsent, Unlogged, database, broker
<1>6. CASE CallbacksCommit(w)
  BY <1>6, GotoKeeps DEF CallbacksCommit, Keeps, Unsent, Unlogged, broker
<1>7. CASE LeadLoad(w)
  <2>1. CASE Finish(w, "skipped")
    BY <1>7, <2>1, FinishEnds DEF LeadLoad, EndsWith, Fates, database, broker
  <2>2. CASE ~Finish(w, "skipped")
    BY <1>7, <2>2
    DEF LeadLoad, LoadRow, TypeOK, Keeps, OthersStay, Unsent, Unlogged, database,
        broker, history
  <2>3. QED
    BY <2>1, <2>2
<1>8. CASE LeadDecide(w)
  BY <1>8 DEF LeadDecide, TypeOK, Keeps, OthersStay, Unsent, Unlogged, database,
     broker, history
<1>9. CASE LeadWrite(w)
  <2>1. CASE GuardHolds(lead[Caller(w)])
    BY <1>9, <2>1, FinishEnds DEF LeadWrite, EndsWith, Fates, broker
  <2>2. CASE ~GuardHolds(lead[Caller(w)])
    BY <1>9, <2>2, FinishEnds DEF LeadWrite, EndsWith, Fates, broker
  <2>3. QED
    BY <2>1, <2>2
<1>10. QED
  BY <1>1, <1>2, <1>3, <1>4, <1>5, <1>6, <1>7, <1>8, <1>9 DEF Progress

LEMMA FailureKeepsOrEnds ==
  ASSUME IInv, NEW w \in Workers, StageFails(w) \/ Crash(w)
  PROVE  Keeps(w) \/ \E f \in Fates : EndsWith(w, f)
<1> USE DEF IInv
<1>1. CASE Finish(w, "lost")
  BY <1>1, FinishEnds DEF StageFails, Crash, EndsWith, Fates, database, broker
<1>2. CASE ~Finish(w, "lost")
  <2>1. /\ pc[w] \in {"summarize", "insert", "callbacks", "send", "log"}
        /\ Goto(w, AfterFailure(pc[w])) /\ UNCHANGED <<database, broker>>
    BY <1>2 DEF StageFails, Crash, AfterFailure
  <2>2. QED
    BY <2>1, GotoKeeps
    DEF AfterFailure, Keeps, Unsent, Unlogged, database, broker
<1>3. QED
  BY <1>1, <1>2

LEMMA WorkerSteps ==
  ASSUME IInv, NEW w \in Workers, Worker(w)
  PROVE  Takes(w) \/ Keeps(w) \/ \E f \in Fates : EndsWith(w, f)
BY PopTakes, StageKeepsOrEnds, FailureKeepsOrEnds DEF Worker, IInv

\* A call that has not ended has no rows and no deliveries that ended.
Untouched ==
  \A c \in Calls : ending[c] = NoEnding =>
    fate[c] = {} /\ c \notin dlq /\ summary[c] = NoSummary /\ sent[c] = 0 /\ logged[c] = 0

\* The message is validated once, where it is popped.
ValidWork ==
  \A w \in Workers : pc[w] # "idle" => (pc[w] = "dead_letter" <=> ~Ending(w).valid)

StoredIsRead ==
  \A c \in Calls :
    summary[c] # NoSummary => summary[c] = LastRoleMarkers(ending[c].transcript)

\* Why the webhook of a call may be sent: its summary says so, or the missing
\* summary did.
Triggered(c) ==
  \E stored \in {summary[c], NoSummary} : EvaluateTrigger(EvalContext(stored))
OnlyTriggeredSent ==
  /\ \A w \in Workers : pc[w] = "send" => Triggered(job[w])
  /\ \A c \in Calls : sent[c] > 0 => Triggered(c)

\* The deliveries of a call that have not passed the stages named: they wait
\* in the queue or are in a worker's hand.
InHand(c, stages) == {w \in Workers : pc[w] \in stages /\ job[w] = c}
Open(c, stages) == Cardinality(Places(queue, c)) + Cardinality(InHand(c, stages))

\* A delivery sends, and logs, while it is open, and is closed by that.
PaidByDeliveries ==
  \A c \in Calls : /\ sent[c] + Open(c, Unsent) <= deliveries[c]
                   /\ logged[c] + Open(c, Unlogged) <= deliveries[c]

RowsInv ==
  /\ Untouched /\ ValidWork /\ StoredIsRead /\ InvalidOnlyDeadLettered
  /\ OnlyTriggeredSent /\ PaidByDeliveries

LEMMA HandsAreFinite ==
  ASSUME NEW c, NEW stages
  PROVE  IsFiniteSet(InHand(c, stages)) /\ Cardinality(InHand(c, stages)) \in Nat
BY FS_Subset, FS_CardinalityType, PipelineAssumption DEF InHand

LEMMA OpenIsNat ==
  ASSUME TypeOK, NEW c, NEW stages
  PROVE  Open(c, stages) \in Nat
<1>1. Cardinality(Places(queue, c)) \in Nat
  BY PlacesAreFinite DEF TypeOK
<1>2. QED
  BY <1>1, HandsAreFinite DEF Open

LEMMA RowsInit == Init => RowsInv
<1> SUFFICES ASSUME Init PROVE RowsInv
  OBVIOUS
<1>1. ASSUME NEW c \in Calls, NEW stages, "idle" \notin stages PROVE Open(c, stages) = 0
  <2>1. Places(queue, c) = {} /\ InHand(c, stages) = {}
    BY <1>1 DEF Init, Places, InHand
  <2>2. QED
    BY <2>1, FS_EmptySet DEF Open
<1>2. PaidByDeliveries
  BY <1>1 DEF Init, PaidByDeliveries, Unsent, Unlogged
<1>3. QED
  BY <1>2 DEF Init, RowsInv, Untouched, ValidWork, StoredIsRead,
     InvalidOnlyDeadLettered, OnlyTriggeredSent

\* A push opens one delivery, of the call it is about.
LEMMA PushOpens ==
  ASSUME TypeOK, NEW k \in Calls, Push(k), UNCHANGED <<pc, job>>,
         NEW c \in Calls, NEW stages
  PROVE  /\ Open(c, stages)' = Open(c, stages) + IF c = k THEN 1 ELSE 0
         /\ deliveries'[c] = deliveries[c] + IF c = k THEN 1 ELSE 0
<1>1. queue \in Seq(Calls) /\ queue' = <<k>> \o queue
  BY DEF TypeOK, Push
<1>2. Cardinality(Places(queue', c)) =
        Cardinality(Places(queue, c)) + IF c = k THEN 1 ELSE 0
  BY <1>1, PushedPlaces
<1>3. InHand(c, stages)' = InHand(c, stages)
  BY DEF InHand
<1>4. Cardinality(Places(queue, c)) \in Nat /\ Cardinality(InHand(c, stages)) \in Nat
  BY <1>1, PlacesAreFinite, HandsAreFinite
<1>5. QED
  BY <1>2, <1>3, <1>4 DEF Open, Push, TypeOK

\* Popping moves a delivery from the queue to a hand.
LEMMA TakesOpens ==
  ASSUME TypeOK, NEW w \in Workers, Takes(w), NEW c \in Calls, NEW stages,
         "idle" \notin stages
  PROVE  Open(c, stages)' \in Nat /\ Open(c, stages)' <= Open(c, stages)
<1>1. queue \in Seq(Calls) /\ queue # <<>> /\ queue' = Tail(queue)
  BY DEF TypeOK, Takes
<1>2. /\ Cardinality(Places(queue, c)) =
           Cardinality(Places(queue', c)) + IF Head(queue) = c THEN 1 ELSE 0
      /\ Cardinality(Places(queue', c)) \in Nat
  BY <1>1, PoppedPlaces, PlacesAreFinite, HeadTailProperties
<1>3. w \notin InHand(c, stages)
  BY DEF Takes, InHand
<1>4. InHand(c, stages)' \subseteq
        IF Head(queue) = c THEN InHand(c, stages) \cup {w} ELSE InHand(c, stages)
  BY DEF Takes, OthersStay, InHand
<1>5. /\ IsFiniteSet(InHand(c, stages)) /\ Cardinality(InHand(c, stages)) \in Nat
      /\ Cardinality(InHand(c, stages)') \in Nat
  <2>1. InHand(c, stages)' \in SUBSET Workers
    BY DEF InHand
  <2>2. QED
    BY <2>1, HandsAreFinite, FS_Subset, FS_CardinalityType, PipelineAssumption
<1>6. Cardinality(InHand(c, stages)') <=
        Cardinality(InHand(c, stages)) + IF Head(queue) = c THEN 1 ELSE 0
  <2>1. /\ IsFiniteSet(InHand(c, stages) \cup {w})
        /\ Cardinality(InHand(c, stages) \cup {w}) = Cardinality(InHand(c, stages)) + 1
    BY <1>3, <1>5, FS_AddElement
  <2>2. CASE Head(queue) = c
    BY <1>4, <2>1, <2>2, FS_Subset
  <2>3. CASE Head(queue) # c
    BY <1>4, <1>5, <2>3, FS_Subset
  <2>4. QED
    BY <2>2, <2>3
<1>7. QED
  BY <1>2, <1>5, <1>6 DEF Open

\* A worker that leaves the stages closes its delivery.
LEMMA StageCloses ==
  ASSUME TypeOK, NEW w \in Workers, OthersStay(w), queue' = queue,
         NEW c \in Calls, NEW stages,
         pc'[w] \in stages => pc[w] \in stages /\ job'[w] = job[w]
  PROVE  /\ Open(c, stages)' \in Nat
         /\ Open(c, stages)' <=
              Open(c, stages)
                - IF pc[w] \in stages /\ pc'[w] \notin stages /\ job[w] = c THEN 1 ELSE 0
<1>1. /\ IsFiniteSet(InHand(c, stages)) /\ Cardinality(InHand(c, stages)) \in Nat
      /\ InHand(c, stages)' \subseteq InHand(c, stages)
      /\ pc[w] \in stages /\ pc'[w] \notin stages /\ job[w] = c =>
           InHand(c, stages)' \subseteq InHand(c, stages) \ {w} /\ w \in InHand(c, stages)
  <2>1. /\ InHand(c, stages)' \subseteq InHand(c, stages)
        /\ pc[w] \in stages /\ pc'[w] \notin stages /\ job[w] = c =>
             InHand(c, stages)' \subseteq InHand(c, stages) \ {w} /\ w \in InHand(c, stages)
    BY DEF OthersStay, InHand
  <2>2. QED
    BY <2>1, HandsAreFinite
<1>2. /\ Cardinality(InHand(c, stages)') <= Cardinality(InHand(c, stages))
      /\ Cardinality(InHand(c, stages)') \in Nat
  BY <1>1, FS_Subset, FS_CardinalityType
<1>3. IsFiniteSet(InHand(c, stages) \ {w})
      /\ (w \in InHand(c, stages) =>
            Cardinality(InHand(c, stages) \ {w}) = Cardinality(InHand(c, stages)) - 1)
  BY <1>1, FS_RemoveElement
<1>4. pc[w] \in stages /\ pc'[w] \notin stages /\ job[w] = c =>
        Cardinality(InHand(c, stages)') <= Cardinality(InHand(c, stages)) - 1
  BY <1>1, <1>3, FS_Subset
<1>5. Cardinality(Places(queue, c)) \in Nat
  BY PlacesAreFinite DEF TypeOK
<1>6. QED
  BY <1>1, <1>2, <1>4, <1>5 DEF Open

LEMMA ClaimKeepsRows ==
  ASSUME IInv, RowsInv, NEW l \in Leads, NEW c \in Calls, Claim(l, c)
  PROVE  RowsInv'
<1>1. UNCHANGED <<ending, summary, logged, broker, local, deliveries, sent, fate>>
  BY DEF Claim
<1>2. QED
  BY <1>1 DEF RowsInv, Untouched, ValidWork, Ending, StoredIsRead,
     InvalidOnlyDeadLettered, OnlyTriggeredSent, Triggered, PaidByDeliveries, Open,
     InHand, broker, local

\* A push counts in the deliveries and opens one.
LEMMA PushKeepsPaid ==
  ASSUME IInv, PaidByDeliveries, NEW k \in Calls, Push(k), UNCHANGED <<pc, job, sent, logged>>
  PROVE  PaidByDeliveries'
<1>1. \A c \in Calls : \A stages :
        /\ Open(c, stages)' = Open(c, stages) + IF c = k THEN 1 ELSE 0
        /\ deliveries'[c] = deliveries[c] + IF c = k THEN 1 ELSE 0
  BY PushOpens DEF IInv
<1>2. \A c \in Calls : \A stages : Open(c, stages) \in Nat
  BY OpenIsNat DEF IInv
<1>3. \A c \in Calls : sent[c] \in Nat /\ logged[c] \in Nat /\ deliveries[c] \in Nat
  BY DEF IInv, TypeOK
<1>4. ASSUME NEW c \in Calls
      PROVE  /\ sent'[c] + Open(c, Unsent)' <= deliveries'[c]
             /\ logged'[c] + Open(c, Unlogged)' <= deliveries'[c]
  <2>1. /\ sent[c] + Open(c, Unsent) <= deliveries[c]
        /\ logged[c] + Open(c, Unlogged) <= deliveries[c]
    BY DEF PaidByDeliveries
  <2>2. QED
    BY <1>1, <1>2, <1>3, <2>1
<1>5. QED
  BY <1>4 DEF PaidByDeliveries, Unsent, Unlogged

LEMMA EndCallKeepsRows ==
  ASSUME IInv, RowsInv, NEW c \in Calls, NEW e \in Endings, EndCall(c, e)
  PROVE  RowsInv'
<1> USE DEF RowsInv
<1>1. /\ ending[c] = NoEnding /\ ending' = [ending EXCEPT ![c] = e] /\ Push(c)
      /\ UNCHANGED <<lead, caller, summary, logged, dlq, local, dials, sent, fate>>
      /\ ending \in [Calls -> Endings \cup {NoEnding}]
  BY DEF EndCall, IInv, TypeOK
<1>2. /\ ending'[c] = e /\ e # NoEnding
      /\ \A k \in Calls \ {c} : ending'[k] = ending[k]
  BY <1>1, PipelineAssumption
<1>3. \A w \in Workers : pc[w] # "idle" => job[w] \in Calls \ {c}
  BY <1>1 DEF IInv, Held
<1>4. Untouched' /\ InvalidOnlyDeadLettered'
  BY <1>1, <1>2 DEF Untouched, InvalidOnlyDeadLettered
<1>5. ValidWork' /\ StoredIsRead'
  BY <1>1, <1>2, <1>3 DEF ValidWork, StoredIsRead, Untouched, Ending, local
<1>6. OnlyTriggeredSent'
  BY <1>1 DEF OnlyTriggeredSent, Triggered, local
<1>7. PaidByDeliveries'
  BY <1>1, PushKeepsPaid DEF local
<1>8. QED
  BY <1>4, <1>5, <1>6, <1>7

LEMMA RedeliverKeepsRows ==
  ASSUME IInv, RowsInv, NEW c \in Calls, Redeliver(c)
  PROVE  RowsInv'
<1>1. Push(c) /\ UNCHANGED <<database, dlq, local, dials, sent, fate>>
  BY DEF Redeliver
<1>2. PaidByDeliveries'
  BY <1>1, PushKeepsPaid DEF RowsInv, local, database
<1>3. QED
  BY <1>1, <1>2 DEF RowsInv, Untouched, ValidWork, Ending, StoredIsRead,
     InvalidOnlyDeadLettered, OnlyTriggeredSent, Triggered, local, database

LEMMA TakesKeepsRows ==
  ASSUME IInv, RowsInv, NEW w \in Workers, Takes(w)
  PROVE  RowsInv'
<1> USE DEF RowsInv
<1>1. /\ OthersStay(w) /\ UNCHANGED <<database, dlq, history>>
      /\ job'[w] = Head(queue)
      /\ pc'[w] = IF ending[Head(queue)].valid THEN "summarize" ELSE "dead_letter"
  BY DEF Takes
<1>2. Untouched' /\ StoredIsRead' /\ InvalidOnlyDeadLettered'
  BY <1>1 DEF Untouched, StoredIsRead, InvalidOnlyDeadLettered, database, history
<1>3. ValidWork'
  BY <1>1 DEF ValidWork, Ending, OthersStay, database
<1>4. OnlyTriggeredSent'
  BY <1>1 DEF OnlyTriggeredSent, Triggered, OthersStay, database, history
<1>5. PaidByDeliveries'
  <2>1. \A c \in Calls :
          /\ Open(c, Unsent)' \in Nat /\ Open(c, Unsent)' <= Open(c, Unsent)
          /\ Open(c, Unlogged)' \in Nat /\ Open(c, Unlogged)' <= Open(c, Unlogged)
    BY TakesOpens DEF IInv, Unsent, Unlogged
  <2>2. \A c \in Calls : /\ Open(c, Unsent) \in Nat /\ Open(c, Unlogged) \in Nat
                         /\ sent[c] \in Nat /\ logged[c] \in Nat /\ deliveries[c] \in Nat
    BY OpenIsNat DEF IInv, TypeOK
  <2>3. QED
    BY <1>1, <2>1, <2>2 DEF PaidByDeliveries, database, history
<1>6. QED
  BY <1>2, <1>3, <1>4, <1>5

\* Whoever is not w holds what it held, and its message's call is unchanged
\* where the stages of w did not touch it.
LEMMA KeepsKeepsRows ==
  ASSUME IInv, RowsInv, NEW w \in Workers, Keeps(w)
  PROVE  RowsInv'
<1> USE DEF RowsInv
<1> DEFINE k == job[w]
<1>1. /\ k \in Calls /\ ending[k] # NoEnding /\ ending[k].valid
      /\ Ending(w) = ending[k]
      /\ LastRoleMarkers(ending[k].transcript) \in Summaries
  BY HeldFacts DEF Keeps, ValidWork, IInv, Held, Ending
<1>2. /\ OthersStay(w) /\ job'[w] = k /\ pc'[w] \notin {"idle", "dead_letter"}
      /\ UNCHANGED <<lead, caller, ending, broker, dials, deliveries, fate>>
  BY DEF Keeps
<1>3. \A c \in Calls \ {k} :
        summary'[c] = summary[c] /\ sent'[c] = sent[c] /\ logged'[c] = logged[c]
  BY <1>1 DEF Keeps, IInv, TypeOK
<1>4. \/ summary'[k] = summary[k]
      \/ summary[k] = NoSummary /\ summary'[k] = LastRoleMarkers(ending[k].transcript)
  BY <1>1 DEF Keeps, IInv, TypeOK
<1>5. Untouched' /\ InvalidOnlyDeadLettered' /\ StoredIsRead'
  BY <1>1, <1>2, <1>3, <1>4
  DEF Untouched, InvalidOnlyDeadLettered, StoredIsRead, broker
<1>6. ValidWork'
  BY <1>1, <1>2 DEF ValidWork, Ending, OthersStay
<1>7. OnlyTriggeredSent'
  <2> DEFINE NowTriggered(c) ==
        \E stored \in {summary'[c], NoSummary} : EvaluateTrigger(EvalContext(stored))
  <2>1. \A c \in Calls : Triggered(c) => NowTriggered(c)
    BY <1>3, <1>4 DEF Triggered
  <2>2. pc'[w] = "send" => NowTriggered(k)
    <3>1. pc'[w] = "send" => Triggered(k)
      BY DEF Keeps, Triggered
    <3>2. QED
      BY <1>1, <2>1, <3>1
  <2>3. \A c \in Calls : sent'[c] > 0 => NowTriggered(c)
    <3>1. sent'[k] = sent[k] \/ pc[w] = "send"
      BY <1>1 DEF Keeps, IInv, TypeOK
    <3>2. \A c \in Calls : sent'[c] > 0 => Triggered(c)
      BY <1>3, <3>1 DEF OnlyTriggeredSent
    <3>3. QED
      BY <2>1, <3>2
  <2>4. \A v \in Workers \ {w} : pc'[v] = "send" => NowTriggered(job'[v])
    <3>1. \A v \in Workers \ {w} : pc'[v] = "send" =>
            pc[v] = "send" /\ job'[v] = job[v] /\ job[v] \in Calls
      BY <1>2 DEF OthersStay, IInv, Held
    <3>2. QED
      BY <2>1, <3>1 DEF OnlyTriggeredSent
  <2>5. \A v \in Workers : pc'[v] = "send" => NowTriggered(job'[v])
    BY <1>2, <2>2, <2>4
  <2>6. QED
    BY <2>3, <2>5 DEF OnlyTriggeredSent, Triggered
<1>8. PaidByDeliveries'
  <2>1. \A c \in Calls :
          /\ Open(c, Unsent)' \in Nat
          /\ Open(c, Unsent)' <= Open(c, Unsent)
               - IF pc[w] \in Unsent /\ pc'[w] \notin Unsent /\ job[w] = c THEN 1 ELSE 0
          /\ Open(c, Unlogged)' \in Nat
          /\ Open(c, Unlogged)' <= Open(c, Unlogged)
               - IF pc[w] \in Unlogged /\ pc'[w] \notin Unlogged /\ job[w] = c THEN 1 ELSE 0
    BY <1>2, StageCloses DEF IInv, Keeps, broker
  <2>2. \A c \in Calls : /\ Open(c, Unsent) \in Nat /\ Open(c, Unlogged) \in Nat
                         /\ sent[c] \in Nat /\ logged[c] \in Nat /\ deliveries[c] \in Nat
    BY OpenIsNat DEF IInv, TypeOK
  <2>3. \/ sent'[k] = sent[k]
        \/ /\ sent'[k] = sent[k] + 1
           /\ pc[w] \in Unsent /\ pc'[w] \notin Unsent
    BY <1>1 DEF Keeps, Unsent, IInv, TypeOK
  <2>4. \/ logged'[k] = logged[k]
        \/ /\ logged'[k] = logged[k] + 1
           /\ pc[w] \in Unlogged /\ pc'[w] \notin Unlogged
    BY <1>1 DEF Keeps, Unlogged, Unsent, IInv, TypeOK
  <2>5. ASSUME NEW c \in Calls
        PROVE  /\ sent'[c] + Open(c, Unsent)' <= deliveries'[c]
               /\ logged'[c] + Open(c, Unlogged)' <= deliveries'[c]
    <3>1. /\ sent[c] + Open(c, Unsent) <= deliveries[c]
          /\ logged[c] + Open(c, Unlogged) <= deliveries[c]
          /\ deliveries'[c] = deliveries[c]
      BY <1>2 DEF PaidByDeliveries
    <3>2. CASE c = k
      BY <2>1, <2>2, <2>3, <2>4, <3>1, <3>2
    <3>3. CASE c # k
      BY <1>3, <2>1, <2>2, <3>1, <3>3
    <3>4. QED
      BY <3>2, <3>3
  <2>6. QED
    BY <2>5 DEF PaidByDeliveries, Unsent, Unlogged
<1>9. QED
  BY <1>5, <1>6, <1>7, <1>8

LEMMA EndsWithKeepsRows ==
  ASSUME IInv, RowsInv, NEW w \in Workers, NEW f \in Fates, EndsWith(w, f)
  PROVE  RowsInv'
<1> USE DEF RowsInv
<1> DEFINE k == job[w]
<1>1. /\ k \in Calls /\ ending[k] # NoEnding
      /\ pc[w] = "dead_letter" <=> ~ending[k].valid
  BY DEF EndsWith, ValidWork, IInv, Held, Ending
<1>2. /\ OthersStay(w) /\ pc'[w] = "idle"
      /\ UNCHANGED <<caller, ending, summary, logged, queue, dials, deliveries, sent>>
      /\ \A c \in Calls \ {k} : fate'[c] = fate[c] /\ (c \in dlq' <=> c \in dlq)
      /\ fate'[k] = fate[k] \cup {f}
      /\ ~ending[k].valid => f \in {"dead_letter", "lost"}
      /\ ending[k].valid => (k \in dlq' <=> k \in dlq)
  BY <1>1 DEF EndsWith, IInv, TypeOK
<1>3. Untouched' /\ InvalidOnlyDeadLettered' /\ StoredIsRead'
  BY <1>1, <1>2 DEF Untouched, InvalidOnlyDeadLettered, StoredIsRead
<1>4. ValidWork'
  BY <1>2 DEF ValidWork, Ending, OthersStay
<1>5. OnlyTriggeredSent'
  BY <1>2 DEF OnlyTriggeredSent, Triggered, OthersStay
<1>6. PaidByDeliveries'
  <2>1. \A c \in Calls :
          /\ Open(c, Unsent)' \in Nat /\ Open(c, Unsent)' <= Open(c, Unsent)
          /\ Open(c, Unlogged)' \in Nat /\ Open(c, Unlogged)' <= Open(c, Unlogged)
    <3>1. pc'[w] \notin Unsent /\ pc'[w] \notin Unlogged /\ queue' = queue
      BY <1>2 DEF Unsent, Unlogged
    <3>2. \A c \in Calls : /\ Open(c, Unsent)' \in Nat
                           /\ Open(c, Unsent)' <= Open(c, Unsent) - 0
                              \/ Open(c, Unsent)' <= Open(c, Unsent) - 1
                           /\ Open(c, Unlogged)' \in Nat
                           /\ Open(c, Unlogged)' <= Open(c, Unlogged) - 0
                              \/ Open(c, Unlogged)' <= Open(c, Unlogged) - 1
      BY <1>2, <3>1, StageCloses DEF IInv
    <3>3. \A c \in Calls : Open(c, Unsent) \in Nat /\ Open(c, Unlogged) \in Nat
      BY OpenIsNat DEF IInv
    <3>4. QED
      BY <3>2, <3>3
  <2>2. \A c \in Calls : /\ Open(c, Unsent) \in Nat /\ Open(c, Unlogged) \in Nat
                         /\ sent[c] \in Nat /\ logged[c] \in Nat /\ deliveries[c] \in Nat
    BY OpenIsNat DEF IInv, TypeOK
  <2>3. QED
    BY <1>2, <2>1, <2>2 DEF PaidByDeliveries
<1>7. QED
  BY <1>3, <1>4, <1>5, <1>6

LEMMA RowsInductive == IInv /\ RowsInv /\ [Next]_vars => RowsInv'
<1> SUFFICES ASSUME IInv, RowsInv, [Next]_vars PROVE RowsInv'
  OBVIOUS
<1>1. CASE Environment
  BY <1>1, ClaimKeepsRows, EndCallKeepsRows, RedeliverKeepsRows DEF Environment
<1>2. ASSUME NEW w \in Workers, Worker(w) PROVE RowsInv'
  BY <1>2, WorkerSteps, TakesKeepsRows, KeepsKeepsRows, EndsWithKeepsRows
<1>3. CASE UNCHANGED vars
  BY <1>3 DEF vars, database, broker, local, history, RowsInv, Untouched, ValidWork,
     Ending, StoredIsRead, InvalidOnlyDeadLettered, OnlyTriggeredSent, Triggered,
     PaidByDeliveries, Open, InHand
<1>4. QED
  BY <1>1, <1>2, <1>3 DEF Next

THEOREM RowsInvariance == Spec => []RowsInv
BY RowsInit, RowsInductive, Invariance, PTL DEF Spec

\* A message that does not validate leaves nothing but its dead letter.
THEOREM InvalidIsDeadLettered == Spec => []InvalidOnlyDeadLettered
BY RowsInvariance, PTL DEF RowsInv

\* A stored summary is what the whole transcript of its call says, whoever
\* stored it and however often the message came.
THEOREM SummariesAreTrue == Spec => []SummaryTellsTheTranscript
<1>1. TypeOK /\ RowsInv => SummaryTellsTheTranscript
  <2> SUFFICES ASSUME TypeOK, RowsInv, NEW c \in Calls, summary[c] # NoSummary
               PROVE  IsLastRoleMarkers(summary[c], ending[c].transcript)
    BY DEF SummaryTellsTheTranscript
  <2>1. ending[c] \in EndingRecords /\ summary[c] = LastRoleMarkers(ending[c].transcript)
    BY PipelineAssumption DEF TypeOK, RowsInv, Untouched, StoredIsRead
  <2>2. ending[c].transcript \in Seq(Events)
    BY <2>1 DEF EndingRecords
  <2>3. QED
    BY <2>1, <2>2, MarkersAreRight
<1>2. QED
  BY <1>1, TypeCorrect, RowsInvariance, PTL

\* No delivery pays for two requests or two log rows, and nothing is sent that
\* the stored summary, or its absence, does not ask for.
THEOREM WebhooksAreTrue == Spec => []WebhooksTellTheTruth
<1>1. TypeOK /\ RowsInv => WebhooksTellTheTruth
  <2> SUFFICES ASSUME TypeOK, RowsInv, NEW c \in Calls
               PROVE  /\ sent[c] <= deliveries[c] /\ logged[c] <= deliveries[c]
                      /\ sent[c] > 0 => Triggered(c)
    BY DEF WebhooksTellTheTruth, Triggered
  <2>1. /\ Open(c, Unsent) \in Nat /\ Open(c, Unlogged) \in Nat
        /\ sent[c] \in Nat /\ logged[c] \in Nat /\ deliveries[c] \in Nat
    BY OpenIsNat DEF TypeOK
  <2>2. QED
    BY <2>1 DEF RowsInv, PaidByDeliveries, OnlyTriggeredSent
<1>2. QED
  BY <1>1, TypeCorrect, RowsInvariance, PTL

-----------------------------------------------------------------------------
(***************************************************************************)
(* One delivery of each message.  A call is then in one place: placed,     *)
(* queued, in one worker's hand, or done; so the lead it is in moves for   *)
(* it alone, and the row its worker loaded is the row it writes.           *)
(***************************************************************************)
QueuedOnce ==
  \A i \in 1..Len(queue) :
    /\ fate[queue[i]] = {}
    /\ \A j \in 1..Len(queue) : queue[i] = queue[j] => i = j
    /\ \A w \in Workers : pc[w] # "idle" => job[w] # queue[i]

HeldOnce ==
  \A w \in Workers : pc[w] # "idle" =>
    /\ fate[job[w]] = {}
    /\ \A v \in Workers : pc[v] # "idle" /\ job[v] = job[w] => v = w

SeenIsCurrent ==
  \A w \in Workers :
    /\ pc[w] \in {"decide", "write"} => seen[w] = lead[Caller(w)]
    /\ pc[w] = "write" => view[w] = summary[job[w]]

\* The calls of a lead come one after the other.
DialledInTurn ==
  \A l \in Leads :
    /\ lead[l].status = "new" <=> dials[l] = <<>>
    /\ \A i \in 1..(Len(dials[l]) - 1) : fate[dials[l][i]] # {}

\* What the two properties below say of one call: why a lead has its status,
\* and that a call leaves the lead open to be called again.
Explained(status, e, stored, f) ==
  LET achieved == stored # NoSummary /\ stored.goal_achieved
      unwanted == \/ MarkedDoNotCall(e.transcript)
                  \/ stored # NoSummary /\ stored.goal_type = "do_not_call"
  IN /\ f = {"written"}
     /\ unwanted <=> status = "do_not_call"
     /\ status = "completed" => achieved
     /\ status = "transferred" => e.cause = "marked_for_handoff"
     /\ status = "retrying" => e.cause \in RetryHangupCauses
     /\ status \in {"following_up", "follow_up_exhausted"} =>
          e.cause \in NormalHangupCauses /\ ~achieved

LeavesOpen(e, stored) ==
  /\ e # NoEnding /\ ~MarkedDoNotCall(e.transcript)
  /\ e.cause \in RetryHangupCauses \cup NormalHangupCauses
  /\ stored # NoSummary =>
       /\ stored.goal_type # "do_not_call"
       /\ stored.goal_achieved => e.cause \in RetryHangupCauses

OneInv ==
  /\ QueuedOnce /\ HeldOnce /\ SeenIsCurrent /\ DialledInTurn
  /\ CallOwnsItsLead /\ StatusExplainedByLastCall /\ NoUnwantedRedial

LEMMA OneInit == Init => OneInv
BY DEF Init, OneInv, QueuedOnce, HeldOnce, SeenIsCurrent, DialledInTurn, CallOwnsItsLead,
   StatusExplainedByLastCall, NoUnwantedRedial, NewLead

LEMMA AppendedDial ==
  ASSUME NEW S, NEW s \in Seq(S), NEW x \in S
  PROVE  LET t == Append(s, x)
         IN /\ t \in Seq(S) /\ Len(t) = Len(s) + 1 /\ t[Len(t)] = x /\ t # <<>>
            /\ \A i \in 1..(Len(t) - 1) : i \in 1..Len(s) /\ t[i] = s[i]
OBVIOUS

LEMMA LastDialIsACall ==
  ASSUME IInv, OneInv, NEW l \in Leads, lead[l].status # "new"
  PROVE  dials[l] # <<>> /\ LastDial(l) \in Calls
<1>1. dials[l] # <<>> /\ dials[l] \in Seq(Calls)
  BY DEF OneInv, DialledInTurn, IInv, TypeOK
<1>2. Len(dials[l]) \in Nat /\ Len(dials[l]) # 0
  BY <1>1, EmptySeq
<1>3. QED
  BY <1>1, <1>2 DEF LastDial

\* The last call of a lead that waits is done, and left it open to call again.
LEMMA LastCallLeftOpen ==
  ASSUME IInv, RowsInv, OneInv, NEW l \in Leads, lead[l].status \in Redialled
  PROVE  /\ dials[l] # <<>> /\ LastDial(l) \in Calls
         /\ fate[LastDial(l)] # {}
         /\ LeavesOpen(ending[LastDial(l)], summary[LastDial(l)])
<1>1. lead[l].status \notin {"new", "calling", "do_not_call"}
  BY DEF Redialled
<1>2. dials[l] # <<>> /\ LastDial(l) \in Calls
  BY <1>1, LastDialIsACall
<1> DEFINE c == LastDial(l)
<1>4. Explained(lead[l].status, ending[c], summary[c], fate[c])
  BY <1>1 DEF OneInv, StatusExplainedByLastCall, Explained
<1>5. fate[c] # {} /\ ending[c] # NoEnding
  BY <1>2, <1>4 DEF RowsInv, Untouched, Explained
<1>6. LeavesOpen(ending[c], summary[c])
  BY <1>1, <1>4, <1>5 DEF Redialled, Explained, LeavesOpen
<1>7. QED
  BY <1>2, <1>5, <1>6

\* The two properties, with what they say of one call as an operator.
LEMMA ExplainedByLastCall ==
  /\ StatusExplainedByLastCall <=>
       \A l \in Leads : lead[l].status \notin {"new", "calling"} =>
         Explained(lead[l].status, ending[LastDial(l)], summary[LastDial(l)],
                   fate[LastDial(l)])
  /\ NoUnwantedRedial <=>
       \A l \in Leads : \A i \in 1..(Len(dials[l]) - 1) :
         LeavesOpen(ending[dials[l][i]], summary[dials[l][i]])
BY Zenon DEF StatusExplainedByLastCall, Explained, NoUnwantedRedial, LeavesOpen

LEMMA ClaimKeepsOne ==
  ASSUME IInv, RowsInv, OneInv, NEW l \in Leads, NEW c \in Calls, Claim(l, c)
  PROVE  OneInv'
<1> USE DEF OneInv
<1> DEFINE d == dials'[l]
<1>1. /\ lead[l].status \in {"new"} \cup Redialled /\ lead[l].status # "calling"
      /\ caller[c] = NoLead
      /\ lead'[l].status = "calling" /\ \A k \in Leads \ {l} : lead'[k] = lead[k]
      /\ caller'[c] = l /\ \A k \in Calls \ {c} : caller'[k] = caller[k]
      /\ d = Append(dials[l], c) /\ \A k \in Leads \ {l} : dials'[k] = dials[k]
      /\ UNCHANGED <<ending, summary, logged, queue, dlq, pc, job, seen, view,
                     deliveries, sent, fate>>
      /\ dials[l] \in Seq(Calls)
  BY DEF Claim, IInv, TypeOK, LeadRows, Redialled, broker, local
<1>2. /\ Len(d) = Len(dials[l]) + 1 /\ d[Len(d)] = c /\ d # <<>>
      /\ \A i \in 1..(Len(d) - 1) : i \in 1..Len(dials[l]) /\ d[i] = dials[l][i]
  BY <1>1, AppendedDial
<1> HIDE DEF d
<1>3. QueuedOnce' /\ HeldOnce'
  BY <1>1 DEF QueuedOnce, HeldOnce
\* No call of l is under way, so no worker holds one.
<1>4. \A w \in Workers : pc[w] # "idle" =>
        job[w] \in Calls \ {c} /\ caller[job[w]] \in Leads \ {l}
  <2>1. ASSUME NEW w \in Workers, pc[w] # "idle"
        PROVE  job[w] \in Calls \ {c} /\ caller[job[w]] \in Leads \ {l}
    <3>1. job[w] \in Calls /\ caller[job[w]] \in Leads /\ fate[job[w]] = {}
      BY <2>1, HeldFacts DEF Caller, HeldOnce
    <3>2. lead[caller[job[w]]].status = "calling"
      BY <3>1, PipelineAssumption DEF CallOwnsItsLead
    <3>3. QED
      BY <1>1, <3>1, <3>2, PipelineAssumption
  <2>2. QED
    BY <2>1
<1>5. SeenIsCurrent'
  BY <1>1, <1>4 DEF SeenIsCurrent, Caller
<1>6. lead[l].status = "new" => dials[l] = <<>> /\ Len(dials[l]) = 0
  BY DEF DialledInTurn
<1>7. DialledInTurn'
  <2>1. \A i \in 1..(Len(d) - 1) : fate[d[i]] # {}
    <3>1. ASSUME NEW i \in 1..Len(dials[l]) PROVE fate[dials[l][i]] # {}
      <4>1. lead[l].status \in Redialled
        BY <1>1, <1>6
      <4>2. CASE i = Len(dials[l])
        BY <4>1, <4>2, LastCallLeftOpen DEF LastDial
      <4>3. CASE i # Len(dials[l])
        BY <1>1, <4>3 DEF DialledInTurn
      <4>4. QED
        BY <4>2, <4>3
    <3>2. QED
      BY <1>2, <3>1
  <2>2. ASSUME NEW k \in Leads \ {l}
        PROVE  /\ lead'[k].status = "new" <=> dials'[k] = <<>>
               /\ \A i \in 1..(Len(dials'[k]) - 1) : fate'[dials'[k][i]] # {}
    <3>1. lead'[k] = lead[k] /\ dials'[k] = dials[k] /\ fate' = fate
      BY <1>1
    <3>2. /\ lead[k].status = "new" <=> dials[k] = <<>>
          /\ \A i \in 1..(Len(dials[k]) - 1) : fate[dials[k][i]] # {}
      BY DEF DialledInTurn
    <3>3. QED
      BY <3>1, <3>2
  <2>3. /\ lead'[l].status = "new" <=> dials'[l] = <<>>
        /\ \A i \in 1..(Len(dials'[l]) - 1) : fate'[dials'[l][i]] # {}
    BY <1>1, <1>2, <2>1 DEF d
  <2>4. QED
    BY <2>2, <2>3 DEF DialledInTurn
<1>8. CallOwnsItsLead'
  <2>1. ASSUME NEW k \in Calls, caller'[k] # NoLead, fate'[k] = {}
        PROVE  /\ lead'[caller'[k]].status = "calling"
               /\ dials'[caller'[k]][Len(dials'[caller'[k]])] = k
    <3>1. CASE k = c
      BY <1>1, <1>2, <3>1 DEF d
    <3>2. CASE k # c
      <4>1. /\ caller'[k] = caller[k] /\ caller[k] \in Leads
            /\ lead[caller[k]].status = "calling" /\ LastDial(caller[k]) = k
        BY <1>1, <2>1, <3>2 DEF CallOwnsItsLead, IInv, TypeOK
      <4>2. QED
        BY <1>1, <4>1 DEF LastDial
    <3>3. QED
      BY <3>1, <3>2
  <2>2. QED
    BY <1>1, <2>1 DEF CallOwnsItsLead, LastDial
<1>9. StatusExplainedByLastCall'
  <2>1. ASSUME NEW k \in Leads, lead'[k].status \notin {"new", "calling"}
        PROVE  Explained(lead'[k].status, ending'[LastDial(k)'], summary'[LastDial(k)'],
                         fate'[LastDial(k)'])
    <3>1. /\ k # l /\ lead'[k] = lead[k] /\ LastDial(k)' = LastDial(k)
          /\ ending' = ending /\ summary' = summary /\ fate' = fate
      BY <1>1, <2>1 DEF LastDial
    <3>2. Explained(lead[k].status, ending[LastDial(k)], summary[LastDial(k)],
                    fate[LastDial(k)])
      BY <2>1, <3>1, ExplainedByLastCall
    <3>3. QED
      BY <3>1, <3>2
  <2>2. QED
    BY <2>1 DEF StatusExplainedByLastCall, Explained
<1>10. NoUnwantedRedial'
  <2> DEFINE StillOpen(x) == LeavesOpen(ending[x], summary[x])
  <2>1. \A k \in Leads : \A i \in 1..(Len(dials[k]) - 1) : StillOpen(dials[k][i])
    BY ExplainedByLastCall
  <2>2. lead[l].status \in Redialled => StillOpen(dials[l][Len(dials[l])])
    BY LastCallLeftOpen DEF LastDial
  <2> HIDE DEF StillOpen
  <2>3. \A i \in 1..Len(dials[l]) : StillOpen(dials[l][i])
    BY <1>1, <1>6, <2>1, <2>2
  <2>4. \A k \in Leads \ {l} : \A i \in 1..(Len(dials'[k]) - 1) : StillOpen(dials'[k][i])
    BY <1>1, <2>1
  <2>5. \A i \in 1..(Len(d) - 1) : StillOpen(d[i])
    BY <1>2, <2>3
  <2>6. \A k \in Leads : \A i \in 1..(Len(dials'[k]) - 1) :
          LeavesOpen(ending'[dials'[k][i]], summary'[dials'[k][i]])
    BY <1>1, <2>4, <2>5 DEF d, StillOpen
  <2>7. QED
    BY <2>6 DEF NoUnwantedRedial, LeavesOpen
<1>11. QED
  BY <1>3, <1>5, <1>7, <1>8, <1>9, <1>10

\* A call that ends was owned by nobody but its lead; now it is in the queue.
LEMMA EndCallKeepsOne ==
  ASSUME IInv, RowsInv, OneInv, NEW c \in Calls, NEW e \in Endings, EndCall(c, e)
  PROVE  OneInv'
<1> USE DEF OneInv
<1>1. /\ ending[c] = NoEnding /\ queue' = <<c>> \o queue
      /\ \A k \in Calls \ {c} : ending'[k] = ending[k]
      /\ UNCHANGED <<lead, caller, summary, logged, dlq, pc, job, seen, view, dials, sent, fate>>
      /\ fate[c] = {}
  BY DEF EndCall, Push, IInv, TypeOK, RowsInv, Untouched, local
<1>2. /\ queue' \in Seq(Calls) /\ Len(queue') = Len(queue) + 1 /\ queue'[1] = c
      /\ \A i \in 2..Len(queue') : i - 1 \in 1..Len(queue) /\ queue'[i] = queue[i - 1]
      /\ Len(queue) \in Nat
  BY <1>1, PushedQueue DEF IInv, TypeOK
<1>3. QueuedOnce'
  <2>1. \A i \in 1..Len(queue) : queue[i] # c
    BY <1>1 DEF IInv, Queued
  <2>2. \A w \in Workers : pc[w] # "idle" => job[w] # c
    BY <1>1 DEF IInv, Held
  <2>3. ASSUME NEW i \in 1..Len(queue')
        PROVE  /\ fate[queue'[i]] = {}
               /\ \A w \in Workers : pc[w] # "idle" => job[w] # queue'[i]
    <3>1. CASE i = 1
      BY <1>1, <1>2, <2>2, <3>1
    <3>2. CASE i # 1
      <4>1. i - 1 \in 1..Len(queue) /\ queue'[i] = queue[i - 1]
        BY <1>2, <3>2
      <4>2. QED
        BY <4>1 DEF QueuedOnce
    <3>3. QED
      BY <3>1, <3>2
  <2>4. ASSUME NEW i \in 1..Len(queue'), NEW j \in 1..Len(queue'), queue'[i] = queue'[j]
        PROVE  i = j
    <3>1. CASE i = 1 \/ j = 1
      <4>1. \A k \in 2..Len(queue') : queue'[k] # c
        BY <1>2, <2>1
      <4>2. (i # 1 => i \in 2..Len(queue')) /\ (j # 1 => j \in 2..Len(queue'))
        BY <1>2
      <4>3. QED
        BY <1>2, <2>4, <3>1, <4>1, <4>2
    <3>2. CASE i # 1 /\ j # 1
      <4>1. /\ i - 1 \in 1..Len(queue) /\ j - 1 \in 1..Len(queue)
            /\ queue[i - 1] = queue[j - 1]
        BY <1>2, <2>4, <3>2
      <4>2. i - 1 = j - 1
        BY <4>1 DEF QueuedOnce
      <4>3. QED
        BY <4>2
    <3>3. QED
      BY <3>1, <3>2
  <2>5. QED
    BY <1>1, <2>3, <2>4 DEF QueuedOnce
<1>4. HeldOnce' /\ SeenIsCurrent' /\ DialledInTurn' /\ CallOwnsItsLead'
  <2>1. HeldOnce' /\ DialledInTurn'
    <3>1. HeldOnce'
      BY <1>1 DEF HeldOnce
    <3>2. DialledInTurn'
      BY <1>1, Zenon DEF DialledInTurn
    <3>3. QED
      BY <3>1, <3>2
  <2>2. SeenIsCurrent'
    <3>1. \A w \in Workers : Caller(w)' = Caller(w)
      BY <1>1 DEF Caller
    <3>2. QED
      BY <1>1, <3>1 DEF SeenIsCurrent
  <2>3. CallOwnsItsLead'
    BY <1>1 DEF CallOwnsItsLead, LastDial
  <2>4. QED
    BY <2>1, <2>2, <2>3
<1>5. StatusExplainedByLastCall'
  <2>1. ASSUME NEW k \in Leads, lead'[k].status \notin {"new", "calling"}
        PROVE  Explained(lead'[k].status, ending'[LastDial(k)'], summary'[LastDial(k)'],
                         fate'[LastDial(k)'])
    <3>1. Explained(lead[k].status, ending[LastDial(k)], summary[LastDial(k)],
                    fate[LastDial(k)])
      BY <1>1, <2>1, ExplainedByLastCall
    <3>2. LastDial(k) # c /\ LastDial(k)' = LastDial(k)
      BY <1>1, <3>1 DEF Explained, LastDial
    <3>3. LastDial(k) \in Calls
      BY <1>1, <2>1, LastDialIsACall
    <3>4. QED
      BY <1>1, <3>1, <3>2, <3>3
  <2>2. QED
    BY <2>1 DEF StatusExplainedByLastCall, Explained
<1>6. NoUnwantedRedial'
  <2>1. ASSUME NEW k \in Leads, NEW i \in 1..(Len(dials[k]) - 1)
        PROVE  LeavesOpen(ending'[dials[k][i]], summary[dials[k][i]])
    <3>1. LeavesOpen(ending[dials[k][i]], summary[dials[k][i]])
      BY ExplainedByLastCall
    <3>2. dials[k][i] \in Calls \ {c}
      <4>1. dials[k][i] \in Calls
        BY DEF IInv, TypeOK
      <4>2. QED
        BY <1>1, <3>1, <4>1 DEF LeavesOpen
    <3>3. QED
      BY <1>1, <3>1, <3>2
  <2>2. QED
    BY <1>1, <2>1 DEF NoUnwantedRedial, LeavesOpen
<1>7. QED
  BY <1>3, <1>4, <1>5, <1>6

LEMMA TakesKeepsOne ==
  ASSUME IInv, RowsInv, OneInv, NEW w \in Workers, Takes(w)
  PROVE  OneInv'
<1> USE DEF OneInv
<1>1. /\ pc[w] = "idle" /\ pc'[w] \in {"summarize", "dead_letter"}
      /\ job'[w] = queue[1] /\ queue' = Tail(queue) /\ OthersStay(w)
      /\ UNCHANGED <<lead, caller, ending, summary, dials, fate>>
      /\ 1 \in 1..Len(queue)
      /\ \A i \in 1..Len(queue') : i + 1 \in 1..Len(queue) /\ queue'[i] = queue[i + 1]
  BY PoppedQueue DEF Takes, database, history, IInv, TypeOK
<1>2. QueuedOnce'
  <2>1. ASSUME NEW i \in 1..Len(queue')
        PROVE  /\ fate[queue'[i]] = {}
               /\ \A j \in 1..Len(queue') : queue'[i] = queue'[j] => i = j
               /\ \A v \in Workers : pc'[v] # "idle" => job'[v] # queue'[i]
    <3>1. fate[queue'[i]] = {} /\ queue'[i] # queue[1]
      BY <1>1 DEF QueuedOnce
    <3>2. \A j \in 1..Len(queue') : queue'[i] = queue'[j] => i = j
      <4>1. ASSUME NEW j \in 1..Len(queue'), queue'[i] = queue'[j] PROVE i + 1 = j + 1
        BY <1>1, <4>1 DEF QueuedOnce
      <4>2. QED
        BY <4>1
    <3>3. \A v \in Workers \ {w} : pc'[v] # "idle" => job'[v] # queue'[i]
      BY <1>1 DEF QueuedOnce, OthersStay
    <3>4. QED
      BY <1>1, <3>1, <3>2, <3>3
  <2>2. QED
    BY <1>1, <2>1 DEF QueuedOnce
<1>3. HeldOnce'
  <2>1. fate[job'[w]] = {} /\ \A v \in Workers \ {w} : pc'[v] # "idle" => job'[v] # job'[w]
    <3>1. fate[queue[1]] = {} /\ \A v \in Workers : pc[v] # "idle" => job[v] # queue[1]
      BY <1>1 DEF QueuedOnce
    <3>2. QED
      BY <1>1, <3>1 DEF OthersStay
  <2>2. \A v \in Workers \ {w} :
          /\ pc'[v] = pc[v] /\ job'[v] = job[v]
          /\ pc'[v] # "idle" => fate[job'[v]] = {}
    BY <1>1 DEF HeldOnce, OthersStay
  <2>3. \A u, v \in Workers :
          pc'[u] # "idle" /\ pc'[v] # "idle" /\ job'[u] = job'[v] => u = v
    BY <2>1, <2>2 DEF HeldOnce
  <2>4. QED
    BY <1>1, <2>1, <2>2, <2>3 DEF HeldOnce
<1>4. SeenIsCurrent'
  <2>1. \A v \in Workers \ {w} : Caller(v)' = Caller(v)
    BY <1>1 DEF Caller, OthersStay
  <2>2. QED
    BY <1>1, <2>1 DEF SeenIsCurrent, OthersStay
<1>5. DialledInTurn' /\ CallOwnsItsLead' /\ StatusExplainedByLastCall' /\ NoUnwantedRedial'
  <2>1. DialledInTurn' /\ NoUnwantedRedial'
    BY <1>1, Zenon DEF DialledInTurn, NoUnwantedRedial
  <2>2. CallOwnsItsLead' /\ StatusExplainedByLastCall'
    BY <1>1, Zenon DEF CallOwnsItsLead, StatusExplainedByLastCall, LastDial
  <2>3. QED
    BY <2>1, <2>2
<1>6. QED
  BY <1>2, <1>3, <1>4, <1>5

\* What a worker changes for its call no other worker, and no call that is
\* done, looks at.
LEMMA KeepsKeepsOne ==
  ASSUME IInv, RowsInv, OneInv, NEW w \in Workers, Keeps(w)
  PROVE  OneInv'
<1> USE DEF OneInv
<1> DEFINE k == job[w]
<1>1. /\ pc[w] # "idle" /\ k \in Calls /\ fate[k] = {}
      /\ job'[w] = k /\ pc'[w] # "idle" /\ OthersStay(w)
      /\ UNCHANGED <<lead, caller, ending, queue, dials, fate>>
      /\ \A c \in Calls \ {k} : summary'[c] = summary[c]
      /\ pc'[w] \in {"decide", "write"} => summary' = summary
  <2>1. pc[w] # "idle" /\ k \in Calls
    BY HeldFacts DEF Keeps
  <2>2. fate[k] = {}
    BY <2>1 DEF HeldOnce
  <2>3. /\ job'[w] = k /\ pc'[w] # "idle" /\ OthersStay(w)
        /\ UNCHANGED <<lead, caller, ending, queue, dials, fate>>
        /\ pc'[w] \in {"decide", "write"} => summary' = summary
    BY DEF Keeps, broker
  <2>4. \A c \in Calls \ {k} : summary'[c] = summary[c]
    BY <2>1 DEF Keeps, IInv, TypeOK
  <2>5. QED
    BY <2>1, <2>2, <2>3, <2>4
<1>2. QueuedOnce' /\ HeldOnce'
  <2>1. \A v \in Workers : pc'[v] # "idle" => pc[v] # "idle" /\ job'[v] = job[v]
    BY <1>1 DEF OthersStay
  <2>2. HeldOnce'
    BY <1>1, <2>1 DEF HeldOnce
  <2>3. QueuedOnce'
    BY <1>1, <2>1 DEF QueuedOnce
  <2>4. QED
    BY <2>2, <2>3
<1>3. SeenIsCurrent'
  <2>1. \A v \in Workers : Caller(v)' = Caller(v)
    BY <1>1 DEF Caller, OthersStay
  <2>2. /\ pc'[w] \in {"decide", "write"} => seen'[w] = lead[Caller(w)]
        /\ pc'[w] = "write" => view'[w] = summary[k]
    BY DEF Keeps, SeenIsCurrent, Stages
  <2>3. ASSUME NEW v \in Workers \ {w}
        PROVE  /\ pc'[v] \in {"decide", "write"} => seen'[v] = lead[Caller(v)]
               /\ pc'[v] = "write" => view'[v] = summary'[job'[v]]
    <3>1. /\ pc'[v] = pc[v] /\ job'[v] = job[v] /\ seen'[v] = seen[v] /\ view'[v] = view[v]
      BY <1>1 DEF OthersStay
    <3>2. pc[v] # "idle" => job[v] \in Calls \ {k}
      BY <1>1 DEF HeldOnce, IInv, Held
    <3>3. QED
      BY <1>1, <3>1, <3>2 DEF SeenIsCurrent
  <2>4. QED
    BY <1>1, <2>1, <2>2, <2>3 DEF SeenIsCurrent
<1>4. DialledInTurn' /\ CallOwnsItsLead'
  BY <1>1, Zenon DEF DialledInTurn, CallOwnsItsLead, LastDial
<1>5. StatusExplainedByLastCall'
  <2>1. ASSUME NEW l \in Leads, lead'[l].status \notin {"new", "calling"}
        PROVE  Explained(lead'[l].status, ending'[LastDial(l)'], summary'[LastDial(l)'],
                         fate'[LastDial(l)'])
    <3>1. Explained(lead[l].status, ending[LastDial(l)], summary[LastDial(l)],
                    fate[LastDial(l)])
      BY <1>1, <2>1, ExplainedByLastCall
    <3>2. LastDial(l) \in Calls \ {k} /\ LastDial(l)' = LastDial(l)
      BY <1>1, <2>1, <3>1, LastDialIsACall DEF Explained, LastDial
    <3>3. QED
      BY <1>1, <3>1, <3>2
  <2>2. QED
    BY <2>1 DEF StatusExplainedByLastCall, Explained
<1>6. NoUnwantedRedial'
  <2>1. ASSUME NEW l \in Leads, NEW i \in 1..(Len(dials[l]) - 1)
        PROVE  LeavesOpen(ending[dials[l][i]], summary'[dials[l][i]])
    <3>1. LeavesOpen(ending[dials[l][i]], summary[dials[l][i]])
      BY ExplainedByLastCall
    <3>2. dials[l][i] \in Calls
      BY DEF IInv, TypeOK
    <3>3. dials[l][i] # k
      BY <1>1 DEF DialledInTurn
    <3>4. QED
      BY <1>1, <3>1, <3>2, <3>3
  <2>2. QED
    BY <1>1, <2>1 DEF NoUnwantedRedial, LeavesOpen
<1>7. QED
  BY <1>2, <1>3, <1>4, <1>5, <1>6

\* The lead of a message in hand is in that message's call.
LEMMA HeldOwnsItsLead ==
  ASSUME IInv, OneInv, NEW w \in Workers, pc[w] # "idle"
  PROVE  /\ fate[job[w]] = {}
         /\ lead[Caller(w)].status = "calling" /\ LastDial(Caller(w)) = job[w]
<1>1. job[w] \in Calls /\ Caller(w) \in Leads /\ fate[job[w]] = {}
  BY HeldFacts DEF OneInv, HeldOnce
<1>2. caller[job[w]] # NoLead
  BY <1>1, PipelineAssumption DEF Caller
<1>3. QED
  BY <1>1, <1>2 DEF OneInv, CallOwnsItsLead, Caller

\* Loading, deciding and writing are one step in effect.
LEMMA WriteResolves ==
  ASSUME IInv, OneInv, NEW w \in Workers, LeadWrite(w)
  PROVE  LET l == Caller(w)
         IN lead' = [lead EXCEPT ![l] =
                      WriteBack(lead[l], lead[l],
                                DecideNext(lead[l], summary[job[w]],
                                           MarkedDoNotCall(Ending(w).transcript),
                                           Ending(w).cause))]
<1>1. pc[w] = "write" /\ lead[Caller(w)].status = "calling"
  BY HeldOwnsItsLead DEF LeadWrite
<1>2. seen[w] = lead[Caller(w)] /\ view[w] = summary[job[w]]
  BY <1>1 DEF OneInv, SeenIsCurrent
<1>3. QED
  BY <1>1, <1>2 DEF LeadWrite, GuardHolds, Decision

\* A written lead has the status its call explains.
LEMMA WrittenIsExplained ==
  ASSUME IInv, OneInv, NEW w \in Workers, LeadWrite(w), GuardHolds(lead[Caller(w)])
  PROVE  LET l == Caller(w)
             new == lead'[l]
         IN /\ \A k \in Leads \ {l} : lead'[k] = lead[k]
            /\ new.status \in Redialled \cup Terminal
            /\ Explained(new.status, ending[job[w]], summary[job[w]], {"written"})
<1> DEFINE l == Caller(w)
           e == Ending(w)
           d == DecideNext(lead[l], summary[job[w]], MarkedDoNotCall(e.transcript), e.cause)
<1>1. /\ l \in Leads /\ lead[l] \in LeadRows /\ e \in EndingRecords
      /\ job[w] \in Calls /\ e = ending[job[w]]
  BY HeldFacts DEF LeadWrite, IInv, TypeOK, Ending
<1>2. lead' = [lead EXCEPT ![l] = WriteBack(lead[l], lead[l], d)]
  BY WriteResolves
<1>3. d \in Decisions
  BY <1>1, DecisionType
<1>4. e.cause \in HangupCauses /\ MarkedDoNotCall(e.transcript) \in BOOLEAN
  BY <1>1 DEF EndingRecords, MarkedDoNotCall
<1>5. /\ HasDoNotCallMarker(summary[job[w]], MarkedDoNotCall(e.transcript))
           <=> d.status = "do_not_call"
      /\ d.status = "completed" => GoalAchieved(summary[job[w]])
      /\ d.status = "transferred" => e.cause = "marked_for_handoff"
      /\ d.status = "retrying" => e.cause \in RetryHangupCauses
      /\ d.status \in {"following_up", "follow_up_exhausted"} =>
           e.cause \in NormalHangupCauses /\ ~GoalAchieved(summary[job[w]])
  BY <1>4, DecisionExplained
<1> HIDE DEF d
<1>6. lead'[l].status = d.status /\ \A k \in Leads \ {l} : lead'[k] = lead[k]
  BY <1>1, <1>2, <1>3, WriteBackRow DEF IInv, TypeOK
<1>7. d.status \in Redialled \cup Terminal
  BY <1>3 DEF Decisions
<1>8. Explained(d.status, ending[job[w]], summary[job[w]], {"written"})
  BY <1>1, <1>5 DEF Explained, HasDoNotCallMarker, GoalAchieved
<1>9. QED
  BY <1>6, <1>7, <1>8

LEMMA EndsWithKeepsOne ==
  ASSUME IInv, RowsInv, OneInv, NEW w \in Workers, NEW f \in Fates, EndsWith(w, f)
  PROVE  OneInv'
<1> USE DEF OneInv
<1> DEFINE k == job[w]
           l == Caller(w)
<1>1. /\ pc[w] # "idle" /\ pc'[w] = "idle" /\ k \in Calls /\ l \in Leads /\ OthersStay(w)
      /\ fate[k] = {} /\ lead[l].status = "calling" /\ LastDial(l) = k
      /\ caller[k] = l
  BY HeldFacts, HeldOwnsItsLead DEF EndsWith, Caller
<1>2. /\ UNCHANGED <<caller, ending, summary, logged, queue, dials, deliveries, sent>>
      /\ fate'[k] = {f} /\ \A c \in Calls \ {k} : fate'[c] = fate[c]
  BY <1>1 DEF EndsWith, IInv, TypeOK
<1>3. f # "blocked" /\ \A j \in Leads \ {l} : lead'[j] = lead[j]
  BY <1>1, WrittenIsExplained DEF EndsWith, GuardHolds
<1>4. IF f = "written"
      THEN /\ lead'[l].status \in Redialled \cup Terminal
           /\ Explained(lead'[l].status, ending[k], summary[k], {"written"})
      ELSE lead'[l] = lead[l]
  BY <1>1, <1>3, WrittenIsExplained DEF EndsWith
<1>5. \A v \in Workers \ {w} : pc[v] # "idle" =>
        job[v] \in Calls \ {k} /\ Caller(v) \in Leads \ {l}
  <2>1. ASSUME NEW v \in Workers \ {w}, pc[v] # "idle"
        PROVE  job[v] \in Calls \ {k} /\ Caller(v) \in Leads \ {l}
    <3>1. job[v] \in Calls \ {k} /\ Caller(v) \in Leads
      BY <1>1, <2>1, HeldFacts DEF HeldOnce
    <3>2. LastDial(Caller(v)) = job[v]
      BY <2>1, HeldOwnsItsLead
    <3>3. QED
      BY <1>1, <3>1, <3>2
  <2>2. QED
    BY <2>1
<1>6. QueuedOnce'
  <2>1. \A i \in 1..Len(queue) : queue[i] \in Calls \ {k}
    BY <1>1 DEF QueuedOnce, IInv, TypeOK
  <2>2. \A v \in Workers : pc'[v] # "idle" => pc[v] # "idle" /\ job'[v] = job[v]
    BY <1>1 DEF OthersStay
  <2>3. QED
    BY <1>2, <2>1, <2>2 DEF QueuedOnce
<1>7. HeldOnce'
  BY <1>1, <1>2, <1>5 DEF HeldOnce, OthersStay
<1>8. SeenIsCurrent'
  <2>1. ASSUME NEW v \in Workers, pc'[v] # "idle"
        PROVE  /\ pc'[v] \in {"decide", "write"} => seen'[v] = lead'[Caller(v)']
               /\ pc'[v] = "write" => view'[v] = summary'[job'[v]]
    <3>1. /\ v # w /\ pc'[v] = pc[v] /\ job'[v] = job[v] /\ seen'[v] = seen[v]
          /\ view'[v] = view[v] /\ Caller(v)' = Caller(v)
      BY <1>1, <1>2, <2>1 DEF OthersStay, Caller
    <3>2. lead'[Caller(v)] = lead[Caller(v)]
      BY <1>3, <1>5, <2>1, <3>1
    <3>3. QED
      BY <1>2, <3>1, <3>2 DEF SeenIsCurrent
  <2>2. QED
    BY <2>1 DEF SeenIsCurrent
<1>9. DialledInTurn'
  <2>1. ASSUME NEW j \in Leads
        PROVE  /\ lead'[j].status = "new" <=> dials[j] = <<>>
               /\ \A i \in 1..(Len(dials[j]) - 1) : fate'[dials[j][i]] # {}
    <3>1. lead'[j].status = "new" <=> lead[j].status = "new"
      BY <1>1, <1>3, <1>4 DEF Redialled, Terminal
    <3>2. \A i \in 1..(Len(dials[j]) - 1) : dials[j][i] \in Calls
      BY DEF IInv, TypeOK
    <3>3. QED
      BY <1>1, <1>2, <3>1, <3>2 DEF DialledInTurn
  <2>2. QED
    BY <1>2, <2>1 DEF DialledInTurn
<1>10. CallOwnsItsLead'
  <2>1. ASSUME NEW c \in Calls \ {k}, caller[c] # NoLead, fate'[c] = {}
        PROVE  lead'[caller[c]].status = "calling" /\ LastDial(caller[c]) = c
    <3>1. /\ lead[caller[c]].status = "calling" /\ LastDial(caller[c]) = c
          /\ caller[c] \in Leads
      BY <1>2, <2>1 DEF CallOwnsItsLead, IInv, TypeOK
    <3>2. caller[c] # l
      BY <1>1, <2>1, <3>1
    <3>3. QED
      BY <1>3, <3>1, <3>2
  <2>2. \A c \in Calls : fate'[c] = {} \/ \E g \in Fates \ {"blocked"} : fate'[c] = {g}
    BY <1>2, <1>3 DEF CallOwnsItsLead
  <2>3. \A c \in Calls : caller'[c] # NoLead /\ fate'[c] = {} =>
          /\ lead'[caller'[c]].status = "calling"
          /\ dials'[caller'[c]][Len(dials'[caller'[c]])] = c
    BY <1>2, <2>1 DEF LastDial
  <2>4. QED
    BY <2>2, <2>3 DEF CallOwnsItsLead, LastDial
<1>11. StatusExplainedByLastCall'
  <2>1. ASSUME NEW j \in Leads, lead'[j].status \notin {"new", "calling"}
        PROVE  Explained(lead'[j].status, ending'[LastDial(j)'], summary'[LastDial(j)'],
                         fate'[LastDial(j)'])
    <3>1. LastDial(j)' = LastDial(j)
      BY <1>2 DEF LastDial
    <3>2. CASE j = l
      <4>1. f = "written"
        BY <1>1, <1>4, <2>1, <3>2
      <4>2. QED
        BY <1>1, <1>2, <1>4, <3>1, <3>2, <4>1
    <3>3. CASE j # l
      <4>1. /\ lead'[j] = lead[j]
            /\ Explained(lead[j].status, ending[LastDial(j)], summary[LastDial(j)],
                         fate[LastDial(j)])
        BY <1>3, <2>1, <3>3, ExplainedByLastCall
      <4>2. LastDial(j) \in Calls \ {k}
        BY <1>1, <2>1, <4>1, LastDialIsACall DEF Explained
      <4>3. QED
        BY <1>2, <3>1, <4>1, <4>2
    <3>4. QED
      BY <3>2, <3>3
  <2>2. QED
    BY <2>1 DEF StatusExplainedByLastCall, Explained
<1>12. NoUnwantedRedial'
  BY <1>2, Zenon DEF NoUnwantedRedial
<1>13. QED
  BY <1>6, <1>7, <1>8, <1>9, <1>10, <1>11, <1>12

LEMMA OneInductive ==
  ASSUME MaxDuplicates = 0
  PROVE  IInv /\ RowsInv /\ OneInv /\ [Next]_vars => OneInv'
<1> SUFFICES ASSUME IInv, RowsInv, OneInv, [Next]_vars PROVE OneInv'
  OBVIOUS
<1>1. ASSUME NEW c \in Calls PROVE ~Redeliver(c)
  BY MaxDuplicates = 0 DEF Redeliver, IInv, TypeOK
<1>2. CASE Environment
  BY <1>1, <1>2, ClaimKeepsOne, EndCallKeepsOne DEF Environment
<1>3. ASSUME NEW w \in Workers, Worker(w) PROVE OneInv'
  BY <1>3, WorkerSteps, TakesKeepsOne, KeepsKeepsOne, EndsWithKeepsOne
<1>4. CASE UNCHANGED vars
  <2>1. /\ UNCHANGED <<lead, caller, ending, summary, queue, pc, job, seen, view, dials, fate>>
    BY <1>4 DEF vars, database, broker, local, history
  <2>2. QueuedOnce' /\ HeldOnce' /\ DialledInTurn'
    BY <2>1, Zenon DEF OneInv, QueuedOnce, HeldOnce, DialledInTurn
  <2>3. SeenIsCurrent' /\ CallOwnsItsLead'
    BY <2>1, Zenon DEF OneInv, SeenIsCurrent, Caller, CallOwnsItsLead, LastDial
  <2>4. StatusExplainedByLastCall' /\ NoUnwantedRedial'
    BY <2>1, Zenon DEF OneInv, StatusExplainedByLastCall, NoUnwantedRedial, LastDial
  <2>5. QED
    BY <2>2, <2>3, <2>4 DEF OneInv
<1>5. QED
  BY <1>2, <1>3, <1>4 DEF Next

THEOREM OneInvariance ==
  ASSUME MaxDuplicates = 0
  PROVE  Spec => []OneInv
BY OneInit, OneInductive, Invariance, RowsInvariance, PTL DEF Spec

\* Without a second delivery a call owns its lead until its message is done,
\* so the guard of the UPDATE never blocks a worker.
THEOREM CallsOwnTheirLeads ==
  ASSUME MaxDuplicates = 0
  PROVE  Spec => []CallOwnsItsLead
BY OneInvariance, PTL DEF OneInv

\* The status a lead is left with is the one its last call asks for.
THEOREM StatusIsExplained ==
  ASSUME MaxDuplicates = 0
  PROVE  Spec => []StatusExplainedByLastCall
BY OneInvariance, PTL DEF OneInv

\* Nobody is called again whose last call did not leave that open.
THEOREM RedialsAreWanted ==
  ASSUME MaxDuplicates = 0
  PROVE  Spec => []NoUnwantedRedial
BY OneInvariance, PTL DEF OneInv

-----------------------------------------------------------------------------
(***************************************************************************)
(* The pipeline implements LeadLife: a claim is a dial, a write is the     *)
(* one-step resolution, every other step leaves the leads alone.           *)
(***************************************************************************)

\* LeadLife's operators, instantiated here, are this module's own.
LEMMA SameDecision ==
  ASSUME NEW row, NEW loaded, NEW summary_, NEW marked, NEW cause
  PROVE  Life!WriteBack(row, loaded, Life!DecideNext(row, summary_, marked, cause))
           = WriteBack(row, loaded, DecideNext(row, summary_, marked, cause))
BY DEF Life!WriteBack, Life!DecideNext, Life!HasDoNotCallMarker, Life!GoalAchieved,
   Life!Update, Life!RetryDecision, Life!RetriesLeft, Life!RetryDelay,
   Life!RetryIntervalMinutes, Life!FollowUpDecision, Life!RetryHangupCauses,
   Life!NormalHangupCauses, Life!HangupCauses, HangupCauses,
   WriteBack, DecideNext, HasDoNotCallMarker, GoalAchieved,
   Update, RetryDecision, RetriesLeft, RetryDelay,
   RetryIntervalMinutes, FollowUpDecision, RetryHangupCauses, NormalHangupCauses

LEMMA InitRefines == Init => Life!Init
<1> SUFFICES ASSUME Init PROVE Life!Init
  OBVIOUS
<1>1. [l \in Leads |-> Len(dials[l])] = [l \in Leads |-> 0]
  BY DEF Init
<1>2. QED
  BY <1>1 DEF Init, Life!Init, NewLead, Life!NewLead

LEMMA ClaimRefines ==
  ASSUME TypeOK, NEW l \in Leads, NEW c \in Calls, Claim(l, c)
  PROVE  Life!Dial(l)
<1>1. /\ lead[l].status \in {"new"} \cup Redialled
      /\ lead' = [lead EXCEPT ![l].status = "calling"]
      /\ dials' = [dials EXCEPT ![l] = Append(@, c)]
      /\ dials \in [Leads -> Seq(Calls)]
  BY DEF Claim, TypeOK
<1>2. [k \in Leads |-> Len(dials'[k])] =
        [[k \in Leads |-> Len(dials[k])] EXCEPT ![l] = @ + 1]
  <2>1. Len(dials'[l]) = Len(dials[l]) + 1
    BY <1>1
  <2>2. \A k \in Leads \ {l} : dials'[k] = dials[k]
    BY <1>1
  <2>3. QED
    BY <2>1, <2>2
<1>3. QED
  BY <1>1, <1>2 DEF Life!Dial, Life!Redialled, Redialled

LEMMA WriteRefines ==
  ASSUME IInv, OneInv, NEW w \in Workers, LeadWrite(w)
  PROVE  \E l \in Leads : Life!ResolveSome(l)
<1> DEFINE l == Caller(w)
           stored == summary[job[w]]
           marked == MarkedDoNotCall(Ending(w).transcript)
           cause == Ending(w).cause
<1>1. /\ l \in Leads /\ job[w] \in Calls /\ Ending(w) \in EndingRecords
      /\ lead[l].status = "calling"
  BY HeldFacts, HeldOwnsItsLead DEF LeadWrite
<1>2. lead' = [lead EXCEPT ![l] =
                 WriteBack(lead[l], lead[l], DecideNext(lead[l], stored, marked, cause))]
  BY WriteResolves
<1>3. /\ stored \in Summaries \cup {NoSummary} /\ marked \in BOOLEAN
      /\ cause \in HangupCauses
  BY <1>1 DEF IInv, TypeOK, EndingRecords, MarkedDoNotCall
<1>4. dials' = dials
  BY <1>1 DEF LeadWrite, Finish
<1> HIDE DEF l, stored, marked, cause
<1>5. Life!Resolve(l, stored, marked, cause)
  <2>1. lead' = [lead EXCEPT ![l] =
                   Life!WriteBack(lead[l], lead[l],
                                  Life!DecideNext(lead[l], stored, marked, cause))]
    BY <1>2, SameDecision
  <2>2. [k \in Leads |-> Len(dials'[k])] = [k \in Leads |-> Len(dials[k])]
    BY <1>4
  <2>3. QED
    BY <1>1, <2>1, <2>2, Zenon DEF Life!Resolve
<1>6. Life!Summaries = Summaries /\ HangupCauses \subseteq Life!GivenCauses
  BY SMT DEF Life!Summaries, Life!GivenCauses, Life!GoalTypes, Summaries, GoalTypes, Life!HangupCauses,
     Life!RetryHangupCauses, Life!NormalHangupCauses, HangupCauses, RetryHangupCauses,
     NormalHangupCauses
<1>7. QED
  BY <1>1, <1>3, <1>5, <1>6 DEF Life!ResolveSome

LEMMA StepRefines ==
  ASSUME MaxDuplicates = 0, IInv, OneInv, [Next]_vars
  PROVE  [Life!Next]_(Life!vars)
<1>1. ASSUME NEW l \in Leads, NEW c \in Calls, Claim(l, c) PROVE Life!Next
  BY <1>1, ClaimRefines DEF IInv, Life!Next
<1>2. ASSUME NEW w \in Workers, LeadWrite(w) PROVE Life!Next
  BY <1>2, WriteRefines DEF Life!Next
<1>3. ASSUME UNCHANGED <<lead, dials>> PROVE UNCHANGED Life!vars
  BY <1>3 DEF Life!vars
<1>4. CASE Environment
  <2>1. ASSUME NEW c \in Calls, NEW e \in Endings, EndCall(c, e)
        PROVE  UNCHANGED <<lead, dials>>
    BY <2>1 DEF EndCall
  <2>2. ASSUME NEW c \in Calls, Redeliver(c) PROVE UNCHANGED <<lead, dials>>
    BY <2>2 DEF Redeliver, database
  <2>3. QED
    BY <1>1, <1>3, <1>4, <2>1, <2>2 DEF Environment
<1>5. ASSUME NEW w \in Workers, Worker(w), ~LeadWrite(w)
      PROVE  UNCHANGED <<lead, dials>>
  <2>1. CASE Takes(w)
    BY <2>1 DEF Takes, database, history
  <2>2. CASE Keeps(w)
    BY <2>2 DEF Keeps
  <2>3. ASSUME NEW f \in Fates, EndsWith(w, f) PROVE UNCHANGED <<lead, dials>>
    BY <1>5, <2>3 DEF EndsWith
  <2>4. QED
    BY <1>5, <2>1, <2>2, <2>3, WorkerSteps
<1>6. CASE UNCHANGED vars
  BY <1>3, <1>6 DEF vars, database, history
<1>7. QED
  BY <1>2, <1>3, <1>4, <1>5, <1>6 DEF Next

\* As long as no message comes twice the whole pipeline, with its stages, its
\* failures and its crashes, behaves towards the leads like LeadLife.
THEOREM Refinement ==
  ASSUME MaxDuplicates = 0
  PROVE  Spec => ImplementsLeadLife
BY InitRefines, StepRefines, Invariance, OneInvariance, PTL
DEF Spec, ImplementsLeadLife, Life!Spec
=============================================================================
