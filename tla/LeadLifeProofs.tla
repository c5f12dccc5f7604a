---------------------------- MODULE LeadLifeProofs ----------------------------
(***************************************************************************)
(* The theorems of LeadLife, for every campaign and every set of leads.    *)
(***************************************************************************)
EXTENDS LeadLife, LeadDecisionProofs

\* The invariant that is inductive: the dials of a lead are accounted for by
\* its counters, which are bounded because a live row is below both limits.
IInv == TypeOK /\ CounterLimits /\ DialsAccounted /\ DialBound

LEMMA InitEstablishes == Init => IInv
<1> SUFFICES ASSUME Init PROVE IInv
  OBVIOUS
<1>1. TypeOK
  BY DEF Init, TypeOK, NewLead, LeadRows, LeadStatuses
<1>2. CounterLimits
  BY LimitsArePositive DEF Init, CounterLimits, LiveRowBelowLimits, RowWithinLimits, NewLead
<1>3. DialsAccounted
  BY DEF Init, DialsAccounted, NewLead, Terminal, InCall
<1>4. DialBound
  BY LimitsArePositive DEF Init, DialBound
<1>5. QED
  BY <1>1, <1>2, <1>3, <1>4 DEF IInv

LEMMA DialPreserves ==
  ASSUME IInv, NEW l \in Leads, Dial(l)
  PROVE  IInv'
<1> USE DEF IInv
<1> DEFINE new == [lead[l] EXCEPT !.status = "calling"]
<1>1. /\ lead[l] \in LeadRows /\ dials[l] \in Nat
      /\ lead[l].status \in {"new"} \cup Redialled
      /\ lead' = [lead EXCEPT ![l] = new]
      /\ dials' = [dials EXCEPT ![l] = @ + 1]
  BY DEF Dial, TypeOK
<1>2. /\ new \in LeadRows /\ new.status = "calling"
      /\ new.retry_count = lead[l].retry_count
      /\ new.follow_up_count = lead[l].follow_up_count
      /\ lead[l].retry_count \in Nat /\ lead[l].follow_up_count \in Nat
  BY <1>1 DEF LeadRows, LeadStatuses
<1>3. lead[l].status \notin Terminal /\ lead[l].status # "calling"
  BY <1>1 DEF Redialled, Terminal
<1>4. /\ lead[l].retry_count < RetryLimit
      /\ lead[l].follow_up_count < FollowUpLimit
      /\ dials[l] = lead[l].retry_count + lead[l].follow_up_count
  BY <1>2, <1>3 DEF CounterLimits, LiveRowBelowLimits, DialsAccounted, InCall
<1> HIDE DEF new
<1>5. TypeOK'
  BY <1>1, <1>2 DEF TypeOK
<1>6. CounterLimits'
  BY <1>1, <1>2, <1>4, LimitsArePositive
  DEF TypeOK, CounterLimits, LiveRowBelowLimits, RowWithinLimits
<1>7. DialsAccounted'
  BY <1>1, <1>2, <1>4 DEF TypeOK, DialsAccounted, InCall, Terminal
<1>8. DialBound'
  BY <1>1, <1>2, <1>4, LimitsArePositive DEF TypeOK, DialBound
<1>9. QED
  BY <1>5, <1>6, <1>7, <1>8

LEMMA ResolvePreserves ==
  ASSUME IInv, NEW l \in Leads, NEW summary, NEW marked, NEW cause,
         Resolve(l, summary, marked, cause)
  PROVE  IInv'
<1> USE DEF IInv
<1> DEFINE d == DecideNext(lead[l], summary, marked, cause)
           new == WriteBack(lead[l], lead[l], d)
<1>1. /\ lead[l] \in LeadRows /\ dials[l] \in Nat
      /\ lead[l].status = "calling"
      /\ lead' = [lead EXCEPT ![l] = new]
      /\ dials' = dials
  BY DEF Resolve, TypeOK
<1>2. /\ lead[l].retry_count \in Nat /\ lead[l].follow_up_count \in Nat
      /\ lead[l].retry_count < RetryLimit
      /\ lead[l].follow_up_count < FollowUpLimit
      /\ dials[l] = lead[l].retry_count + lead[l].follow_up_count + 1
  BY <1>1 DEF LeadRows, CounterLimits, LiveRowBelowLimits, DialsAccounted, InCall, Terminal
<1>3. d \in Decisions
  BY <1>1, DecisionType
<1>4. /\ d.retry_count_delta + d.follow_up_count_delta \in {0, 1}
      /\ d.status \in Redialled =>
           \/ /\ d.retry_count_delta = 1 /\ d.follow_up_count_delta = 0
              /\ lead[l].retry_count + 1 < RetryLimit
           \/ /\ d.retry_count_delta = 0 /\ d.follow_up_count_delta = 1
              /\ lead[l].follow_up_count + 1 < FollowUpLimit
  BY <1>1, DecisionLimits
<1>5. /\ d.retry_count_delta \in {0, 1} /\ d.follow_up_count_delta \in {0, 1}
      /\ d.status \in Redialled \cup Terminal
  BY <1>3 DEF Decisions
<1> HIDE DEF d
<1>6. /\ new \in LeadRows /\ new.status = d.status
      /\ new.retry_count = lead[l].retry_count + d.retry_count_delta
      /\ new.follow_up_count = lead[l].follow_up_count + d.follow_up_count_delta
  <2>1. /\ new \in LeadRows /\ new.status = d.status
        /\ new.retry_count = IF d.retry_count_delta = 0 THEN lead[l].retry_count
                             ELSE lead[l].retry_count + 1
        /\ new.follow_up_count =
             IF d.follow_up_count_delta = 0 THEN lead[l].follow_up_count
             ELSE lead[l].follow_up_count + 1
    BY <1>1, <1>3, WriteBackRow
  <2> HIDE DEF new
  <2>2. QED
    BY <1>2, <1>5, <2>1
<1> HIDE DEF new
<1>7. TypeOK'
  BY <1>1, <1>6 DEF TypeOK
<1>8. LiveRowBelowLimits(new) /\ RowWithinLimits(new)
  BY <1>2, <1>4, <1>5, <1>6, LimitsArePositive DEF LiveRowBelowLimits, RowWithinLimits
<1>9. CounterLimits'
  BY <1>1, <1>8 DEF TypeOK, CounterLimits, LiveRowBelowLimits, RowWithinLimits
<1>10. IF new.status \in Terminal
       THEN dials[l] \in {new.retry_count + new.follow_up_count,
                          new.retry_count + new.follow_up_count + 1}
       ELSE dials[l] = new.retry_count + new.follow_up_count + InCall(new)
  <2>1. CASE d.status \in Redialled
    BY <2>1, <1>2, <1>4, <1>6 DEF Redialled, Terminal, InCall
  <2>2. CASE d.status \in Terminal
    BY <2>2, <1>2, <1>4, <1>5, <1>6
  <2>3. QED
    BY <2>1, <2>2, <1>5
<1>11. DialsAccounted'
  BY <1>1, <1>10 DEF TypeOK, DialsAccounted, InCall
<1>12. DialBound'
  BY <1>1 DEF DialBound
<1>13. QED
  BY <1>7, <1>9, <1>11, <1>12

LEMMA Inductive == IInv /\ [Next]_vars => IInv'
<1> SUFFICES ASSUME IInv, [Next]_vars PROVE IInv'
  OBVIOUS
<1>1. ASSUME NEW l \in Leads, Dial(l) PROVE IInv'
  BY <1>1, DialPreserves
<1>2. ASSUME NEW l \in Leads, ResolveSome(l) PROVE IInv'
  BY <1>2, ResolvePreserves DEF ResolveSome
<1>3. CASE UNCHANGED vars
  BY <1>3 DEF vars, IInv, TypeOK, CounterLimits, LiveRowBelowLimits, RowWithinLimits,
     DialsAccounted, InCall, DialBound
<1>4. QED
  BY <1>1, <1>2, <1>3 DEF Next

\* The inductive invariant holds of every behaviour.
THEOREM Invariance == Spec => []IInv
BY InitEstablishes, Inductive, PTL DEF Spec

\* Lead rows stay rows of the table.
THEOREM TypeCorrect == Spec => []TypeOK
BY Invariance, PTL DEF IInv

\* No counter passes its limit, whatever the campaign's numbers.
THEOREM LimitsHold == Spec => []CounterLimits
BY Invariance, PTL DEF IInv

\* The counters of a row tell how often its lead was dialled.
THEOREM DialsAreAccounted == Spec => []DialsAccounted
BY Invariance, PTL DEF IInv

\* max(retry_max_count, 1) + max(follow_up_max_count, 1) - 1 dials at most.
THEOREM DialsAreBounded == Spec => []DialBound
BY Invariance, PTL DEF IInv

-----------------------------------------------------------------------------
(***************************************************************************)
(* When a lead is called again.                                            *)
(***************************************************************************)
IntervalOf(count) ==
  IF RetryIntervals = <<>> THEN 60
  ELSE RetryIntervals[CHOOSE i \in 1..Len(RetryIntervals) :
                        i = count \/ (i = Len(RetryIntervals) /\ i < count)]
FollowUpDelay == IF FollowUpIntervalDays < 0 THEN 0 ELSE FollowUpIntervalDays * 24 * 60

\* WaitsForTheRightTime of one lead, and what makes it inductive: a lead that
\* waits was dialled before and has a time.
TimeIsRight(row, dialled) ==
  /\ row.status = "retrying" => row.next_call_at = IntervalOf(row.retry_count)
  /\ row.status = "following_up" => row.next_call_at = FollowUpDelay
  /\ row.status \notin Redialled =>
       IF row.status = "do_not_call" THEN row.next_call_at = NoTime
       ELSE IF dialled <= 1 THEN row.next_call_at = SeedTime
       ELSE row.next_call_at \in Nat
Waits(row, dialled) ==
  /\ row.status = "new" <=> dialled = 0
  /\ row.status \in Redialled => row.next_call_at \in Nat

TimeInv == \A l \in Leads : TimeIsRight(lead[l], dials[l]) /\ Waits(lead[l], dials[l])

LEMMA RightTime ==
  WaitsForTheRightTime <=> \A l \in Leads : TimeIsRight(lead[l], dials[l])
BY Zenon DEF WaitsForTheRightTime, TimeIsRight, IntervalOf, FollowUpDelay

LEMMA InitTime == Init => TimeInv
BY DEF Init, TimeInv, TimeIsRight, Waits, NewLead, Redialled

\* A dial keeps the time the lead waited for.
LEMMA DialKeepsTime ==
  ASSUME IInv, TimeInv, NEW l \in Leads, Dial(l)
  PROVE  TimeInv'
<1>1. /\ lead[l] \in LeadRows /\ dials[l] \in Nat /\ dials'[l] = dials[l] + 1
      /\ lead[l].status \in {"new"} \cup Redialled /\ lead'[l].status = "calling"
      /\ lead'[l].next_call_at = lead[l].next_call_at
      /\ \A k \in Leads \ {l} : lead'[k] = lead[k] /\ dials'[k] = dials[k]
  BY DEF Dial, IInv, TypeOK, LeadRows
<1>2. TimeIsRight(lead[l], dials[l]) /\ Waits(lead[l], dials[l])
  BY DEF TimeInv
<1>3. TimeIsRight(lead'[l], dials'[l]) /\ Waits(lead'[l], dials'[l])
  <2>1. CASE lead[l].status = "new"
    BY <1>1, <1>2, <2>1 DEF TimeIsRight, Waits, Redialled
  <2>2. CASE lead[l].status \in Redialled
    BY <1>1, <1>2, <2>2, CampaignAssumption DEF TimeIsRight, Waits, Redialled
  <2>3. QED
    BY <1>1, <2>1, <2>2
<1>4. QED
  BY <1>1, <1>3 DEF TimeInv

\* The decision sets the time of its own interval, or none.
LEMMA ResolveKeepsTime ==
  ASSUME IInv, TimeInv, NEW l \in Leads, NEW summary, NEW marked, NEW cause,
         Resolve(l, summary, marked, cause)
  PROVE  TimeInv'
<1> DEFINE row == lead[l]
           d == DecideNext(row, summary, marked, cause)
           new == WriteBack(row, row, d)
<1>1. /\ row \in LeadRows /\ row.status = "calling" /\ row.retry_count \in Nat
      /\ lead' = [lead EXCEPT ![l] = new] /\ dials' = dials /\ dials[l] \in Nat
  BY DEF Resolve, IInv, TypeOK, LeadRows
<1>2. TimeIsRight(row, dials[l]) /\ Waits(row, dials[l])
  BY DEF TimeInv
<1>3. /\ d \in Decisions
      /\ d.clear_next_call_at <=> d.status = "do_not_call"
      /\ d.status = "retrying" => d.retry_count_delta = 1 /\ d.next_call_at = RetryDelay(row)
      /\ d.status = "following_up" => d.next_call_at = FollowUpDelay
      /\ d.status \notin Redialled => d.next_call_at = NoTime
  BY <1>1, DecisionType, DecisionTime DEF FollowUpDelay
<1>4. d.status \in Redialled \cup Terminal
  BY <1>3 DEF Decisions
<1> HIDE DEF d
<1>5. /\ new.status = d.status
      /\ new.retry_count = IF d.retry_count_delta = 0 THEN row.retry_count
                           ELSE row.retry_count + 1
      /\ new.next_call_at = IF d.clear_next_call_at THEN NoTime
                            ELSE IF d.next_call_at # NoTime THEN d.next_call_at
                            ELSE row.next_call_at
  BY <1>1, <1>3, WriteBackRow
<1> HIDE DEF new
<1>6. IntervalOf(row.retry_count + 1) = RetryDelay(row) /\ RetryDelay(row) \in Nat
  <2>1. row.retry_count + 1 \in Nat \ {0}
    BY <1>1
  <2>2. RetryDelay(row) \in Nat
    BY <2>1, RetryIntervalIsNat DEF RetryDelay
  <2>3. CASE RetryIntervals = <<>>
    BY <2>2, <2>3 DEF IntervalOf, RetryDelay, RetryIntervalMinutes
  <2>4. CASE RetryIntervals # <<>>
    BY <2>1, <2>2, <2>4, RetryIntervalOfCount DEF IntervalOf, RetryDelay
  <2>5. QED
    BY <2>3, <2>4
<1>7. FollowUpDelay \in Nat
  BY CampaignAssumption DEF FollowUpDelay
<1>8. TimeIsRight(new, dials[l]) /\ Waits(new, dials[l])
  <2>1. CASE d.status = "retrying"
    BY <1>1, <1>2, <1>3, <1>5, <1>6, <2>1, CampaignAssumption
    DEF TimeIsRight, Waits, Redialled
  <2>2. CASE d.status = "following_up"
    BY <1>1, <1>2, <1>3, <1>5, <1>7, <2>2, CampaignAssumption
    DEF TimeIsRight, Waits, Redialled
  <2>3. CASE d.status \in Terminal
    BY <1>1, <1>2, <1>3, <1>5, <2>3 DEF TimeIsRight, Waits, Redialled, Terminal
  <2>4. QED
    BY <1>4, <2>1, <2>2, <2>3 DEF Redialled
<1>9. \A k \in Leads : lead'[k] = IF k = l THEN new ELSE lead[k]
  BY <1>1 DEF IInv, TypeOK
<1>10. QED
  BY <1>1, <1>8, <1>9 DEF TimeInv

LEMMA TimeInductive == IInv /\ TimeInv /\ [Next]_vars => TimeInv'
<1> SUFFICES ASSUME IInv, TimeInv, [Next]_vars PROVE TimeInv'
  OBVIOUS
<1>1. CASE Next
  BY <1>1, DialKeepsTime, ResolveKeepsTime DEF Next, ResolveSome
<1>2. CASE UNCHANGED vars
  BY <1>2 DEF vars, TimeInv
<1>3. QED
  BY <1>1, <1>2

\* A lead waits for the interval its campaign gives to its retry count, or for
\* the follow-up interval, whatever the lengths of its lists.
THEOREM TimesAreRight == Spec => []WaitsForTheRightTime
<1>1. TimeInv => WaitsForTheRightTime
  BY RightTime DEF TimeInv
<1>2. QED
  BY <1>1, InitTime, TimeInductive, Invariance, PTL DEF Spec

-----------------------------------------------------------------------------
(***************************************************************************)
(* decide_next tests its rules in order; StatusByRule states each status   *)
(* by its own conditions.  They agree on every row, not only on those that *)
(* occur.                                                                  *)
(***************************************************************************)

\* The rules exclude one another, and decide_next follows the one that applies.
LEMMA RuleOfStatus ==
  ASSUME NEW row \in LeadRows, NEW summary, NEW marked \in BOOLEAN,
         NEW cause \in GivenCauses
  PROVE  LET r == StatusByRule(row, summary, marked, cause)
             status == DecideNext(row, summary, marked, cause).status
         IN /\ r.do_not_call <=> status = "do_not_call"
            /\ r.transferred <=> status = "transferred"
            /\ r.retrying <=> status = "retrying"
            /\ r.completed <=> status = "completed"
            /\ r.following_up <=> status = "following_up"
            /\ r.follow_up_exhausted <=> status = "follow_up_exhausted"
<1> DEFINE status == DecideNext(row, summary, marked, cause).status
           stop == HasDoNotCallMarker(summary, marked)
           won == GoalAchieved(summary)
           again == row.follow_up_count < FollowUpMaxCount - 1
           retry == row.retry_count < RetryMaxCount - 1
<1>1. /\ RetryDecision(row).status = IF retry THEN "retrying" ELSE "failed"
      /\ FollowUpDecision(row).status =
           IF again THEN "following_up" ELSE "follow_up_exhausted"
  <2>1. /\ row.retry_count \in Nat /\ row.follow_up_count \in Nat
        /\ RetryMaxCount \in Int /\ FollowUpMaxCount \in Int
    BY CampaignAssumption DEF LeadRows
  <2>2. QED
    BY <2>1 DEF RetryDecision, RetriesLeft, FollowUpDecision, Update
<1>2. /\ \A s : Update(s, 0, 0).status = s
      /\ [Update("do_not_call", 0, 0) EXCEPT !.clear_next_call_at = TRUE].status = "do_not_call"
  BY DEF Update
<1>3. /\ Unwanted(summary, marked) <=> stop
      /\ Achieved(summary) <=> won
      /\ Unreached = RetryHangupCauses
      /\ ~again <=> row.follow_up_count >= FollowUpMaxCount - 1
  <2>1. row.follow_up_count \in Nat /\ FollowUpMaxCount \in Int
    BY CampaignAssumption DEF LeadRows
  <2>2. QED
    BY <2>1 DEF Unwanted, Achieved, HasDoNotCallMarker, GoalAchieved, Unreached,
       RetryHangupCauses
<1> DEFINE talked == cause \in NormalHangupCauses \/ cause \notin HangupCauses
<1>4. /\ Talked(cause) <=> talked
      /\ cause \in RetryHangupCauses \/ talked \/ cause \in NeverAgain
      /\ cause \in RetryHangupCauses => ~talked /\ cause \notin NeverAgain
      /\ talked => cause \notin NeverAgain
  BY CauseAssumption DEF GivenCauses, Talked, Unreached, NeverAgain, HangupCauses, RetryHangupCauses,
     NormalHangupCauses
<1>5. status = IF stop THEN "do_not_call"
               ELSE IF cause = "marked_for_handoff" THEN "transferred"
               ELSE IF cause \in RetryHangupCauses
                    THEN IF retry THEN "retrying" ELSE "failed"
               ELSE IF talked
                    THEN IF won THEN "completed"
                         ELSE IF again THEN "following_up" ELSE "follow_up_exhausted"
               ELSE IF cause = "referee_hangup" /\ won THEN "completed" ELSE "failed"
  <2>1. cause \in {"marked_for_handoff", "call_rejected", "referee_hangup"} =>
          cause \in NeverAgain
    BY DEF NeverAgain
  <2>2. QED
    BY <1>1, <1>2, <1>4, <2>1 DEF DecideNext
<1>6. /\ StatusByRule(row, summary, marked, cause).do_not_call <=> stop
      /\ StatusByRule(row, summary, marked, cause).transferred <=>
           ~stop /\ cause = "marked_for_handoff"
      /\ StatusByRule(row, summary, marked, cause).retrying <=>
           ~stop /\ cause \in RetryHangupCauses /\ retry
      /\ StatusByRule(row, summary, marked, cause).completed <=>
           ~stop /\ won /\ (talked \/ cause = "referee_hangup")
      /\ StatusByRule(row, summary, marked, cause).following_up <=>
           ~stop /\ ~won /\ talked /\ again
      /\ StatusByRule(row, summary, marked, cause).follow_up_exhausted <=>
           ~stop /\ ~won /\ talked /\ ~again
  <2> DEFINE rule == StatusByRule(row, summary, marked, cause)
  <2>1. /\ rule.do_not_call = Unwanted(summary, marked)
        /\ rule.transferred = (~Unwanted(summary, marked) /\ cause = "marked_for_handoff")
        /\ rule.retrying = (~Unwanted(summary, marked) /\ cause \in Unreached /\ retry)
        /\ rule.completed = (/\ ~Unwanted(summary, marked) /\ Achieved(summary)
                             /\ Talked(cause) \/ cause = "referee_hangup")
        /\ rule.following_up = (/\ ~Unwanted(summary, marked) /\ ~Achieved(summary)
                                /\ Talked(cause) /\ again)
        /\ rule.follow_up_exhausted =
             (/\ ~Unwanted(summary, marked) /\ ~Achieved(summary) /\ Talked(cause)
              /\ row.follow_up_count >= FollowUpMaxCount - 1)
    BY Zenon DEF StatusByRule
  <2> HIDE DEF rule, stop, won, again, retry, talked
  <2>2. /\ rule.do_not_call <=> stop
        /\ rule.transferred <=> ~stop /\ cause = "marked_for_handoff"
        /\ rule.retrying <=> ~stop /\ cause \in RetryHangupCauses /\ retry
    BY <1>3, <2>1
  <2>3. rule.completed <=> ~stop /\ won /\ (talked \/ cause = "referee_hangup")
    BY <1>3, <1>4, <2>1
  <2>4. /\ rule.following_up <=> ~stop /\ ~won /\ talked /\ again
        /\ rule.follow_up_exhausted <=> ~stop /\ ~won /\ talked /\ ~again
    <3>1. ~again <=> row.follow_up_count >= FollowUpMaxCount - 1
      BY <1>3
    <3> DEFINE late == row.follow_up_count >= FollowUpMaxCount - 1
    <3> HIDE DEF late
    <3>2. rule.follow_up_exhausted <=> ~stop /\ ~won /\ talked /\ late
      BY <1>3, <1>4, <2>1, Zenon DEF late
    <3>3. rule.following_up <=> ~stop /\ ~won /\ talked /\ again
      BY <1>3, <1>4, <2>1, Zenon
    <3>4. QED
      BY <3>1, <3>2, <3>3 DEF late
  <2>5. QED
    BY <2>2, <2>3, <2>4 DEF rule
<1>7. /\ cause = "marked_for_handoff" => cause \in NeverAgain
      /\ cause = "referee_hangup" => cause \in NeverAgain
      /\ cause = "marked_for_handoff" => cause # "referee_hangup"
  BY DEF NeverAgain
<1> HIDE DEF status, stop, won, again, retry, talked
<1> DEFINE r == StatusByRule(row, summary, marked, cause)
<1> HIDE DEF r
<1>8. /\ r.do_not_call <=> status = "do_not_call"
      /\ r.transferred <=> status = "transferred"
      /\ r.retrying <=> status = "retrying"
      /\ r.completed <=> status = "completed"
      /\ r.following_up <=> status = "following_up"
      /\ r.follow_up_exhausted <=> status = "follow_up_exhausted"
  BY <1>4, <1>5, <1>6, <1>7 DEF r
<1>9. QED
  BY <1>8 DEF status, r

LEMMA DecidedStatus ==
  ASSUME NEW row \in LeadRows, NEW summary, NEW marked, NEW cause
  PROVE  DecideNext(row, summary, marked, cause).status \in Redialled \cup Terminal
BY DecisionType DEF Decisions

\* DecisionMatrix, for one row and one call.
Matrix(row, summary, marked, cause) ==
  LET rules == StatusByRule(row, summary, marked, cause)
      status == DecideNext(row, summary, marked, cause).status
  IN row.status = "calling" =>
       \A s \in LeadStatuses :
         status = s <=> IF s \in DOMAIN rules THEN rules[s]
                        ELSE /\ s = "failed"
                             /\ \A t \in DOMAIN rules : ~rules[t]

\* The rules of lead_state.py decide every call of every row, in whatever
\* order decide_next tests them: exactly one status is the right one, and a
\* call that no rule names leaves a failed lead.
THEOREM MatrixIsRight == Spec => []DecisionMatrix
<1>1. TypeOK => DecisionMatrix
  <2> SUFFICES ASSUME TypeOK
               PROVE  \A l \in Leads, summary \in Summaries \cup {NoSummary},
                         marked \in BOOLEAN, cause \in GivenCauses :
                        Matrix(lead[l], summary, marked, cause)
    BY Zenon DEF DecisionMatrix, Matrix
  <2> TAKE l \in Leads, summary \in Summaries \cup {NoSummary},
           marked \in BOOLEAN, cause \in GivenCauses
  <2> DEFINE r == StatusByRule(lead[l], summary, marked, cause)
             status == DecideNext(lead[l], summary, marked, cause).status
  <2>1. lead[l] \in LeadRows
    BY DEF TypeOK
  <2>2. status \in Redialled \cup Terminal
    BY <2>1, DecidedStatus, Zenon
  <2>3. /\ r.do_not_call <=> status = "do_not_call"
        /\ r.transferred <=> status = "transferred"
        /\ r.retrying <=> status = "retrying"
        /\ r.completed <=> status = "completed"
        /\ r.following_up <=> status = "following_up"
        /\ r.follow_up_exhausted <=> status = "follow_up_exhausted"
    BY <2>1, RuleOfStatus, Zenon
  <2>4. DOMAIN r = {"do_not_call", "transferred", "retrying", "completed",
                    "following_up", "follow_up_exhausted"}
    BY DEF StatusByRule
  <2> HIDE DEF r, status
  <2>5. \A t \in DOMAIN r : r[t] <=> status = t
    BY <2>3, <2>4
  <2>6. (\A t \in DOMAIN r : ~r[t]) <=> status = "failed"
    BY <2>2, <2>4, <2>5 DEF Redialled, Terminal
  <2>7. \A s \in LeadStatuses : s \notin DOMAIN r => s \in {"new", "calling", "failed"}
    BY <2>4 DEF LeadStatuses, Redialled, Terminal
  <2>8. status \notin {"new", "calling"}
    BY <2>2 DEF Redialled, Terminal
  <2>9. ASSUME NEW s \in LeadStatuses
        PROVE  status = s <=> IF s \in DOMAIN r THEN r[s]
                              ELSE s = "failed" /\ \A t \in DOMAIN r : ~r[t]
    <3>1. CASE s \in DOMAIN r
      BY <3>1, <2>5
    <3>2. CASE s \notin DOMAIN r
      BY <3>2, <2>6, <2>7, <2>8
    <3>3. QED
      BY <3>1, <3>2
  <2>10. QED
    BY <2>9, Zenon DEF r, status, Matrix
<1>2. QED
  BY <1>1, TypeCorrect, PTL
=============================================================================
