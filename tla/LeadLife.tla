------------------------------- MODULE LeadLife -------------------------------
(***************************************************************************)
(* What the worker promises about a lead, without the machinery: a lead is *)
(* dialled, and each call is resolved once, in one step, by the decision   *)
(* of LeadDecision applied to the row as it is.  CallPipeline, in which a  *)
(* message is popped, processed in stages and may be lost, implements this *)
(* specification as long as no message is delivered twice.                 *)
(***************************************************************************)
EXTENDS LeadDecision, FiniteSets

CONSTANT Leads

VARIABLES
  lead,   \* the lead rows
  dials   \* history: how many times each lead was dialled

vars == <<lead, dials>>

Init ==
  /\ lead = [l \in Leads |-> NewLead]
  /\ dials = [l \in Leads |-> 0]

\* The scheduler (another service) claims a lead that waits for a call.
Dial(l) ==
  /\ lead[l].status \in {"new"} \cup Redialled
  /\ lead' = [lead EXCEPT ![l].status = "calling"]
  /\ dials' = [dials EXCEPT ![l] = @ + 1]

\* The call ended: the decision of the worker, read and written in one step.
Resolve(l, summary, marked, cause) ==
  /\ lead[l].status = "calling"
  /\ lead' = [lead EXCEPT ![l] =
                WriteBack(@, @, DecideNext(@, summary, marked, cause))]
  /\ UNCHANGED dials

ResolveSome(l) ==
  \E summary \in Summaries \cup {NoSummary}, marked \in BOOLEAN,
     cause \in GivenCauses :
    Resolve(l, summary, marked, cause)

Next == \E l \in Leads : Dial(l) \/ ResolveSome(l)

Spec == Init /\ [][Next]_vars

-----------------------------------------------------------------------------
\* Every row is a row of the lead table, and the history counts dials.
TypeOK ==
  /\ lead \in [Leads -> LeadRows]
  /\ dials \in [Leads -> Nat]

\* A lead that may still be called is below both limits of its campaign, and
\* no counter ever passes its limit (decide_next stops at next >= max).
CounterLimits ==
  \A l \in Leads : LiveRowBelowLimits(lead[l]) /\ RowWithinLimits(lead[l])

\* Every dial of a lead was paid for: each resolved call that allows another
\* one raised exactly one of the two counters.
InCall(row) == IF row.status = "calling" THEN 1 ELSE 0
DialsAccounted ==
  \A l \in Leads :
    LET spent == lead[l].retry_count + lead[l].follow_up_count
    IN IF lead[l].status \in Terminal
       THEN dials[l] \in {spent, spent + 1}
       ELSE dials[l] = spent + InCall(lead[l])

\* However its calls end, a campaign bothers a person at most this often.
DialBound ==
  \A l \in Leads : dials[l] <= RetryLimit + FollowUpLimit - 1

\* A lead that waits for a call waits for what the campaign says: the
\* interval of its current retry count, or the follow-up interval.  Any other
\* lead keeps the time it had, that of its last plan or, before it was called
\* again, the one it came with, also when it is completed, transferred,
\* exhausted or failed: only do_not_call clears next_call_at.
WaitsForTheRightTime ==
  \A l \in Leads :
    /\ lead[l].status = "retrying" =>
         lead[l].next_call_at =
           IF RetryIntervals = <<>> THEN 60
           ELSE RetryIntervals[CHOOSE i \in 1..Len(RetryIntervals) :
                  \/ i = lead[l].retry_count
                  \/ i = Len(RetryIntervals) /\ i < lead[l].retry_count]
    /\ lead[l].status = "following_up" =>
         lead[l].next_call_at =
           IF FollowUpIntervalDays < 0 THEN 0 ELSE FollowUpIntervalDays * 24 * 60
    /\ lead[l].status \notin Redialled =>
         IF lead[l].status = "do_not_call" THEN lead[l].next_call_at = NoTime
         ELSE IF dials[l] <= 1 THEN lead[l].next_call_at = SeedTime
         ELSE lead[l].next_call_at \in Nat

\* The decision matrix as the rules of the module's docstring state it, each
\* target by the conditions that lead to it, whatever order the code tests
\* them in: compared with decide_next on every row that occurs.
Unwanted(summary, marked) ==
  marked \/ (summary # NoSummary /\ summary.goal_type = "do_not_call")
Achieved(summary) == summary # NoSummary /\ summary.goal_achieved
Unreached == {"no_answer", "user_busy", "network_out_of_order", "temporary_failure"}
NeverAgain == {"marked_for_handoff", "call_rejected", "referee_hangup", "other"}
Talked(cause) == cause \notin Unreached \cup NeverAgain

StatusByRule(row, summary, marked, cause) ==
  [do_not_call |-> Unwanted(summary, marked),
   transferred |-> ~Unwanted(summary, marked) /\ cause = "marked_for_handoff",
   retrying |-> /\ ~Unwanted(summary, marked)
                /\ cause \in Unreached
                /\ row.retry_count < RetryMaxCount - 1,
   completed |-> /\ ~Unwanted(summary, marked)
                 /\ Achieved(summary)
                 /\ Talked(cause) \/ cause = "referee_hangup",
   following_up |-> /\ ~Unwanted(summary, marked)
                    /\ ~Achieved(summary)
                    /\ Talked(cause)
                    /\ row.follow_up_count < FollowUpMaxCount - 1,
   follow_up_exhausted |-> /\ ~Unwanted(summary, marked)
                           /\ ~Achieved(summary)
                           /\ Talked(cause)
                           /\ row.follow_up_count >= FollowUpMaxCount - 1]

DecisionMatrix ==
  \A l \in Leads, summary \in Summaries \cup {NoSummary}, marked \in BOOLEAN,
     cause \in GivenCauses :
    LET rules == StatusByRule(lead[l], summary, marked, cause)
        status == DecideNext(lead[l], summary, marked, cause).status
    IN lead[l].status = "calling" =>
         \A s \in LeadStatuses :
           status = s <=> IF s \in DOMAIN rules THEN rules[s]
                          ELSE /\ s = "failed"
                               /\ \A t \in DOMAIN rules : ~rules[t]
=============================================================================
