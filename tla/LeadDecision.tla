---------------------------- MODULE LeadDecision ----------------------------
(***************************************************************************)
(* The retry / follow-up decision of isales_worker/lead_state.py, as pure  *)
(* operators: decide_next chooses the lead's next status, WriteBack is the *)
(* set of columns apply_lead_state puts in its UPDATE.                     *)
(*                                                                         *)
(* A point in time is modelled by the delay, in minutes, added to its base *)
(* (the time of processing for a retry, the end of the call for a          *)
(* follow-up); NoTime is SQL NULL.  A lead comes with a time of its own    *)
(* from before its first call, SeedTime.                                   *)
(***************************************************************************)
EXTENDS Integers, Sequences

CONSTANTS
  RetryMaxCount,         \* campaign.retry_max_count
  RetryIntervals,        \* campaign.retry_intervals, minutes
  FollowUpMaxCount,      \* campaign.follow_up_max_count
  FollowUpIntervalDays,  \* campaign.follow_up_interval_days
  NoTime,                \* NULL in lead.next_call_at
  SeedTime,              \* next_call_at of a lead that was never called
  NoSummary,             \* no call_summary row
  NoCause                \* the caller gave no hangup_cause

ASSUME CampaignAssumption ==
  /\ RetryMaxCount \in Int
  /\ RetryIntervals \in Seq(Nat)
  /\ FollowUpMaxCount \in Int
  /\ FollowUpIntervalDays \in Int
  /\ NoTime \notin Nat /\ SeedTime \notin Nat

RetryHangupCauses ==
  {"no_answer", "user_busy", "network_out_of_order", "temporary_failure"}

NormalHangupCauses ==
  {"normal_clearing", "wrap_up_completed", "silence_max_reached",
   "user_hangup", "no_progress_timeout", "manual_hangup"}

\* "other" stands for a member of the enumeration that no rule names.
HangupCauses ==
  RetryHangupCauses \cup NormalHangupCauses
    \cup {"marked_for_handoff", "call_rejected", "referee_hangup", "other"}

ASSUME CauseAssumption == NoCause \notin HangupCauses

\* What decide_next may be given: a member, None, or a string that is none.
GivenCauses == HangupCauses \cup {NoCause, "unrecognised"}

GoalTypes == {"none", "appointment", "do_not_call"}

\* call_summary, as far as the decision reads it.
Summaries == [goal_achieved : BOOLEAN, goal_type : GoalTypes]

Redialled == {"retrying", "following_up"}
Terminal ==
  {"completed", "transferred", "do_not_call", "follow_up_exhausted", "failed"}
LeadStatuses == {"new", "calling"} \cup Redialled \cup Terminal

LeadRows ==
  [status : LeadStatuses, retry_count : Nat, follow_up_count : Nat,
   next_call_at : Nat \cup {NoTime, SeedTime}]

NewLead ==
  [status |-> "new", retry_count |-> 0, follow_up_count |-> 0,
   next_call_at |-> SeedTime]

-----------------------------------------------------------------------------
(***************************************************************************)
(* LeadStateUpdate: the status, the two deltas, and what happens to        *)
(* next_call_at ("keep", "clear", or a delay).                             *)
(***************************************************************************)
Update(status, retryDelta, followUpDelta) ==
  [status |-> status, retry_count_delta |-> retryDelta,
   follow_up_count_delta |-> followUpDelta,
   next_call_at |-> NoTime, clear_next_call_at |-> FALSE]

HasDoNotCallMarker(summary, marked) ==
  \/ summary # NoSummary /\ summary.goal_type = "do_not_call"
  \/ marked

GoalAchieved(summary) == summary # NoSummary /\ summary.goal_achieved

\* retry_intervals[retry_count - 1], clamped to the list; 60 when it is empty.
RetryIntervalMinutes(retryCount) ==
  IF RetryIntervals = <<>> THEN 60
  ELSE IF retryCount <= 1 THEN RetryIntervals[1]
  ELSE IF retryCount >= Len(RetryIntervals) THEN RetryIntervals[Len(RetryIntervals)]
  ELSE RetryIntervals[retryCount]

\* The mutants of a definition, here and in the other modules, precede it.
RetriesLeftOffByOne(row) == row.retry_count < RetryMaxCount
RetriesLeft(row) == row.retry_count + 1 < RetryMaxCount

RetryDelayBackwards(row) == 0 - RetryIntervalMinutes(row.retry_count + 1)
RetryDelay(row) == RetryIntervalMinutes(row.retry_count + 1)

RetryDecision(row) ==
  IF RetriesLeft(row)
  THEN [Update("retrying", 1, 0) EXCEPT !.next_call_at = RetryDelay(row)]
  ELSE Update("failed", 1, 0)

FollowUpDecisionUncounted(row) ==
  IF FollowUpMaxCount <= 0 \/ row.follow_up_count + 1 >= FollowUpMaxCount
  THEN Update("follow_up_exhausted", 0, 1)
  ELSE [Update("following_up", 0, 0) EXCEPT !.next_call_at = FollowUpIntervalDays * 1440]

FollowUpDecision(row) ==
  IF FollowUpMaxCount <= 0 \/ row.follow_up_count + 1 >= FollowUpMaxCount
  THEN Update("follow_up_exhausted", 0, IF FollowUpMaxCount > 0 THEN 1 ELSE 0)
  ELSE [Update("following_up", 0, 1)
          EXCEPT !.next_call_at =
            IF FollowUpIntervalDays > 0 THEN FollowUpIntervalDays * 1440 ELSE 0]

DecideNextCauseFirst(row, summary, marked, cause) ==
  IF cause \in RetryHangupCauses
    THEN RetryDecision(row)
  ELSE IF HasDoNotCallMarker(summary, marked)
    THEN [Update("do_not_call", 0, 0) EXCEPT !.clear_next_call_at = TRUE]
  ELSE IF cause \in NormalHangupCauses /\ GoalAchieved(summary)
    THEN Update("completed", 0, 0)
  ELSE FollowUpDecision(row)

(***************************************************************************)
(* decide_next: the rules in priority order, first match wins.  `row` is   *)
(* the lead as loaded, `marked` whether the transcript holds a             *)
(* do_not_call_marked event.  A string that is no member of the            *)
(* enumeration is converted to None, like a missing cause.                 *)
(***************************************************************************)
DecideNext(row, summary, marked, cause) ==
  IF HasDoNotCallMarker(summary, marked)
    THEN [Update("do_not_call", 0, 0) EXCEPT !.clear_next_call_at = TRUE]
  ELSE IF cause = "marked_for_handoff"
    THEN Update("transferred", 0, 0)
  ELSE IF cause \in RetryHangupCauses
    THEN RetryDecision(row)
  ELSE IF cause = "call_rejected"
    THEN Update("failed", 0, 0)
  ELSE IF cause = "referee_hangup"
    THEN Update(IF GoalAchieved(summary) THEN "completed" ELSE "failed", 0, 0)
  ELSE IF cause \in NormalHangupCauses \/ cause \notin HangupCauses
    THEN IF GoalAchieved(summary) THEN Update("completed", 0, 0)
         ELSE FollowUpDecision(row)
  ELSE Update("failed", 0, 0)

(***************************************************************************)
(* The UPDATE of apply_lead_state: counters are absolute values computed   *)
(* from the row as loaded, and a column the decision does not touch keeps  *)
(* whatever the row holds now.                                             *)
(***************************************************************************)
WriteBackKeepsTime(row, loaded, decision) ==
  [status |-> decision.status,
   retry_count |-> IF decision.retry_count_delta # 0
                   THEN loaded.retry_count + decision.retry_count_delta
                   ELSE row.retry_count,
   follow_up_count |-> IF decision.follow_up_count_delta # 0
                       THEN loaded.follow_up_count + decision.follow_up_count_delta
                       ELSE row.follow_up_count,
   next_call_at |-> IF decision.next_call_at # NoTime
                    THEN decision.next_call_at ELSE row.next_call_at]

WriteBack(row, loaded, decision) ==
  [status |-> decision.status,
   retry_count |-> IF decision.retry_count_delta # 0
                   THEN loaded.retry_count + decision.retry_count_delta
                   ELSE row.retry_count,
   follow_up_count |-> IF decision.follow_up_count_delta # 0
                       THEN loaded.follow_up_count + decision.follow_up_count_delta
                       ELSE row.follow_up_count,
   next_call_at |-> CASE decision.clear_next_call_at -> NoTime
                      [] ~decision.clear_next_call_at /\ decision.next_call_at # NoTime
                           -> decision.next_call_at
                      [] OTHER -> row.next_call_at]

-----------------------------------------------------------------------------
\* The limits as decide_next applies them: 0 and 1 both allow one attempt.
RetryLimit == IF RetryMaxCount > 1 THEN RetryMaxCount ELSE 1
FollowUpLimit == IF FollowUpMaxCount > 1 THEN FollowUpMaxCount ELSE 1

LiveRowBelowLimits(row) ==
  row.status \notin Terminal =>
    row.retry_count < RetryLimit /\ row.follow_up_count < FollowUpLimit
RowWithinLimits(row) ==
  row.retry_count <= RetryLimit /\ row.follow_up_count <= FollowUpLimit
=============================================================================
