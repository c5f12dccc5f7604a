-------------------------- MODULE LeadDecisionProofs --------------------------
(***************************************************************************)
(* Lemmas about the operators of LeadDecision and TranscriptMarkers: the   *)
(* decision and the row its UPDATE leaves, for every campaign; the markers *)
(* of every transcript.                                                    *)
(***************************************************************************)
EXTENDS TranscriptMarkers, FiniteSetTheorems, TLAPS

Decisions ==
  [status : Redialled \cup Terminal,
   retry_count_delta : {0, 1},
   follow_up_count_delta : {0, 1},
   next_call_at : Nat \cup {NoTime},
   clear_next_call_at : BOOLEAN]

\* The retry interval is a number of minutes whatever the retry count.
LEMMA RetryIntervalIsNat ==
  ASSUME NEW n \in Nat
  PROVE  RetryIntervalMinutes(n) \in Nat
<1>1. CASE RetryIntervals = <<>>
  BY <1>1 DEF RetryIntervalMinutes
<1>2. CASE RetryIntervals # <<>>
  <2>1. /\ Len(RetryIntervals) \in Nat \ {0}
        /\ \A i \in 1..Len(RetryIntervals) : RetryIntervals[i] \in Nat
    BY <1>2, CampaignAssumption
  <2>2. QED
    BY <1>2, <2>1 DEF RetryIntervalMinutes
<1>3. QED
  BY <1>1, <1>2

\* Every decision is a status other than new and calling, two deltas and a
\* treatment of next_call_at.
LEMMA DecisionType ==
  ASSUME NEW row \in LeadRows, NEW summary, NEW marked, NEW cause
  PROVE  DecideNext(row, summary, marked, cause) \in Decisions
<1>1. /\ row.retry_count \in Nat /\ row.follow_up_count \in Nat
      /\ row.retry_count + 1 \in Nat
  BY DEF LeadRows
<1>2. RetryIntervalMinutes(row.retry_count + 1) \in Nat
  BY <1>1, RetryIntervalIsNat
<1>3. RetryDecision(row) \in Decisions
  BY <1>1, <1>2 DEF RetryDecision, RetriesLeft, RetryDelay, Update, Decisions, Redialled, Terminal
<1>4. \A d \in {0, 1} : Update("follow_up_exhausted", 0, d) \in Decisions
  BY DEF Update, Decisions, Terminal
<1> DEFINE delay == IF FollowUpIntervalDays > 0 THEN FollowUpIntervalDays * 1440 ELSE 0
<1>5. [Update("following_up", 0, 1) EXCEPT !.next_call_at = delay] \in Decisions
  <2>1. delay \in Nat
    BY CampaignAssumption
  <2> HIDE DEF delay
  <2>2. QED
    BY <2>1 DEF Update, Decisions, Redialled
<1>6. FollowUpDecision(row) \in Decisions
  BY <1>4, <1>5 DEF FollowUpDecision
<1>7. \A s \in Terminal :
        /\ Update(s, 0, 0) \in Decisions
        /\ [Update(s, 0, 0) EXCEPT !.clear_next_call_at = TRUE] \in Decisions
  BY DEF Update, Decisions
<1>8. QED
  BY <1>3, <1>6, <1>7 DEF DecideNext, Terminal

\* A decision that lets the lead be called again raises exactly one counter
\* and leaves it below its limit; no decision raises both.
LEMMA DecisionLimits ==
  ASSUME NEW row \in LeadRows, NEW summary, NEW marked, NEW cause
  PROVE  LET d == DecideNext(row, summary, marked, cause)
         IN /\ d.retry_count_delta + d.follow_up_count_delta \in {0, 1}
            /\ d.status \in Redialled =>
                 \/ /\ d.retry_count_delta = 1 /\ d.follow_up_count_delta = 0
                    /\ row.retry_count + 1 < RetryLimit
                 \/ /\ d.retry_count_delta = 0 /\ d.follow_up_count_delta = 1
                    /\ row.follow_up_count + 1 < FollowUpLimit
<1> DEFINE Good(d) ==
      /\ d.retry_count_delta + d.follow_up_count_delta \in {0, 1}
      /\ d.status \in Redialled =>
           \/ /\ d.retry_count_delta = 1 /\ d.follow_up_count_delta = 0
              /\ row.retry_count + 1 < RetryLimit
           \/ /\ d.retry_count_delta = 0 /\ d.follow_up_count_delta = 1
              /\ row.follow_up_count + 1 < FollowUpLimit
<1>1. /\ row.retry_count \in Nat /\ row.follow_up_count \in Nat
      /\ RetryMaxCount \in Int /\ FollowUpMaxCount \in Int
  BY CampaignAssumption DEF LeadRows
<1>2. Good(RetryDecision(row))
  BY <1>1 DEF RetryDecision, RetriesLeft, RetryDelay, Update, Redialled, RetryLimit
<1>3. Good(FollowUpDecision(row))
  BY <1>1 DEF FollowUpDecision, Update, Redialled, FollowUpLimit
<1>4. \A s \in Terminal :
        /\ Good(Update(s, 0, 0))
        /\ Good([Update(s, 0, 0) EXCEPT !.clear_next_call_at = TRUE])
  BY DEF Update, Redialled, Terminal
<1> HIDE DEF Good
<1>5. Good(DecideNext(row, summary, marked, cause))
  BY <1>2, <1>3, <1>4 DEF DecideNext, Terminal
<1>6. QED
  BY <1>5 DEF Good

\* What a status says about the call that led to it.
LEMMA DecisionExplained ==
  ASSUME NEW row, NEW summary, NEW marked \in BOOLEAN, NEW cause \in HangupCauses
  PROVE  LET status == DecideNext(row, summary, marked, cause).status
         IN /\ HasDoNotCallMarker(summary, marked) <=> status = "do_not_call"
            /\ status = "completed" => GoalAchieved(summary)
            /\ status = "transferred" => cause = "marked_for_handoff"
            /\ status = "retrying" => cause \in RetryHangupCauses
            /\ status \in {"following_up", "follow_up_exhausted"} =>
                 cause \in NormalHangupCauses /\ ~GoalAchieved(summary)
<1>1. RetryDecision(row).status \in {"retrying", "failed"}
  BY DEF RetryDecision, Update
<1>2. FollowUpDecision(row).status \in {"following_up", "follow_up_exhausted"}
  BY DEF FollowUpDecision, Update
<1>3. \A s : Update(s, 0, 0).status = s
      /\ [Update("do_not_call", 0, 0) EXCEPT !.clear_next_call_at = TRUE].status = "do_not_call"
  BY DEF Update
<1> DEFINE status == DecideNext(row, summary, marked, cause).status
<1>4. CASE HasDoNotCallMarker(summary, marked)
  <2>1. status = "do_not_call"
    BY <1>3, <1>4 DEF DecideNext
  <2>2. QED
    BY <1>4, <2>1
<1>5. CASE ~HasDoNotCallMarker(summary, marked)
  <2>1. /\ cause = "marked_for_handoff" => status = "transferred"
        /\ cause \in RetryHangupCauses => status \in {"retrying", "failed"}
    BY <1>1, <1>3, <1>5 DEF DecideNext, RetryHangupCauses
  <2>2. /\ cause \in {"call_rejected", "other"} => status = "failed"
        /\ cause = "referee_hangup" =>
             status = IF GoalAchieved(summary) THEN "completed" ELSE "failed"
    BY <1>3, <1>5, CauseAssumption
    DEF DecideNext, RetryHangupCauses, NormalHangupCauses, HangupCauses
  <2>3. /\ cause \in NormalHangupCauses /\ GoalAchieved(summary) => status = "completed"
        /\ cause \in NormalHangupCauses /\ ~GoalAchieved(summary) =>
             status \in {"following_up", "follow_up_exhausted"}
    BY <1>2, <1>3, <1>5 DEF DecideNext, RetryHangupCauses, NormalHangupCauses
  <2>4. \/ cause \in RetryHangupCauses \/ cause \in NormalHangupCauses
        \/ cause \in {"marked_for_handoff", "call_rejected", "referee_hangup", "other"}
    BY DEF HangupCauses
  <2> HIDE DEF status
  <2>5. QED
    BY <1>5, <2>1, <2>2, <2>3, <2>4 DEF status
<1>6. QED
  BY <1>4, <1>5

\* When the lead is to be called again: only a decision that waits sets a
\* time, and only do_not_call clears it.
LEMMA DecisionTime ==
  ASSUME NEW row, NEW summary, NEW marked, NEW cause
  PROVE  LET d == DecideNext(row, summary, marked, cause)
         IN /\ d.clear_next_call_at <=> d.status = "do_not_call"
            /\ d.status = "retrying" =>
                 d.retry_count_delta = 1 /\ d.next_call_at = RetryDelay(row)
            /\ d.status = "following_up" =>
                 d.next_call_at =
                   IF FollowUpIntervalDays < 0 THEN 0 ELSE FollowUpIntervalDays * 24 * 60
            /\ d.status \notin Redialled => d.next_call_at = NoTime
<1> DEFINE Good(d) ==
      /\ d.clear_next_call_at <=> d.status = "do_not_call"
      /\ d.status = "retrying" =>
           d.retry_count_delta = 1 /\ d.next_call_at = RetryDelay(row)
      /\ d.status = "following_up" =>
           d.next_call_at =
             IF FollowUpIntervalDays < 0 THEN 0 ELSE FollowUpIntervalDays * 24 * 60
      /\ d.status \notin Redialled => d.next_call_at = NoTime
<1>1. Good(RetryDecision(row))
  BY DEF RetryDecision, Update, Redialled
<1>2. Good(FollowUpDecision(row))
  BY CampaignAssumption DEF FollowUpDecision, Update, Redialled
<1>3. \A s \in Terminal \ {"do_not_call"} : Good(Update(s, 0, 0))
  BY DEF Update, Redialled, Terminal
<1>4. Good([Update("do_not_call", 0, 0) EXCEPT !.clear_next_call_at = TRUE])
  BY DEF Update, Redialled
<1> HIDE DEF Good
<1>5. Good(DecideNext(row, summary, marked, cause))
  BY <1>1, <1>2, <1>3, <1>4 DEF DecideNext, Terminal
<1>6. QED
  BY <1>5 DEF Good

\* The interval of the n-th retry is the n-th of the list, or its last.
LEMMA RetryIntervalOfCount ==
  ASSUME NEW n \in Nat \ {0}, RetryIntervals # <<>>
  PROVE  RetryIntervalMinutes(n) =
           RetryIntervals[CHOOSE i \in 1..Len(RetryIntervals) :
             i = n \/ (i = Len(RetryIntervals) /\ i < n)]
<1> DEFINE last == Len(RetryIntervals)
           Chosen(i) == i = n \/ (i = last /\ i < n)
<1>1. last \in Nat \ {0}
  BY CampaignAssumption
<1>2. CASE n <= last
  <2>1. n \in 1..last /\ \A i \in 1..last : Chosen(i) <=> i = n
    BY <1>1, <1>2
  <2> DEFINE chosen == CHOOSE i \in 1..last : Chosen(i)
  <2> HIDE DEF Chosen
  <2>2. chosen \in 1..last /\ Chosen(chosen)
    BY <2>1
  <2>3. chosen = n
    BY <2>1, <2>2
  <2>4. RetryIntervalMinutes(n) = RetryIntervals[n]
    BY <1>1, <1>2 DEF RetryIntervalMinutes
  <2>5. QED
    BY <2>3, <2>4 DEF Chosen
<1>3. CASE n > last
  <2>1. \A i \in 1..last : Chosen(i) <=> i = last
    BY <1>1, <1>3
  <2>2. (CHOOSE i \in 1..last : Chosen(i)) = last
    BY <1>1, <1>3, <2>1
  <2>3. QED
    BY <1>1, <1>3, <2>2 DEF RetryIntervalMinutes
<1>4. QED
  BY <1>1, <1>2, <1>3

\* What the UPDATE leaves in a row, as sums, from the row it is applied to
\* and the row that was loaded.
LEMMA WriteBackRow ==
  ASSUME NEW row \in LeadRows, NEW loaded \in LeadRows, NEW d \in Decisions
  PROVE  LET new == WriteBack(row, loaded, d)
         IN /\ new \in LeadRows
            /\ new.status = d.status
            /\ new.retry_count = IF d.retry_count_delta = 0 THEN row.retry_count
                                 ELSE loaded.retry_count + 1
            /\ new.follow_up_count =
                 IF d.follow_up_count_delta = 0 THEN row.follow_up_count
                 ELSE loaded.follow_up_count + 1
            /\ new.next_call_at = IF d.clear_next_call_at THEN NoTime
                                  ELSE IF d.next_call_at # NoTime THEN d.next_call_at
                                  ELSE row.next_call_at
<1>1. /\ row.retry_count \in Nat /\ row.follow_up_count \in Nat
      /\ loaded.retry_count \in Nat /\ loaded.follow_up_count \in Nat
      /\ row.next_call_at \in Nat \cup {NoTime, SeedTime}
  BY DEF LeadRows
<1>2. /\ d.status \in LeadStatuses
      /\ d.retry_count_delta \in {0, 1} /\ d.follow_up_count_delta \in {0, 1}
      /\ d.next_call_at \in Nat \cup {NoTime}
      /\ d.clear_next_call_at \in BOOLEAN
  BY DEF Decisions, LeadStatuses
<1>3. /\ WriteBack(row, loaded, d).next_call_at \in Nat \cup {NoTime, SeedTime}
      /\ WriteBack(row, loaded, d).next_call_at =
           IF d.clear_next_call_at THEN NoTime
           ELSE IF d.next_call_at # NoTime THEN d.next_call_at ELSE row.next_call_at
  BY <1>1, <1>2 DEF WriteBack
<1>4. QED
  BY <1>1, <1>2, <1>3 DEF WriteBack, LeadRows

LEMMA LimitsArePositive == RetryLimit \in Nat \ {0} /\ FollowUpLimit \in Nat \ {0}
BY CampaignAssumption DEF RetryLimit, FollowUpLimit

-----------------------------------------------------------------------------
(* LastRoleMarkers is a fold.  That there is a function that does what the *)
(* fold says is shown by writing it down (LastMark), and that there is     *)
(* only one by a smallest set of positions on which two would differ.      *)

LEMMA LargestElement ==
  ASSUME NEW n \in Nat, NEW S \in SUBSET (1..n), S # {}
  PROVE  Max(S) \in S /\ \A x \in S : x <= Max(S)
<1> DEFINE bounds == {m \in Nat : \A x \in S : x <= m}
           less == OpToRel(<, Nat)
<1>1. bounds \subseteq Nat /\ n \in bounds
  OBVIOUS
<1>2. IsWellFoundedOn(less, Nat)
  BY NatLessThanWellFounded
<1> HIDE DEF bounds, less
<1>3. PICK m \in bounds : \A k \in bounds : <<k, m>> \notin less
  BY <1>1, <1>2, WFMin
<1>4. \A k \in Nat : k < m => k \notin bounds
  BY <1>1, <1>3 DEF less, OpToRel
<1>5. m \in Nat /\ \A x \in S : x <= m
  BY DEF bounds
<1>6. m \in S
  <2> SUFFICES ASSUME m \notin S PROVE FALSE
    OBVIOUS
  <2>1. m # 0 /\ \A x \in S : x <= m - 1
    <3>1. \A x \in S : x \in 1..n /\ x # m
      OBVIOUS
    <3>2. PICK x \in S : TRUE
      OBVIOUS
    <3> QED
      BY <1>5, <3>1, <3>2
  <2> QED
    BY <1>4, <1>5, <2>1 DEF bounds
<1>7. \E x \in S : \A y \in S : x >= y
  BY <1>5, <1>6
<1> QED
  BY <1>7 DEF Max

Blank == [goal_achieved |-> FALSE, goal_type |-> "none"]

\* One step of the fold, from the value at the set of earlier positions.
LatchLast(iter, t, s) ==
  IF s = {} THEN Blank ELSE Latch(iter[s \ {Max(s)}], t[Max(s)])
Latched(t) == CHOOSE iter : iter = [s \in SUBSET (DOMAIN t) |-> LatchLast(iter, t, s)]

LEMMA MarkersAreLatched ==
  ASSUME NEW t \in Seq(Events)
  PROVE  LastRoleMarkers(t) = Latched(t)[DOMAIN t]
BY Zenon DEF LastRoleMarkers, FoldLeft, MapThenFoldSet, Blank, LatchLast, Latched

\* What the fold has latched after the positions of s, without a fold.
Marks(t, s) == {i \in s : IsGoalMarker(t[i])}
LastMark(t, s) ==
  IF Marks(t, s) = {} THEN Blank
  ELSE [goal_achieved |-> TRUE, goal_type |-> t[Max(Marks(t, s))].goal_type]

LEMMA LastMarkIsLatched ==
  ASSUME NEW t \in Seq(Events), NEW s \in SUBSET (DOMAIN t), s # {}
  PROVE  LastMark(t, s) = Latch(LastMark(t, s \ {Max(s)}), t[Max(s)])
<1> DEFINE m == Max(s)
<1>1. Len(t) \in Nat /\ DOMAIN t = 1..Len(t)
  OBVIOUS
<1>2. m \in s /\ \A x \in s : x <= m
  BY <1>1, LargestElement
<1>3. CASE IsGoalMarker(t[m])
  <2>1. m \in Marks(t, s) /\ Marks(t, s) \in SUBSET (1..Len(t))
    BY <1>1, <1>2, <1>3 DEF Marks
  <2>2. Max(Marks(t, s)) \in Marks(t, s) /\ m <= Max(Marks(t, s))
    BY <1>1, <2>1, LargestElement
  <2>3. Max(Marks(t, s)) = m
    BY <1>1, <1>2, <2>1, <2>2 DEF Marks
  <2> QED
    BY <1>3, <2>1, <2>3 DEF LastMark, Latch
<1>4. CASE ~IsGoalMarker(t[m])
  <2>1. Marks(t, s) = Marks(t, s \ {m})
    BY <1>4 DEF Marks
  <2> QED
    BY <1>4, <2>1 DEF LastMark, Latch
<1> QED
  BY <1>3, <1>4

\* The fold is the only function on the sets of positions that does what
\* LatchLast says: a smallest set on which two of them differ does not exist.
LEMMA LatchedIsLastMark ==
  ASSUME NEW t \in Seq(Events)
  PROVE  \A s \in SUBSET (DOMAIN t) : Latched(t)[s] = LastMark(t, s)
<1> DEFINE D == DOMAIN t
           g == [s \in SUBSET D |-> LastMark(t, s)]
           h == Latched(t)
           differ == {s \in SUBSET D : h[s] # g[s]}
<1>1. IsFiniteSet(D)
  BY FS_Interval
<1>6. Len(t) \in Nat /\ D = 1..Len(t)
  OBVIOUS
<1>2. \A s \in SUBSET D : g[s] = LatchLast(g, t, s)
  <2> SUFFICES ASSUME NEW s \in SUBSET D PROVE g[s] = LatchLast(g, t, s)
    OBVIOUS
  <2>1. CASE s = {}
    BY <2>1 DEF LastMark, Marks, LatchLast
  <2>2. CASE s # {}
    BY <2>2, LastMarkIsLatched DEF LatchLast
  <2> QED
    BY <2>1, <2>2
<1>3. g = [s \in SUBSET D |-> LatchLast(g, t, s)]
  <2> DEFINE gg == [s \in SUBSET D |-> LatchLast(g, t, s)]
  <2>1. \A s \in SUBSET D : g[s] = gg[s]
    BY <1>2
  <2> QED
    BY <2>1
<1> HIDE DEF g
<1>4. h = [s \in SUBSET D |-> LatchLast(h, t, s)]
  BY <1>3, Zenon DEF Latched
<1> HIDE DEF h
<1>5. differ = {}
  <2> SUFFICES ASSUME differ # {} PROVE FALSE
    OBVIOUS
  <2>1. differ \subseteq FiniteSubsetsOf(D)
    BY <1>1, FS_FiniteSubsetsOfFinite
  <2>2. PICK s \in differ : \A u \in differ : <<u, s>> \notin StrictSubsetOrdering(D)
    BY <2>1, FS_StrictSubsetOrderingWellFounded, WFMin
  <2>3. s \in SUBSET D /\ h[s] # g[s]
    BY <2>2
  <2>4. h[s] = LatchLast(h, t, s) /\ g[s] = LatchLast(g, t, s)
    BY <1>2, <1>4, <2>3
  <2>5. s # {}
    BY <2>3, <2>4 DEF LatchLast
  <2>6. Max(s) \in s
    BY <1>6, <2>3, <2>5, LargestElement
  <2>7. h[s \ {Max(s)}] = g[s \ {Max(s)}]
    <3>1. s \ {Max(s)} \in SUBSET D /\ s \ {Max(s)} \subseteq s /\ s \ {Max(s)} # s
      BY <2>3, <2>6
    <3>2. <<s \ {Max(s)}, s>> \in StrictSubsetOrdering(D)
      BY <2>3, <3>1 DEF StrictSubsetOrdering
    <3> QED
      BY <2>2, <3>1, <3>2
  <2> QED
    BY <2>3, <2>4, <2>5, <2>7 DEF LatchLast
<1>7. \A s \in SUBSET D : h[s] = g[s]
  BY <1>5
<1> QED
  BY <1>7 DEF g, h

\* One pass over a transcript finds what the whole of it says.
THEOREM MarkersAreRight ==
  ASSUME NEW t \in Seq(Events)
  PROVE  LastRoleMarkers(t) \in Summaries /\ IsLastRoleMarkers(LastRoleMarkers(t), t)
<1> DEFINE marks == Marks(t, DOMAIN t)
<1>1. LastRoleMarkers(t) = LastMark(t, DOMAIN t)
  BY MarkersAreLatched, LatchedIsLastMark
<1>2. marks = {i \in DOMAIN t : IsGoalMarker(t[i])} /\ DOMAIN t = 1..Len(t)
  BY DEF Marks
<1>3. CASE marks = {}
  BY <1>1, <1>2, <1>3 DEF LastMark, Blank, Summaries, GoalTypes, IsLastRoleMarkers
<1>4. CASE marks # {}
  <2>1. Max(marks) \in marks /\ \A j \in marks : j <= Max(marks)
    <3>1. Len(t) \in Nat /\ marks \in SUBSET (1..Len(t))
      BY <1>2
    <3> QED
      BY <1>4, <3>1, LargestElement
  <2>2. t[Max(marks)].goal_type \in GoalTypes
    <3>1. Max(marks) \in 1..Len(t)
      BY <1>2, <2>1
    <3>2. t[Max(marks)] \in Events
      BY <3>1
    <3> QED
      BY <3>2 DEF Events
  <2>3. LastRoleMarkers(t) =
          [goal_achieved |-> TRUE, goal_type |-> t[Max(marks)].goal_type]
    BY <1>1, <1>4 DEF LastMark
  <2> HIDE DEF marks
  <2>4. LastRoleMarkers(t) \in Summaries
    BY <2>2, <2>3 DEF Summaries
  <2>5. IsLastRoleMarkers(LastRoleMarkers(t), t)
    <3>1. /\ LastRoleMarkers(t).goal_achieved
          /\ LastRoleMarkers(t).goal_type = t[Max(marks)].goal_type
      BY <2>3
    <3>2. \E i \in marks : /\ \A j \in marks : j <= i
                           /\ LastRoleMarkers(t).goal_type = t[i].goal_type
      BY <2>1, <3>1
    <3> QED
      BY <1>2, <1>4, <3>1, <3>2, Zenon DEF IsLastRoleMarkers
  <2> QED
    BY <2>4, <2>5
<1> QED
  BY <1>3, <1>4
=============================================================================
