--------------------------- MODULE TranscriptMarkers ---------------------------
(***************************************************************************)
(* What the worker reads in a call's transcript: the goal markers that     *)
(* isales_worker/llm/mock.py puts in the summary, and the do-not-call      *)
(* event lead_state.py looks for.  An event keeps only what they read;     *)
(* a goal_type that is empty or missing is "none".                         *)
(***************************************************************************)
EXTENDS LeadDecision, SequencesExt

\* "bot_speech" is the name that ai_reply had before; it must be ignored.
\* "user_speech" stands for every event that nobody reads here.
EventTypes ==
  {"user_speech", "ai_reply", "bot_speech", "goal_achieved", "do_not_call_marked"}

Events == [type : EventTypes, goal_achieved : BOOLEAN, goal_type : GoalTypes]

IsGoalMarker(e) ==
  e.type = "goal_achieved" \/ (e.type = "ai_reply" /\ e.goal_achieved)

Latch(latched, e) ==
  IF IsGoalMarker(e)
  THEN [goal_achieved |-> TRUE, goal_type |-> e.goal_type] ELSE latched

\* Mutant: the reply spoken last decides.
LastReplyDecides(latched, e) ==
  IF e.type = "ai_reply"
  THEN [goal_achieved |-> e.goal_achieved, goal_type |-> e.goal_type] ELSE latched
LastRoleMarkersOfReplies(transcript) ==
  FoldLeft(LastReplyDecides, [goal_achieved |-> FALSE, goal_type |-> "none"], transcript)

\* One pass over the transcript keeps the last achieved marker.
LastRoleMarkers(transcript) ==
  FoldLeft(Latch, [goal_achieved |-> FALSE, goal_type |-> "none"], transcript)

MarkedDoNotCall(transcript) ==
  \E i \in DOMAIN transcript : transcript[i].type = "do_not_call_marked"

-----------------------------------------------------------------------------
\* The same, said of the whole transcript: a goal was reached if any event
\* marks one, and its type is that of a marker with no marker after it.
IsLastRoleMarkers(markers, transcript) ==
  LET marks == {i \in DOMAIN transcript : IsGoalMarker(transcript[i])}
  IN IF marks = {}
     THEN ~markers.goal_achieved /\ markers.goal_type = "none"
     ELSE /\ markers.goal_achieved
          /\ \E i \in marks : /\ \A j \in marks : j <= i
                              /\ markers.goal_type = transcript[i].goal_type
=============================================================================
