--------------------------- MODULE MCCallPipeline ---------------------------
(***************************************************************************)
(* Instances of CallPipeline: a small campaign and the ways a call ends    *)
(* that the decision tells apart.                                          *)
(***************************************************************************)
EXTENDS CallPipeline, TLC

CONSTANTS c1, c2, c3, c4, l1, l2, w1, w2

Intervals == <<5, 30>>

Event(type, achieved, goal) ==
  [type |-> type, goal_achieved |-> achieved, goal_type |-> goal]
Chat == Event("ai_reply", FALSE, "none")

\* The engine writes a reply with the flag, then the milestone, then the
\* replies of the wrap-up without the flag.
Goal(goal) ==
  <<Event("ai_reply", TRUE, goal), Event("goal_achieved", FALSE, goal), Chat>>
OldName == <<Chat, Event("bot_speech", TRUE, "do_not_call")>>
ToldNotToCall == <<Chat, Event("do_not_call_marked", FALSE, "none")>>

Plain(cause, transcript) ==
  [cause |-> cause, transcript |-> transcript, missing |-> "nothing", valid |-> TRUE]

Unreachable == Plain("no_answer", <<>>)
Undecided == Plain("user_hangup", OldName)
Sold == Plain("normal_clearing", Goal("appointment"))
DoNotCall == Plain("normal_clearing", Goal("do_not_call"))
\* An earlier do-not-call goal is hidden by a later one.
Persuaded == Plain("network_out_of_order", Goal("do_not_call") \o Goal("appointment"))
HandedOver == Plain("marked_for_handoff", <<Chat>>)
Marked == Plain("temporary_failure", ToldNotToCall)
Orphan == [Plain("user_hangup", <<Chat>>) EXCEPT !.missing = "lead"]
Invalid == [Plain("user_hangup", <<Chat>>) EXCEPT !.valid = FALSE]

AllEndings ==
  {Unreachable, Undecided, Sold, DoNotCall, Persuaded, HandedOver, Marked,
   Orphan, Invalid}
FewEndings == {Unreachable, Undecided, Sold, Invalid}
DoNotCallEndings == {Unreachable, DoNotCall}

OnAchieved ==
  [goal_achieved : {TRUE}, goal_type : {"appointment", "do_not_call"}]

Symmetry ==
  Permutations({c1, c2, c3, c4}) \cup Permutations({w1, w2})
    \cup Permutations({l1, l2})
=============================================================================
