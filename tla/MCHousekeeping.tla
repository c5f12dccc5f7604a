----------------------------- MODULE MCHousekeeping -----------------------------
(***************************************************************************)
(* Two processes.  At the first site two campaigns with a call each are    *)
(* rolled up; the second, as main.py has it, has one of the calls and a    *)
(* device; the third, which also runs the watchdog, has the device alone   *)
(* (the jobs share nothing but the clock).                                 *)
(***************************************************************************)
EXTENDS Housekeeping, TLC

CONSTANTS c1, c2, k1, k2, d1, p1, p2

OneEach == c1 :> k1 @@ c2 :> k2

ThreeSites ==
  {[jobs |-> {"metrics"}, calls |-> {c1, c2}, devices |-> {}],
   [jobs |-> {"metrics"}, calls |-> {c1}, devices |-> {d1}],
   [jobs |-> {"metrics", "watchdog"}, calls |-> {}, devices |-> {d1}]}
=============================================================================
