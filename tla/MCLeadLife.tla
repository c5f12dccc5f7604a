----------------------------- MODULE MCLeadLife -----------------------------
(***************************************************************************)
(* Two leads of one campaign; the retry limit exceeds the interval list,   *)
(* so that the clamp to its last entry happens.                            *)
(***************************************************************************)
EXTENDS LeadLife, TLC

CONSTANTS l1, l2

Intervals == <<5, 30>>
Symmetry == Permutations({l1, l2})
=============================================================================
