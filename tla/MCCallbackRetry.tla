--------------------------- MODULE MCCallbackRetry ---------------------------
(***************************************************************************)
(* Instances of CallbackRetry: an exponential backoff shorter than the     *)
(* number of attempts, so that its last interval is used twice.            *)
(***************************************************************************)
EXTENDS CallbackRetry, TLC

CONSTANTS r1, r2, r3, w1, w2

Backoff == <<1, 2>>

Symmetry == Permutations({w1, w2})
=============================================================================
