-------------------------- MODULE MCCallbackDispatch --------------------------
(***************************************************************************)
(* An instance of CallbackDispatch: whatever happens to three configs.     *)
(***************************************************************************)
EXTENDS CallbackDispatch

CONSTANTS k1, k2, k3

AllScenarios == [Configs -> Kinds]
=============================================================================
