---------------------------- MODULE MCWorkerProcess ----------------------------
(***************************************************************************)
(* Two processes, one call whose task is pushed twice, one malformed       *)
(* message; the extract loop and one other loop.                           *)
(***************************************************************************)
EXTENDS WorkerProcess

CONSTANTS c1, m1, p1, p2

TwoLoops == {"callend", "extract"}
=============================================================================
