--------------------------------- MODULE Clock ---------------------------------
(***************************************************************************)
(* The time that the worker's jobs read (datetime.now), in whole units.    *)
(***************************************************************************)
EXTENDS Integers

CONSTANTS
  MaxTime,  \* bound on the clock
  Asleep    \* what a job that has not looked at the clock has for a time

ASSUME ClockAssumption == MaxTime \in Nat /\ Asleep \notin Int

VARIABLE now

TimePasses == now < MaxTime /\ now' = now + 1
=============================================================================
