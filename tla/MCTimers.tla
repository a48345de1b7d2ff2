------------------------------- MODULE MCTimers -------------------------------
(* TLC instances of Timers: sets of model values and the arguments of the   *)
(* posting functions, a negative and a zero one among them.                 *)
EXTENDS Timers, TLC

CONSTANT r1

OneResource == {r1}
SomeDelays == {-1, 2}
AllRepeats == {-1, 0, 1, 2}
=============================================================================
