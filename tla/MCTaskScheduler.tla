--------------------------- MODULE MCTaskScheduler ---------------------------
(* TLC instances of TaskScheduler: sets of model values and the bounds.     *)
EXTENDS TaskScheduler, TLC

CONSTANTS r1, w1, w2

OneResource == {r1}
TwoWorkers == {w1, w2}
LimitsWithZero == {0, 2}
=============================================================================
