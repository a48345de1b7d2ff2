---------------------------- MODULE MCSampleTimers ----------------------------
(* TLC instances of SampleTimers: model values, and an int of three bits.   *)
EXTENDS SampleTimers, TLC

CONSTANTS r1, i1, i2

OneResource == {r1}
TwoRefs == {i1, i2}
\* -2 is refused, 6 becomes -2 and is refused, 8 becomes 0.
WideDelays == {-2, 6, 8}
OnceOrForEver == {0, 1}
RefSymmetry == Permutations({i1, i2})
=============================================================================
