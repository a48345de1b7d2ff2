------------------------------ MODULE MCCallbacks ------------------------------
(* TLC instances of Callbacks: sets of model values.                        *)
EXTENDS Callbacks, TLC

CONSTANTS r1, r2, i1, i2, c1, c2, c3

TwoResources == {r1, r2}
TwoRefs == {i1, i2}
ThreeCallbacks == {c1, c2, c3}
Symmetry == Permutations({r1, r2}) \cup Permutations({i1, i2}) \cup Permutations({c1, c2, c3})
=============================================================================
