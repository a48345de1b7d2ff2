----------------------------- MODULE MCResources -----------------------------
(* TLC instances of Resources: two stores and two watchers, two resources.  *)
EXTENDS Resources, TLC

CONSTANTS r1, r2, s1, s2, w1, w2

TwoResources == {r1, r2}
TwoStores == {s1, s2}
TwoWatchers == {w1, w2}
Symmetry == Permutations({r1, r2}) \cup Permutations({s1, s2}) \cup Permutations({w1, w2})
=============================================================================
