------------------------------ MODULE MCUserdata ------------------------------
(* TLC instances of Userdata: two types, VMs and objects, one of each name   *)
(* and method: a registrar that throws has registered nothing yet.           *)
EXTENDS Userdata, TLC

CONSTANTS t1, t2, n1, v1, v2, m1, o1, o2

TwoTypes == {t1, t2}
OneName == {n1}
TwoVMs == {v1, v2}
OneMethod == {m1}
TwoObjects == {o1, o2}
Symmetry ==
  Permutations(TwoTypes) \cup Permutations(TwoVMs) \cup Permutations(TwoObjects)
=============================================================================
