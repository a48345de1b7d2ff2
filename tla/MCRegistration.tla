---------------------------- MODULE MCRegistration ----------------------------
(* TLC instances of Registration: two files with two macros each.            *)
EXTENDS Registration

TwoUnits == {"a", "b"}
FourNames == {"n1", "n2", "n3", "n4"}
Of(name, type) == [name |-> name, type |-> type]

\* Lambdas only, as in every function of this repository.
Lambdas ==
  [u \in TwoUnits |->
     IF u = "a" THEN <<Of("n1", "closure1"), Of("n2", "closure2")>>
     ELSE <<Of("n3", "closure3"), Of("n4", "closure4")>>]

\* The first macro of each file registers a plain function, both of one type.
Pointers ==
  [u \in TwoUnits |->
     IF u = "a" THEN <<Of("n1", "pointer"), Of("n2", "closure2")>>
     ELSE <<Of("n3", "pointer"), Of("n4", "closure4")>>]

Types == {"pointer", "closure1", "closure2", "closure3", "closure4"}
=============================================================================
