------------------------------ MODULE MCDispatch ------------------------------
(* TLC instances of Dispatch.                                               *)
EXTENDS Dispatch
=============================================================================
