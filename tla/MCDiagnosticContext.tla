------------------------- MODULE MCDiagnosticContext -------------------------
(* TLC instances of DiagnosticContext: the sets are model values.           *)
EXTENDS DiagnosticContext

CONSTANTS r1, r2, body, typed, w1

TwoResources == {r1, r2}
OneBody == {body}
OneTyped == {typed}
OneWorker == {w1}
OneId == {7}
=============================================================================
