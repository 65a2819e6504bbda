------------------------------ MODULE MCReadiness ------------------------------
(* Model values for checking Readiness with TLC. *)
EXTENDS Readiness, TLC

CONSTANTS u1, r1, c1, p1, p2

OneUser      == {u1}
NoUsers      == {}
OneClient    == {c1}
ClientAdmin  == {c1, r1}
TwoPasswords == {p1, p2}
StopOnly     == {"stop"}
=============================================================================
