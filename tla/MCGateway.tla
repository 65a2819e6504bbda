------------------------------ MODULE MCGateway ------------------------------
(* Model values for checking Gateway, and the promise with it, with TLC. *)
EXTENDS Gateway, Refinement, TLC

CONSTANTS u1, r1, c1, p1, p2

OneUser      == {u1}
NoUsers      == {}
OneClient    == {c1}
ClientAdmin  == {c1, r1}
TwoPasswords == {p1, p2}
PurgeOnly    == {"purge"}
=============================================================================
