---------------------------- MODULE MCController ----------------------------
(* Model values and symmetry for checking Controller with TLC. *)
EXTENDS Refinement, TLC

CONSTANTS u1, u2, r1, r2, p1, p2

OneUser      == {u1}
TwoUsers     == {u1, u2}
SecondUser   == {u2}
NoUsers      == {}
OneRequest   == {r1}
TwoRequests  == {r1, r2}
TwoPasswords == {p1, p2}
AllOps       == AdminOps
RestartPurge == {"restart", "purge"}

(* Sound for the safety run only: no request is named in its properties. *)
RequestSymmetry == Permutations(TwoRequests)
=============================================================================
