------------------------------ MODULE MCLimiter ------------------------------
(* An instance of Limiter: two keys, three concurrent submissions. *)
EXTENDS Limiter

CONSTANTS k1, k2, h1, h2, h3

TwoKeys       == {k1, k2}
ThreeHandlers == {h1, h2, h3}
=============================================================================
