----------------------------- MODULE MCActivity -----------------------------
(* An instance of Activity: two concurrent requests. *)
EXTENDS Activity

CONSTANTS r1, r2

TwoRequests == {r1, r2}
=============================================================================
