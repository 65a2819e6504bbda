------------------------------ MODULE MCAccounts ------------------------------
(* Model values for checking Accounts with TLC. *)
EXTENDS Accounts, TLC

CONSTANTS i1, i2, e1, s1, t1, t2

TwoIds       == {i1, i2}
OneEmail     == {e1}
OneSubject   == {s1}
TwoThreads   == {t1, t2}
All          == WithForm \cup {"setup", "login", "oidc", "provision"}

(* One goroutine for everything; a second setup form or admin form next to it. *)
Overlapping == t1 :> All @@ t2 :> {"setup", "update"}

Forms   == {"setup", "login", "update", "create", "password"}
Console == [t \in TwoThreads |-> Forms]

Stored(l) == [enabled |-> TRUE, linkByEmail |-> l, autoProvision |-> TRUE]
Changing  == {NoSettings, Stored(TRUE), Stored(FALSE)}
=============================================================================

