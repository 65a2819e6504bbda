-------------------------------- MODULE MCOIDC --------------------------------
(* An instance of OIDC: two people, two issuers, a browser with two tabs,   *)
(* an administrator and a manifest.                                         *)
EXTENDS OIDC, TLC

CONSTANTS ix, iy, s1, s2, p1, p2, t1, t2, b1, q1, q2, a1

OneAdmin   == {a1}
TwoIssuers == {ix, iy}
TwoSecrets == {s1, s2}
TwoPeople  == {p1, p2}
FirstPerson == {p1}
TwoTabs    == {t1, t2}
OneBrowser == t1 :> b1 @@ t2 :> b1

(* The first person was created at ix twice; her first subject there is the *)
(* second person's at iy.                                                  *)
Crossed == ix :> (p1 :> {q1, q2} @@ p2 :> {}) @@ iy :> (p1 :> {} @@ p2 :> {q1})

OwnNames == p1 :> "one" @@ p2 :> "two"
Secret   == ix :> s1 @@ iy :> s2

Enabled(i, s, l, j) == [enabled |-> TRUE, issuer |-> i, secret |-> s,
                        linkByEmail |-> l, autoProvision |-> j]

AtX   == {Enabled(ix, s1, TRUE, TRUE)}
AtY   == {Enabled(iy, s2, FALSE, TRUE)}

(* The secret field is left blank, by one who switches OIDC off as well. *)
BackX == {[Enabled(ix, NoSecret, TRUE, TRUE) EXCEPT !.enabled = e] : e \in BOOLEAN}

(* Sound: both tabs are the same browser's, and no tab is named. *)
TabSymmetry == Permutations(TwoTabs)
=============================================================================
