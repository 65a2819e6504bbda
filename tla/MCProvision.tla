----------------------------- MODULE MCProvision -----------------------------
(* An instance of Provision: a root account, two users, two manifests. *)
EXTENDS Provision, TLC

CONSTANTS root, e1, e2, c1, c2, r1, r2

ThreeEmails == {root, e1, e2}
TwoContents == {c1, c2}
ThreeNames  == {"root", "one", "two"}
TwoRuns     == {r1, r2}
Edits       == {e1, e2}

E(e, n, r, d, c) == [email |-> e, name |-> n, role |-> r, disabled |-> d, content |-> c]

(* The first raises e1 and disables root; the second lowers everybody, and *)
(* has e2 twice. *)
Demoting == r1 :> <<E(e1, "one", "admin", FALSE, c1), E(root, "root", "user", TRUE, c1)>>
         @@ r2 :> <<E(e2, "two", "admin", FALSE, c2), E(e1, "one", "user", FALSE, c2),
                    E(root, "root", "user", FALSE, c2), E(e2, "two", "user", TRUE, c1)>>
=============================================================================
