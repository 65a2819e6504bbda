--------------------------- MODULE ProvisionProofs ---------------------------
(***************************************************************************)
(* Machine-checked proofs about Provision, for every value of its          *)
(* constants: any number of runs, manifests of any length, with an email   *)
(* as often as it likes, and any console edits of other accounts.          *)
(***************************************************************************)
EXTENDS Provision, TLAPS

Labels == {"idle", "actor", "user", "configure", "done"}

(* What TypeOK says, and that a configuration that is due has an entry. *)
Types ==
  /\ created \in Seq(Emails)
  /\ \A i, j \in DOMAIN created : created[i] = created[j] => i = j
  /\ account \in [Emails -> Account]
  /\ configuration \in [Emails -> Contents \cup {NoContent}]
  /\ pc \in [Runs -> Labels]
  /\ actor \in [Runs -> Emails \cup {Nobody}]
  /\ at \in [Runs -> Nat]
  /\ \A r \in Runs : /\ at[r] \in 1..(Len(Manifest[r]) + 1)
                     /\ pc[r] = "configure" => at[r] <= Len(Manifest[r])
  /\ failures \in 0..MaxFailures /\ alone \subseteq Runs

(* Why the root account is safe: it is the oldest, so as long as it is an  *)
(* enabled administrator every run acts for it and keeps it one.           *)
Recovery ==
  /\ created # <<>> /\ created[1] = Bootstrapped
  /\ account[Bootstrapped].role = "admin" /\ ~account[Bootstrapped].disabled
  /\ \A r \in Runs : pc[r] \in {"user", "configure"} => actor[r] = Bootstrapped

(* The accounts, and the configurations, are as the last of the first n    *)
(* entries for each email says.                                            *)
Rows(r, n) ==
  \A i \in 1..n : LastFor(r, i, n) =>
    /\ Manifest[r][i].email \in Existing
    /\ account[Manifest[r][i].email] = RowFor(r, Manifest[r][i])

Documents(r, n) ==
  \A i \in 1..n : LastFor(r, i, n) =>
    configuration[Manifest[r][i].email] = Manifest[r][i].content

(* The first entries a run has dealt with: of the one at hand the account  *)
(* is written first.                                                       *)
Written(r) == IF pc[r] = "configure" THEN at[r] ELSE at[r] - 1

Progress ==
  /\ \A r \in alone, s \in Active : s = r
  /\ \A r \in alone : pc[r] \in {"user", "configure", "done"} =>
       Rows(r, Written(r)) /\ Documents(r, at[r] - 1)
  /\ \A r \in Runs : /\ pc[r] = "actor" => at[r] = 1
                     /\ pc[r] = "done"  => at[r] = Len(Manifest[r]) + 1

Inv == Types /\ Recovery /\ Progress

(* The oldest account stays the oldest when another one is created. *)
LEMMA Appended ==
  ASSUME created \in Seq(Emails), NEW e \in Emails, e \notin Existing,
         \A i, j \in DOMAIN created : created[i] = created[j] => i = j,
         created' = Append(created, e)
  PROVE  /\ created' \in Seq(Emails) /\ created' # <<>>
         /\ \A i, j \in DOMAIN created' : created'[i] = created'[j] => i = j
         /\ created # <<>> => created'[1] = created[1]
         /\ Existing' = Existing \cup {e}
<1>1. /\ Len(created') = Len(created) + 1 /\ created' \in Seq(Emails)
      /\ \A i \in 1..Len(created) : created'[i] = created[i]
      /\ created'[Len(created) + 1] = e
  OBVIOUS
<1>2. DOMAIN created = 1..Len(created) /\ DOMAIN created' = 1..(Len(created) + 1)
  BY <1>1
<1>3. \A i \in 1..Len(created) : created[i] # e
  BY <1>2 DEF Existing, ToSet
<1>4. \A i, j \in DOMAIN created' : created'[i] = created'[j] => i = j
  BY <1>1, <1>2, <1>3
<1>5. Existing' = Existing \cup {e}
  BY <1>1, <1>2 DEF Existing, ToSet
<1> QED BY <1>1, <1>2, <1>4, <1>5

LEMMA EntryTypes ==
  ASSUME NEW r \in Runs, NEW i \in 1..Len(Manifest[r])
  PROVE  Manifest[r][i] \in Entry
<1>1. Manifest[r] \in Seq(Entry)
  BY ProvisionAssumption
<1> QED BY <1>1

LEMMA RowTypes ==
  ASSUME NEW r \in Runs, NEW e \in Entry
  PROVE  /\ RowFor(r, e) \in Account
         /\ e.email = actor[r] =>
              RowFor(r, e).role = "admin" /\ ~RowFor(r, e).disabled
BY DEF RowFor, Entry, Account, Roles

LEMMA InitInv == Init => Inv
<1> SUFFICES ASSUME Init PROVE Inv
  OBVIOUS
<1>1. Types
  <2>1. \A r \in Runs : Len(Manifest[r]) \in Nat
    BY ProvisionAssumption
  <2>2. /\ created \in Seq(Emails)
        /\ \A i, j \in DOMAIN created : created[i] = created[j] => i = j
    BY ProvisionAssumption DEF Init
  <2>3. account \in [Emails -> Account]
    BY ProvisionAssumption DEF Init, Account, Roles
  <2>4. /\ at \in [Runs -> Nat]
        /\ \A r \in Runs : at[r] \in 1..(Len(Manifest[r]) + 1) /\ pc[r] # "configure"
    BY <2>1 DEF Init
  <2>5. failures \in 0..MaxFailures /\ alone \subseteq Runs
    BY ProvisionAssumption DEF Init
  <2> QED BY <2>2, <2>3, <2>4, <2>5 DEF Init, Types, Labels
<1>2. Recovery
  BY ProvisionAssumption DEF Init, Recovery
<1>3. Progress
  BY DEF Init, Progress
<1> QED BY <1>1, <1>2, <1>3 DEF Inv

LEMMA TypesInductive == Inv /\ [Next]_vars => Types'
<1> SUFFICES ASSUME Inv, [Next]_vars PROVE Types'
  OBVIOUS
<1> USE DEF tables, Goto
<1>m. \A r \in Runs : Len(Manifest[r]) \in Nat
  BY ProvisionAssumption
<1>1. ASSUME NEW r \in Runs, Begin(r) PROVE Types'
  BY <1>1, <1>m DEF Begin, Inv, Types, Labels
<1>2. ASSUME NEW r \in Runs, FindActor(r) PROVE Types'
  <2>1. actor' \in [Runs -> Emails \cup {Nobody}]
    <3>1. \A i \in DOMAIN created : created[i] \in Emails
      BY DEF Inv, Types
    <3> QED BY <1>2, <3>1 DEF FindActor, Inv, Types
  <2>2. \E l \in {"idle", "user"} : pc' = [pc EXCEPT ![r] = l]
    BY <1>2 DEF FindActor
  <2> QED BY <1>2, <2>1, <2>2 DEF FindActor, Inv, Types, Labels
<1>3. ASSUME NEW r \in Runs, ProvisionUser(r) PROVE Types'
  <2> DEFINE e == Manifest[r][at[r]]
  <2>1. at[r] \in 1..Len(Manifest[r]) /\ e \in Entry /\ e.email \in Emails
    <3>1. at[r] \in 1..Len(Manifest[r])
      BY <1>3, <1>m DEF ProvisionUser, Inv, Types
    <3> QED BY <3>1, EntryTypes DEF Entry
  <2>2. RowFor(r, e) \in Account
    BY <2>1, RowTypes
  <2> HIDE DEF e
  <2>3. account' \in [Emails -> Account]
    BY <1>3, <2>1, <2>2 DEF ProvisionUser, Inv, Types, e
  <2>4. /\ created' \in Seq(Emails)
        /\ \A i, j \in DOMAIN created' : created'[i] = created'[j] => i = j
    <3>1. created' = created \/ (e.email \notin Existing /\ created' = Append(created, e.email))
      BY <1>3 DEF ProvisionUser, e
    <3> QED BY <2>1, <3>1, Appended DEF Inv, Types
  <2>5. \E l \in {"idle", "configure"} : pc' = [pc EXCEPT ![r] = l]
    BY <1>3 DEF ProvisionUser
  <2> QED BY <1>3, <2>1, <2>3, <2>4, <2>5 DEF ProvisionUser, Inv, Types, Labels
<1>4. ASSUME NEW r \in Runs, Configure(r) PROVE Types'
  <2>1. at[r] \in 1..Len(Manifest[r])
    BY <1>4, <1>m DEF Configure, Inv, Types
  <2>2. Manifest[r][at[r]].content \in Contents
    BY <2>1, EntryTypes DEF Entry
  <2>3. configuration' \in [Emails -> Contents \cup {NoContent}]
    BY <1>4, <2>2 DEF Configure, Inv, Types
  <2> QED BY <1>4, <1>m, <2>1, <2>3 DEF Configure, Inv, Types, Labels
<1>5. ASSUME NEW r \in Runs, Finish(r) PROVE Types'
  BY <1>5 DEF Finish, Inv, Types, Labels
<1>6. ASSUME NEW r \in Runs, CutOff(r) PROVE Types'
  BY <1>6, ProvisionAssumption DEF CutOff, Fault, Inv, Types, Labels
<1>7. ASSUME NEW e \in Emails, UpdateUser(e) PROVE Types'
  <2>1. account' \in [Emails -> Account]
    BY <1>7 DEF UpdateUser, Inv, Types, Account
  <2> QED BY <1>7, <2>1 DEF UpdateUser, Inv, Types
<1>8. CASE UNCHANGED vars
  BY <1>8 DEF vars, Inv, Types
<1> QED BY <1>1, <1>2, <1>3, <1>4, <1>5, <1>6, <1>7, <1>8 DEF Next, Proceed

LEMMA RecoveryInductive == Inv /\ [Next]_vars => Recovery'
<1> SUFFICES ASSUME Inv, [Next]_vars PROVE Recovery'
  OBVIOUS
<1> USE DEF tables, Goto
<1>b. Bootstrapped \in Emails /\ account \in [Emails -> Account]
  BY ProvisionAssumption DEF Inv, Types
<1>1. ASSUME NEW r \in Runs, Begin(r) PROVE Recovery'
  BY <1>1 DEF Begin, Inv, Types, Recovery
(* The oldest account is an enabled administrator: the loop stops at once. *)
<1>2. ASSUME NEW r \in Runs, FindActor(r) PROVE Recovery'
  <2>1. 1 \in DOMAIN created
    BY DEF Inv, Types, Recovery
  <2>2. IsAdmin(created[1])
    BY <2>1 DEF Inv, Recovery, IsAdmin, Existing, ToSet
  <2>3. created[1] \in Existing
    BY <2>1 DEF Existing, ToSet
  <2>4. actor' = [actor EXCEPT ![r] = Bootstrapped]
    <3>1. PICK i \in DOMAIN created :
            /\ \A j \in DOMAIN created : j < i => ~IsAdmin(created[j])
            /\ actor' = [actor EXCEPT ![r] = created[i]]
      BY <1>2, <2>2, <2>3 DEF FindActor
    <3>2. i = 1
      <4>1. i \in 1..Len(created)
        BY DEF Inv, Types
      <4>2. ~(1 < i)
        BY <3>1, <2>1, <2>2
      <4> QED BY <4>1, <4>2 DEF Inv, Types
    <3> QED BY <3>1, <3>2 DEF Inv, Recovery
  <2> QED BY <1>2, <2>4 DEF FindActor, Inv, Types, Recovery
<1>3. ASSUME NEW r \in Runs, ProvisionUser(r) PROVE Recovery'
  <2> DEFINE e == Manifest[r][at[r]]
  <2>1. e \in Entry /\ e.email \in Emails
    <3>1. Len(Manifest[r]) \in Nat
      BY ProvisionAssumption
    <3>2. at[r] \in 1..Len(Manifest[r])
      BY <1>3, <3>1 DEF ProvisionUser, Inv, Types
    <3> QED BY <3>2, EntryTypes DEF Entry
  <2>2. actor[r] = Bootstrapped
    BY <1>3 DEF ProvisionUser, Inv, Recovery
  <2>3. /\ e.email = Bootstrapped =>
              RowFor(r, e).role = "admin" /\ ~RowFor(r, e).disabled
    BY <2>1, <2>2, RowTypes
  <2> HIDE DEF e
  <2>4. account'[Bootstrapped].role = "admin" /\ ~account'[Bootstrapped].disabled
    BY <1>3, <1>b, <2>1, <2>3 DEF ProvisionUser, Inv, Recovery, e
  <2>5. created' # <<>> /\ created'[1] = Bootstrapped
    <3>1. created' = created \/ (e.email \notin Existing /\ created' = Append(created, e.email))
      BY <1>3 DEF ProvisionUser, e
    <3> QED BY <2>1, <3>1, Appended DEF Inv, Types, Recovery
  <2>6. \A s \in Runs : pc'[s] \in {"user", "configure"} => actor'[s] = Bootstrapped
    BY <1>3, <2>2 DEF ProvisionUser, Inv, Types, Recovery
  <2> QED BY <2>4, <2>5, <2>6 DEF Recovery
<1>4. ASSUME NEW r \in Runs, Configure(r) PROVE Recovery'
  BY <1>4 DEF Configure, Inv, Types, Recovery
<1>5. ASSUME NEW r \in Runs, Finish(r) PROVE Recovery'
  BY <1>5 DEF Finish, Inv, Types, Recovery
<1>6. ASSUME NEW r \in Runs, CutOff(r) PROVE Recovery'
  BY <1>6 DEF CutOff, Inv, Types, Recovery
<1>7. ASSUME NEW e \in Emails, UpdateUser(e) PROVE Recovery'
  <2>1. e # Bootstrapped
    BY <1>7, ProvisionAssumption DEF UpdateUser
  <2>2. account'[Bootstrapped] = account[Bootstrapped]
    BY <1>7, <1>b, <2>1 DEF UpdateUser
  <2> QED BY <1>7, <2>2 DEF UpdateUser, Inv, Recovery
<1>8. CASE UNCHANGED vars
  BY <1>8 DEF vars, Inv, Recovery
<1> QED BY <1>1, <1>2, <1>3, <1>4, <1>5, <1>6, <1>7, <1>8 DEF Next, Proceed

(* Writing the account of the n-th entry, for one that is alone. *)
LEMMA RowsStep ==
  ASSUME NEW r \in Runs, NEW n \in 1..Len(Manifest[r]), Rows(r, n - 1),
         account \in [Emails -> Account], actor' = actor,
         Existing' = Existing \cup {Manifest[r][n].email},
         account' = [account EXCEPT ![Manifest[r][n].email] = RowFor(r, Manifest[r][n])]
  PROVE  Rows(r, n)'
<1>0. Len(Manifest[r]) \in Nat
  BY ProvisionAssumption
<1> SUFFICES ASSUME NEW i \in 1..n, LastFor(r, i, n)
             PROVE  /\ Manifest[r][i].email \in Existing'
                    /\ account'[Manifest[r][i].email] = RowFor(r, Manifest[r][i])'
  BY DEF Rows, LastFor
<1>1. \A j \in 1..Len(Manifest[r]) : Manifest[r][j].email \in Emails
  BY EntryTypes DEF Entry
<1>2. RowFor(r, Manifest[r][i])' = RowFor(r, Manifest[r][i])
  BY DEF RowFor
<1>3. CASE i = n
  BY <1>1, <1>2, <1>3
<1>4. CASE i # n
  <2>1. i \in 1..(n - 1) /\ i \in 1..Len(Manifest[r])
    BY <1>0, <1>4
  <2>2. LastFor(r, i, n - 1)
    BY <1>0, <2>1 DEF LastFor
  <2>3. Manifest[r][n].email # Manifest[r][i].email
    BY <1>0, <2>1 DEF LastFor
  <2>4. /\ Manifest[r][i].email \in Existing
        /\ account[Manifest[r][i].email] = RowFor(r, Manifest[r][i])
    BY <2>1, <2>2 DEF Rows
  <2> QED BY <1>1, <1>2, <2>1, <2>3, <2>4
<1> QED BY <1>3, <1>4

(* Writing the configuration of the n-th entry. *)
LEMMA DocumentsStep ==
  ASSUME NEW r \in Runs, NEW n \in 1..Len(Manifest[r]), Documents(r, n - 1),
         configuration \in [Emails -> Contents \cup {NoContent}],
         configuration' = [configuration EXCEPT ![Manifest[r][n].email] =
                                                  Manifest[r][n].content]
  PROVE  Documents(r, n)'
<1>0. Len(Manifest[r]) \in Nat
  BY ProvisionAssumption
<1> SUFFICES ASSUME NEW i \in 1..n, LastFor(r, i, n)
             PROVE  configuration'[Manifest[r][i].email] = Manifest[r][i].content
  BY DEF Documents, LastFor
<1>1. \A j \in 1..Len(Manifest[r]) : Manifest[r][j].email \in Emails
  BY EntryTypes DEF Entry
<1>2. CASE i = n
  BY <1>1, <1>2
<1>3. CASE i # n
  <2>1. i \in 1..(n - 1) /\ i \in 1..Len(Manifest[r])
    BY <1>0, <1>3
  <2>2. LastFor(r, i, n - 1)
    BY <1>0, <2>1 DEF LastFor
  <2>3. Manifest[r][n].email # Manifest[r][i].email
    BY <1>0, <2>1 DEF LastFor
  <2>4. configuration[Manifest[r][i].email] = Manifest[r][i].content
    BY <2>1, <2>2 DEF Documents
  <2> QED BY <1>1, <2>1, <2>3, <2>4
<1> QED BY <1>2, <1>3

LEMMA ProgressInductive == Inv /\ [Next]_vars => Progress'
<1> SUFFICES ASSUME Inv, [Next]_vars PROVE Progress'
  OBVIOUS
<1> USE DEF tables, Goto
<1>t. /\ pc \in [Runs -> Labels] /\ actor \in [Runs -> Emails \cup {Nobody}]
      /\ at \in [Runs -> Nat] /\ alone \subseteq Runs
      /\ account \in [Emails -> Account]
      /\ configuration \in [Emails -> Contents \cup {NoContent}]
      /\ \A r \in Runs : at[r] \in 1..(Len(Manifest[r]) + 1)
      /\ \A r \in Runs : pc[r] = "configure" => at[r] <= Len(Manifest[r])
  BY DEF Inv, Types
<1>m. \A r \in Runs : Len(Manifest[r]) \in Nat
  BY ProvisionAssumption
<1>p. \A r \in alone : pc[r] \in {"user", "configure", "done"} =>
        Rows(r, Written(r)) /\ Documents(r, at[r] - 1)
  BY DEF Inv, Progress
(* A step of r, which is the run that is alone if one is: it suffices to   *)
(* look at what r has written by then. *)
<1>s. ASSUME NEW r \in Runs, r \in Active, NEW l \in Labels, Goto(r, l), alone' = alone,
             NEW a \in Nat, at' = [at EXCEPT ![r] = a], l # "actor",
             l = "done" => a = Len(Manifest[r]) + 1,
             l \in {"user", "configure", "done"} /\ r \in alone =>
               Rows(r, Written(r))' /\ Documents(r, a - 1)'
      PROVE  Progress'
  <2>1. \A s \in alone' : s = r
    BY <1>s DEF Inv, Progress
  <2>2. pc'[r] = l /\ at'[r] = a /\ \A s \in Runs : s # r => pc'[s] = pc[s] /\ at'[s] = at[s]
    BY <1>s, <1>t
  <2>3. \A s \in alone' : pc'[s] \in {"user", "configure", "done"} =>
          Rows(s, Written(s))' /\ Documents(s, at[s] - 1)'
    <3>1. Documents(r, a - 1)' => Documents(r, at[r] - 1)'
      BY <2>2 DEF Documents
    <3> QED BY <1>s, <2>1, <2>2, <3>1
  <2>4. \A s \in Runs : /\ pc'[s] = "actor" => at'[s] = 1
                        /\ pc'[s] = "done"  => at'[s] = Len(Manifest[s]) + 1
    BY <1>s, <2>2 DEF Inv, Progress
  <2>5. \A s \in alone', u \in Active' : u = s
    BY <1>s, <2>1, <2>2 DEF Inv, Progress, Active
  <2> QED BY <2>3, <2>4, <2>5 DEF Progress
(* What has been written is left alone. *)
<1>k. ASSUME NEW r \in Runs, NEW n, UNCHANGED <<tables, actor>>
      PROVE  (Rows(r, n) => Rows(r, n)') /\ (Documents(r, n) => Documents(r, n)')
  BY <1>k DEF Rows, Documents, Existing, RowFor, LastFor
<1>1. ASSUME NEW r \in Runs, Begin(r) PROVE Progress'
  <2>1. pc' = [pc EXCEPT ![r] = "actor"] /\ at' = [at EXCEPT ![r] = 1]
    BY <1>1 DEF Begin
  <2>2. \A s \in Runs : /\ pc'[s] = "actor" => at'[s] = 1
                        /\ pc'[s] = "done"  => at'[s] = Len(Manifest[s]) + 1
    BY <1>t, <2>1 DEF Inv, Progress
  <2>3. \A s \in alone' : s = r /\ Active = {}
    BY <1>1 DEF Begin
  <2>4. \A s \in alone', u \in Active' : u = s
    BY <1>t, <2>1, <2>3 DEF Active
  <2> QED BY <1>t, <2>1, <2>2, <2>3, <2>4 DEF Progress
<1>2. ASSUME NEW r \in Runs, FindActor(r) PROVE Progress'
  <2>1. pc[r] = "actor" /\ at[r] = 1 /\ at' = [at EXCEPT ![r] = 1] /\ alone' = alone
    BY <1>2, <1>t DEF FindActor, Inv, Progress
  <2>2. PICK l \in {"idle", "user"} : pc' = [pc EXCEPT ![r] = l]
    BY <1>2 DEF FindActor
  <2>3. l = "user" => Rows(r, Written(r))' /\ Documents(r, 1 - 1)'
    <3>1. l = "user" => Written(r)' = 0
      BY <1>t, <2>1, <2>2 DEF Written
    <3> QED BY <3>1 DEF Rows, Documents
  <2> QED BY <1>s, <2>1, <2>2, <2>3 DEF Active, Labels
<1>3. ASSUME NEW r \in Runs, ProvisionUser(r) PROVE Progress'
  <2>1. /\ pc[r] = "user" /\ at[r] \in 1..Len(Manifest[r]) /\ at[r] \in Nat
        /\ at' = [at EXCEPT ![r] = at[r]]
        /\ UNCHANGED <<configuration, actor, at, alone>>
    BY <1>3, <1>t, <1>m DEF ProvisionUser
  <2>2. CASE Goto(r, "idle")
    BY <1>s, <2>1, <2>2 DEF Active, Labels
  <2>3. CASE pc' # [pc EXCEPT ![r] = "idle"]
    <3> DEFINE e == Manifest[r][at[r]]
    <3>1. /\ pc' = [pc EXCEPT ![r] = "configure"]
          /\ account' = [account EXCEPT ![e.email] = RowFor(r, e)]
          /\ created' = IF e.email \in Existing THEN created ELSE Append(created, e.email)
      BY <1>3, <2>3 DEF ProvisionUser
    <3>2. e.email \in Emails
      BY <2>1, EntryTypes DEF Entry
    <3>3. Existing' = Existing \cup {e.email}
      <4>1. CASE e.email \in Existing
        BY <3>1, <4>1 DEF Existing
      <4>2. CASE e.email \notin Existing
        BY <3>1, <3>2, <4>2, Appended DEF Inv, Types
      <4> QED BY <4>1, <4>2
    <3>4. ASSUME r \in alone
          PROVE  Rows(r, Written(r))' /\ Documents(r, at[r] - 1)'
      <4>1. Rows(r, at[r] - 1) /\ Documents(r, at[r] - 1)
        BY <1>p, <2>1, <3>4 DEF Written
      <4>2. PICK n \in 1..Len(Manifest[r]) : n = at[r]
        BY <2>1
      <4>3. Rows(r, n)'
        BY <1>t, <2>1, <3>1, <3>3, <4>1, <4>2, RowsStep
      <4>4. Written(r)' = n /\ at'[r] = n
        BY <1>t, <2>1, <3>1, <4>2 DEF Written
      <4>5. Documents(r, at[r] - 1)'
        BY <2>1, <4>1 DEF Documents, LastFor
      <4> QED BY <4>3, <4>4, <4>5 DEF Rows
    <3>5. r \in Active /\ "configure" \in Labels
      BY <2>1 DEF Active, Labels
    <3>6. PICK a \in Nat : a = at[r]
      BY <2>1
    <3>7. r \in alone => Rows(r, Written(r))' /\ Documents(r, a - 1)'
      BY <2>1, <3>4, <3>6 DEF Documents
    <3>8. at' = [at EXCEPT ![r] = a] /\ alone' = alone
      BY <2>1, <3>6
    <3>9. Goto(r, "configure")
      BY <3>1
    <3> HIDE DEF e
    <3> QED BY <1>s, <3>5, <3>7, <3>8, <3>9
  <2> QED BY <2>2, <2>3
<1>4. ASSUME NEW r \in Runs, Configure(r) PROVE Progress'
  <2>1. /\ pc[r] = "configure" /\ at[r] \in 1..Len(Manifest[r])
        /\ pc' = [pc EXCEPT ![r] = "user"] /\ at' = [at EXCEPT ![r] = at[r] + 1]
        /\ UNCHANGED <<created, account, actor, alone>>
        /\ configuration' = [configuration EXCEPT ![Manifest[r][at[r]].email] =
                                                    Manifest[r][at[r]].content]
    BY <1>4, <1>t, <1>m DEF Configure
  <2>2. PICK n \in 1..Len(Manifest[r]) : n = at[r]
    BY <2>1
  <2>3. n + 1 \in Nat /\ n + 1 - 1 = n
    BY <1>m
  <2>4. ASSUME r \in alone PROVE Rows(r, Written(r))' /\ Documents(r, n)'
    <3>1. Rows(r, n) /\ Documents(r, n - 1)
      BY <1>p, <2>1, <2>2, <2>4 DEF Written
    <3>2. Rows(r, n)'
      BY <2>1, <3>1 DEF Rows, Existing, RowFor, LastFor
    <3>3. Documents(r, n)'
      BY <1>t, <2>1, <2>2, <3>1, DocumentsStep
    <3>4. Written(r)' = n
      BY <1>t, <2>1, <2>2, <2>3 DEF Written
    <3> QED BY <3>2, <3>3, <3>4 DEF Rows
  <2>5. r \in Active /\ "user" \in Labels
    BY <2>1 DEF Active, Labels
  <2>6. PICK a \in Nat : a = n + 1 /\ a - 1 = n
    BY <2>3
  <2>7. r \in alone => Rows(r, Written(r))' /\ Documents(r, a - 1)'
    BY <2>4, <2>6
  <2>8. at' = [at EXCEPT ![r] = a] /\ alone' = alone
    BY <2>1, <2>2, <2>6
  <2> QED BY <1>s, <2>1, <2>5, <2>7, <2>8
<1>5. ASSUME NEW r \in Runs, Finish(r) PROVE Progress'
  <2>1. /\ pc[r] = "user" /\ at[r] = Len(Manifest[r]) + 1
        /\ pc' = [pc EXCEPT ![r] = "done"] /\ at' = [at EXCEPT ![r] = at[r]]
        /\ UNCHANGED <<tables, actor, at, alone>>
    BY <1>5, <1>t, <1>m DEF Finish
  <2>2. PICK a \in Nat : a = at[r]
    BY <1>t
  <2>3. r \in alone => Rows(r, Written(r))' /\ Documents(r, a - 1)'
    <3>1. r \in alone => Rows(r, a - 1) /\ Documents(r, a - 1)
      BY <1>p, <2>1, <2>2 DEF Written
    <3>2. r \in alone => Rows(r, a - 1)' /\ Documents(r, a - 1)'
      BY <1>k, <2>1, <3>1
    <3>3. Written(r)' = a - 1
      BY <1>t, <2>1, <2>2 DEF Written
    <3> QED BY <3>2, <3>3 DEF Rows
  <2> QED BY <1>s, <2>1, <2>2, <2>3 DEF Active, Labels
<1>6. ASSUME NEW r \in Runs, CutOff(r) PROVE Progress'
  <2>1. r \in Active /\ Goto(r, "idle") /\ alone' = alone /\ at' = [at EXCEPT ![r] = at[r]]
    BY <1>6, <1>t DEF CutOff
  <2>2. at[r] \in Nat
    BY <1>t
  <2> QED BY <1>s, <2>1, <2>2 DEF Labels
<1>7. ASSUME NEW e \in Emails, UpdateUser(e) PROVE Progress'
  BY <1>7 DEF UpdateUser, Inv, Progress
<1>8. CASE UNCHANGED vars
  <2>1. \A r \in Runs : /\ Rows(r, Written(r)) => Rows(r, Written(r))'
                        /\ Documents(r, at[r] - 1) => Documents(r, at[r] - 1)'
    BY <1>8 DEF vars, Rows, Documents, Written, Existing, RowFor, LastFor
  <2> QED BY <1>8, <1>t, <2>1 DEF vars, Inv, Progress, Active
<1> QED BY <1>1, <1>2, <1>3, <1>4, <1>5, <1>6, <1>7, <1>8 DEF Next, Proceed

LEMMA InvAlways == Spec => []Inv
<1>1. Inv /\ [Next]_vars => Inv'
  BY TypesInductive, RecoveryInductive, ProgressInductive DEF Inv
<1> QED BY <1>1, InitInv, PTL DEF Spec

(* No account is created twice, no entry is skipped over, and every row    *)
(* keeps its type.                                                         *)
THEOREM ProvisionTypeCorrect == Spec => []TypeOK
<1>1. Inv => TypeOK
  BY DEF Inv, Types, TypeOK, IsInjective, Labels
<1> QED BY <1>1, InvAlways, PTL

(* Whatever manifests say of the bootstrapped account and whichever        *)
(* administrators they make, it stays an enabled administrator: the oldest *)
(* enabled administrator is always that one, and a run spares its actor.   *)
THEOREM RootAccountRemains == Spec => []RecoveryAdminRemains
<1>1. Inv => RecoveryAdminRemains
  <2> SUFFICES ASSUME Inv PROVE RecoveryAdminRemains
    OBVIOUS
  <2>1. Bootstrapped \in Existing
    BY DEF Inv, Types, Recovery, Existing, ToSet
  <2> QED BY <2>1 DEF Inv, Recovery, RecoveryAdminRemains, IsAdmin
<1> QED BY <1>1, InvAlways, PTL

(* A run that nothing else overlapped and that ends well has applied its   *)
(* manifest, of whatever length and after whatever earlier failures.       *)
THEOREM ManifestApplied == Spec => []DoneMeansApplied
<1>1. Inv => DoneMeansApplied
  <2> SUFFICES ASSUME Inv, NEW r \in alone, pc[r] = "done" PROVE Applied(r)
    BY DEF DoneMeansApplied
  <2>1. Len(Manifest[r]) \in Nat /\ DOMAIN Manifest[r] = 1..Len(Manifest[r])
    BY ProvisionAssumption DEF Inv, Types
  <2>2. Written(r) = Len(Manifest[r]) /\ at[r] - 1 = Len(Manifest[r])
    BY <2>1 DEF Inv, Types, Progress, Written
  <2>3. Rows(r, Len(Manifest[r])) /\ Documents(r, Len(Manifest[r]))
    BY <2>2 DEF Inv, Progress
  <2> QED BY <2>1, <2>3 DEF Rows, Documents, Applied
<1> QED BY <1>1, InvAlways, PTL
=============================================================================
