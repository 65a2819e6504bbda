--------------------------- MODULE AccountsProofs ---------------------------
(* Machine-checked proofs about Accounts, for every value of its constants. *)
EXTENDS Accounts, TLAPS

(* The types of what the bootstrap argument looks at. *)
Shape ==
  /\ account      \in [Ids -> Accounts]
  /\ lock         \in Threads \cup {NoThread}
  /\ pc           \in [Threads -> Labels]
  /\ op           \in [Threads -> {"login"} \cup WithForm]
  /\ me           \in [Threads -> Copies]
  /\ bootstrapped \in Nat

(* Labels a goroutine can reach while there is no account. *)
Before == {"new", "lock", "exists", "insert"}

(* The steps of BootstrapAdmin run under the lock, and an insert follows   *)
(* an empty table; everything else, a session, an OIDC configuration, a    *)
(* handler behind either, presupposes that setup has succeeded.            *)
Bootstrapping ==
  /\ bootstrapped \in {0, 1}
  /\ bootstrapped = 0 <=> Existing = {}
  /\ bootstrapped = 0 => signedIn = {} /\ ~settings.enabled
  /\ \A t \in Threads :
       /\ pc[t] \in {"exists", "insert"} => lock = t
       /\ pc[t] = "insert" => bootstrapped = 0
       /\ pc[t] \notin Before => bootstrapped = 1
       /\ pc[t] = "csrf" => op[t] \in WithForm

IInv == Shape /\ Bootstrapping

LEMMA CopyTypes ==
  ASSUME Shape
  PROVE  /\ Nobody \in Copies
         /\ \A i \in Ids : CopyOf(i) \in Copies
         /\ \A e \in Mails : [Nobody EXCEPT !.email = e] \in Copies
         /\ \A i \in Ids, e \in Mails, r \in Roles :
              [CopyOf(i) EXCEPT !.email = e, !.role = r] \in Copies
         /\ \A i \in Ids, e \in Mails, r \in Roles :
              [CopyOf(i) EXCEPT !.role = r, !.email = e] \in Copies
<1>1. AnyId \in Ids
  BY IdsAssumption DEF AnyId
<1>2. Nobody \in Copies
  BY <1>1 DEF Nobody, Copies, Mails, Roles
<1>3. \A i \in Ids : CopyOf(i) \in Copies
  BY DEF Shape, CopyOf, Copies, Accounts
<1> QED BY <1>2, <1>3 DEF Copies

(* A goroutine moves on: what it must meet at its next label. *)
LEMMA Moved ==
  ASSUME IInv, NEW t \in Threads, NEW label \in Labels,
         NEW o \in {"login"} \cup WithForm, NEW u \in Copies, Go(t, label, o, u)
  PROVE  /\ pc' \in [Threads -> Labels]
         /\ op' \in [Threads -> {"login"} \cup WithForm]
         /\ me' \in [Threads -> Copies]
         /\ pc'[t] = label /\ op'[t] = o
         /\ \A s \in Threads : s # t => pc'[s] = pc[s] /\ op'[s] = op[s]
BY DEF IInv, Shape, Go

(* The steps that leave accounts, the setup count and the lock alone.      *)
LEMMA Quiet ==
  ASSUME IInv, NEW t \in Threads, NEW label \in Labels \ {"exists", "insert"},
         NEW o \in {"login"} \cup WithForm, NEW u \in Copies, Go(t, label, o, u),
         account' = account, bootstrapped' = bootstrapped,
         lock' = lock \/ (lock = t /\ lock' = NoThread),
         label \notin Before => bootstrapped = 1, label = "csrf" => o \in WithForm,
         bootstrapped = 0 => signedIn' = {} /\ ~settings'.enabled
  PROVE  IInv'
<1>1. Shape'
  BY Moved, ThreadsAssumption DEF IInv, Shape
<1>2. (bootstrapped = 0 <=> Existing = {})'
  BY DEF IInv, Bootstrapping, Existing
<1>3. \A s \in Threads :
        /\ pc'[s] \in {"exists", "insert"} => lock' = s
        /\ pc'[s] = "insert" => bootstrapped' = 0
        /\ pc'[s] \notin Before => bootstrapped' = 1
        /\ pc'[s] = "csrf" => op'[s] \in WithForm
  BY Moved DEF IInv, Bootstrapping
<1> QED BY <1>1, <1>2, <1>3 DEF IInv, Bootstrapping

(* The steps that write accounts once setup is done. *)
LEMMA Later ==
  ASSUME IInv, bootstrapped = 1, bootstrapped' = bootstrapped, lock' = lock,
         account' \in [Ids -> Accounts],
         \A i \in Ids : account[i].exists => account'[i].exists,
         pc' \in [Threads -> Labels],
         op' \in [Threads -> {"login"} \cup WithForm],
         me' \in [Threads -> Copies],
         \A t \in Threads : pc'[t] \in {"exists", "insert", "csrf"} =>
                              pc'[t] = pc[t] /\ op'[t] = op[t]
  PROVE  IInv'
<1>1. Shape'
  BY DEF IInv, Shape
<1>2. Existing' # {}
  BY DEF IInv, Bootstrapping, Existing
<1> QED BY <1>1, <1>2 DEF IInv, Bootstrapping

LEMMA InsertedType ==
  ASSUME Shape, NEW i \in Ids, NEW e \in Mails, NEW r \in Roles,
         NEW p \in BOOLEAN, InsertUser(i, e, r, p)
  PROVE  /\ account' \in [Ids -> Accounts] /\ account'[i].exists
         /\ \A j \in Ids : account[j].exists => account'[j].exists
BY DEF Shape, InsertUser, Accounts

LEMMA UpdatedType ==
  ASSUME NEW a \in Accounts, NEW e \in Mails, NEW r \in Roles,
         NEW d \in BOOLEAN, NEW p \in BOOLEAN
  PROVE  /\ Updated(a, e, r, d, p) \in Accounts
         /\ Updated(a, e, r, d, p).exists = a.exists
BY DEF Updated, Accounts

LEMMA InitIInv == Init => IInv
<1> SUFFICES ASSUME Init PROVE IInv
  OBVIOUS
<1>1. Shape
  BY IdsAssumption DEF Init, Shape, Accounts, NoAccount, Mails, Roles, Labels,
                       Nobody, AnyId, Copies
<1>2. Existing = {}
  BY DEF Init, Existing, NoAccount
<1> QED BY <1>1, <1>2 DEF Init, IInv, Bootstrapping, Before, NoSettings

LEMMA NextIInv == IInv /\ [Next]_vars => IInv'
<1> SUFFICES ASSUME IInv, [Next]_vars PROVE IInv'
  OBVIOUS
<1> USE DEF tables, locals
<1>c. /\ Nobody \in Copies
      /\ \A t \in Threads : op[t] \in {"login"} \cup WithForm /\ me[t] \in Copies
      /\ \A i \in Ids : CopyOf(i) \in Copies
  BY CopyTypes DEF IInv, Shape
<1>l. Labels \ {"exists", "insert"} =
        {"new", "lock", "session", "csrf", "create", "update", "password",
         "rehash", "logout", "oidcUser", "link", "jit", "seed", "saveOIDC"}
  BY DEF Labels
<1>q. \A t \in Threads : pc[t] \notin Before => bootstrapped = 1
  BY DEF IInv, Bootstrapping
<1>s. bootstrapped = 0 => signedIn = {} /\ ~settings.enabled /\ Existing = {}
  BY DEF IInv, Bootstrapping
(* Respond, from a step that leaves the accounts alone. *)
<1>r. ASSUME NEW t \in Threads, Respond(t), account' = account,
             bootstrapped' = bootstrapped,
             lock' = lock \/ (lock = t /\ lock' = NoThread),
             bootstrapped = 0 => signedIn' = {} /\ ~settings'.enabled
      PROVE  IInv'
  BY <1>r, <1>c, <1>l, Quiet DEF Respond, Before
<1>1. ASSUME NEW t \in Threads, SetupPost(t) PROVE IInv'
  BY <1>1, <1>c, <1>l, <1>s, Quiet DEF SetupPost, Goto, Before
<1>2. ASSUME NEW t \in Threads, NEW i \in Ids, LoginPost(t, i) PROVE IInv'
  BY <1>2, <1>c, <1>l, <1>s, Quiet DEF LoginPost, IInv, Bootstrapping
<1>3. ASSUME NEW t \in Threads, NEW i \in Ids, ProvisionRun(t, i) PROVE IInv'
  BY <1>3, <1>c, <1>l, <1>s, Quiet DEF ProvisionRun, IInv, Bootstrapping
<1>4. ASSUME NEW t \in Threads, NEW i \in Ids, NEW o \in WithForm,
             Middleware(t, i, o) PROVE IInv'
  BY <1>4, <1>c, <1>l, <1>s, Quiet DEF Middleware, Session, IInv, Bootstrapping
<1>5. ASSUME NEW t \in Threads, NEW s \in Subjects, NEW e \in Emails,
             Callback(t, s, e) PROVE IInv'
  <2>1. [Nobody EXCEPT !.email = e] \in Copies
    BY CopyTypes DEF IInv, Mails
  <2> QED BY <1>5, <2>1, <1>l, <1>s, Quiet DEF Callback, IInv, Bootstrapping
<1>6. ASSUME NEW t \in Threads, BootstrapLock(t) PROVE IInv'
  <2>1. /\ Shape' /\ pc'[t] = "exists"
        /\ \A s \in Threads : s # t => pc'[s] = pc[s] /\ op'[s] = op[s]
    BY <1>6, <1>c, Moved DEF BootstrapLock, Goto, IInv, Shape, Labels
  <2>2. \A s \in Threads : pc[s] \notin {"exists", "insert"}
    BY <1>6, ThreadsAssumption DEF BootstrapLock, IInv, Bootstrapping
  <2>3. (bootstrapped = 0 <=> Existing = {})'
    BY <1>6 DEF BootstrapLock, IInv, Bootstrapping, Existing
  <2>4. lock' = t /\ UNCHANGED <<signedIn, settings, bootstrapped>>
    BY <1>6 DEF BootstrapLock
  <2> QED BY <2>1, <2>2, <2>3, <2>4 DEF IInv, Bootstrapping, Before
<1>7. ASSUME NEW t \in Threads, BootstrapExists(t) PROVE IInv'
  <2>1. CASE Existing # {}
    BY <1>7, <2>1, <1>r, <1>s DEF BootstrapExists, IInv, Bootstrapping
  <2>2. CASE Existing = {}
    <3>1. /\ Shape' /\ pc'[t] = "insert"
          /\ \A s \in Threads : s # t => pc'[s] = pc[s] /\ op'[s] = op[s]
      BY <1>7, <2>2, <1>c, Moved DEF BootstrapExists, Goto, IInv, Shape, Labels
    <3>2. bootstrapped = 0 /\ lock = t
      BY <1>7, <2>2 DEF BootstrapExists, IInv, Bootstrapping
    <3>3. Existing' = {}
      BY <1>7, <2>2 DEF BootstrapExists, Existing
    <3>4. UNCHANGED <<signedIn, settings, bootstrapped, lock>>
      BY <1>7, <2>2 DEF BootstrapExists
    <3> QED BY <3>1, <3>2, <3>3, <3>4 DEF IInv, Bootstrapping, Before
  <2> QED BY <2>1, <2>2
<1>8. ASSUME NEW t \in Threads, BootstrapInsert(t) PROVE IInv'
  <2>1. PICK i \in Ids, e \in Mails :
          /\ InsertUser(i, e, "admin", TRUE)
          /\ Go(t, "session", op[t], [CopyOf(i) EXCEPT !.email = e, !.role = "admin"])
    BY <1>8 DEF BootstrapInsert
  <2>2. account' \in [Ids -> Accounts] /\ account'[i].exists
    BY <2>1, InsertedType DEF IInv, Roles
  <2>3. [CopyOf(i) EXCEPT !.email = e, !.role = "admin"] \in Copies
    BY CopyTypes DEF IInv, Roles
  <2>4. /\ pc' \in [Threads -> Labels] /\ me' \in [Threads -> Copies]
        /\ op' \in [Threads -> {"login"} \cup WithForm]
        /\ pc'[t] = "session" /\ \A s \in Threads : s # t => pc'[s] = pc[s] /\ op'[s] = op[s]
    BY <2>1, <2>3, <1>c, <1>l, Moved
  <2>5. bootstrapped = 0 /\ bootstrapped' = 1 /\ lock = t /\ lock' = NoThread
    BY <1>8 DEF BootstrapInsert, IInv, Bootstrapping
  <2>6. \A s \in Threads : s # t => pc[s] \in {"new", "lock"}
    BY <2>5 DEF IInv, Bootstrapping, Before
  <2>7. Existing' # {}
    BY <2>2 DEF Existing
  <2> QED BY <2>2, <2>4, <2>5, <2>6, <2>7 DEF IInv, Shape, Bootstrapping, Before
<1>9. ASSUME NEW t \in Threads, NewSession(t) PROVE IInv'
  BY <1>9, <1>q, <1>r DEF NewSession, Before
<1>10. ASSUME NEW t \in Threads, CSRFValid(t) PROVE IInv'
  <2>1. CASE Session(me[t].id)
    <3>1. op[t] \in Labels \ {"exists", "insert", "csrf"}
      BY <1>10, <1>l DEF CSRFValid, IInv, Bootstrapping, WithForm, AdminForms
    <3> QED BY <1>10, <2>1, <3>1, <1>c, <1>q, <1>s, Quiet DEF CSRFValid, Goto, Before
  <2>2. CASE ~Session(me[t].id)
    BY <1>10, <2>2, <1>q, <1>r DEF CSRFValid, Before
  <2> QED BY <2>1, <2>2
(* Respond, from a step that writes accounts behind a login. *)
<1>w. ASSUME NEW t \in Threads, Respond(t), pc[t] \notin Before,
             account' \in [Ids -> Accounts],
             \A i \in Ids : account[i].exists => account'[i].exists,
             bootstrapped' = bootstrapped, lock' = lock
      PROVE  IInv'
  <2>1. /\ pc' \in [Threads -> Labels] /\ me' \in [Threads -> Copies]
        /\ op' \in [Threads -> {"login"} \cup WithForm]
        /\ pc'[t] = "new"
        /\ \A s \in Threads : s # t => pc'[s] = pc[s] /\ op'[s] = op[s]
    BY <1>w, <1>c, <1>l, Moved DEF Respond
  <2> QED BY <1>w, <1>q, <2>1, Later
<1>11. ASSUME NEW t \in Threads, CreateUser(t) PROVE IInv'
  <2>1. CASE UNCHANGED account
    BY <1>11, <2>1, <1>r, <1>s DEF CreateUser
  <2>2. CASE \E i \in Ids, e \in Mails, r \in Roles : InsertUser(i, e, r, TRUE)
    BY <1>11, <2>2, <1>w, InsertedType DEF CreateUser, IInv, Before
  <2> QED BY <1>11, <2>1, <2>2 DEF CreateUser
<1>12. ASSUME NEW t \in Threads, UpdateUser(t) PROVE IInv'
  <2>1. CASE UNCHANGED account
    BY <1>12, <2>1, <1>r, <1>s DEF UpdateUser
  <2>2. CASE account' # account
    <3>1. PICK i \in Existing, e \in Mails, r \in Roles, d \in BOOLEAN, p \in BOOLEAN :
            account' = [account EXCEPT ![i] = Updated(account[i], e, r, d, p)]
      BY <1>12, <2>2 DEF UpdateUser
    <3>2. /\ Updated(account[i], e, r, d, p) \in Accounts
          /\ Updated(account[i], e, r, d, p).exists = account[i].exists
      BY UpdatedType DEF IInv, Shape, Existing
    <3>3. /\ account' \in [Ids -> Accounts]
          /\ \A j \in Ids : account[j].exists => account'[j].exists
      BY <3>1, <3>2 DEF IInv, Shape
    <3> QED BY <1>12, <3>3, <1>w DEF UpdateUser, Before
  <2> QED BY <2>1, <2>2
<1>13. ASSUME NEW t \in Threads, ChangePassword(t) PROVE IInv'
  <2>1. CASE account[me[t].id].local
    BY <1>13, <2>1, <1>c, <1>l, <1>q, <1>s, Quiet DEF ChangePassword, Goto, Before
  <2>2. CASE ~account[me[t].id].local
    BY <1>13, <2>2, <1>r, <1>s DEF ChangePassword
  <2> QED BY <2>1, <2>2
<1>14. ASSUME NEW t \in Threads, StorePassword(t) PROVE IInv'
  <2>1. CASE UNCHANGED account
    BY <1>14, <2>1, <1>r, <1>s DEF StorePassword
  <2>2. CASE account' # account
    <3> DEFINE new == Updated(account[me[t].id], me[t].email, me[t].role,
                              me[t].disabled, TRUE)
    <3>1. account' = [account EXCEPT ![me[t].id] = new]
      BY <1>14, <2>2 DEF StorePassword
    <3>2. new \in Accounts /\ new.exists = account[me[t].id].exists
      <4>1. /\ me[t].id \in Ids /\ me[t].email \in Mails
            /\ me[t].role \in Roles /\ me[t].disabled \in BOOLEAN
        BY <1>c DEF Copies
      <4>2. account[me[t].id] \in Accounts
        BY <4>1 DEF IInv, Shape
      <4> QED BY <4>1, <4>2, UpdatedType
    <3> HIDE DEF new
    <3>3. /\ account' \in [Ids -> Accounts]
          /\ \A j \in Ids : account[j].exists => account'[j].exists
      BY <3>1, <3>2, <1>c DEF IInv, Shape, Copies
    <3> QED BY <1>14, <3>3, <1>w DEF StorePassword, Before
  <2> QED BY <2>1, <2>2
<1>15. ASSUME NEW t \in Threads, SaveOIDC(t) PROVE IInv'
  BY <1>15, <1>q, <1>r DEF SaveOIDC, Before
<1>16. ASSUME NEW t \in Threads, Logout(t) PROVE IInv'
  BY <1>16, <1>q, <1>r DEF Logout, Before
(* The callback gives up, or goes on to create the account. *)
<1>u. ASSUME NEW t \in Threads, Unknown(t), account' = account, lock' = lock,
             bootstrapped' = bootstrapped, pc[t] \notin Before
      PROVE  IInv'
  <2>1. CASE flow[t].settings.autoProvision
    <3>1. Go(t, "jit", op[t], me[t]) /\ bootstrapped = 1
      BY <1>u, <2>1, <1>q DEF Unknown, Goto
    <3>2. bootstrapped = 0 => signedIn' = {} /\ ~settings'.enabled
      BY <3>1
    <3>3. "jit" \in Labels \ {"exists", "insert"} /\ "jit" # "csrf"
      BY <1>l
    <3> QED BY <1>u, <3>1, <3>2, <3>3, <1>c, Quiet
  <2>2. CASE ~flow[t].settings.autoProvision
    BY <1>u, <2>2, <1>q, <1>r DEF Unknown
  <2> QED BY <2>1, <2>2
<1>17. ASSUME NEW t \in Threads, OIDCUser(t) PROVE IInv'
  <2>1. pc[t] \notin Before
    BY <1>17 DEF OIDCUser, Before
  <2>2. ASSUME NEW i \in Ids, Go(t, "session", op[t], CopyOf(i)) PROVE IInv'
    BY <1>17, <2>1, <2>2, <1>c, <1>l, <1>q, <1>s, Quiet DEF OIDCUser
  <2>3. ASSUME Goto(t, "link") PROVE IInv'
    BY <1>17, <2>1, <2>3, <1>c, <1>l, <1>q, <1>s, Quiet DEF OIDCUser, Goto
  <2>4. ASSUME Unknown(t) PROVE IInv'
    BY <1>17, <2>1, <2>4, <1>u DEF OIDCUser
  <2> QED BY <1>17, <2>2, <2>3, <2>4 DEF OIDCUser
<1>18. ASSUME NEW t \in Threads, LinkOIDCUserByEmail(t) PROVE IInv'
  <2>1. pc[t] \notin Before
    BY <1>18 DEF LinkOIDCUserByEmail, Before
  <2>2. ASSUME NEW i \in Existing, Go(t, "session", op[t], CopyOf(i)) PROVE IInv'
    BY <1>18, <2>1, <2>2, <1>c, <1>l, <1>q, <1>s, Quiet
       DEF LinkOIDCUserByEmail, Existing
  <2>3. ASSUME Respond(t) PROVE IInv'
    BY <1>18, <2>1, <2>3, <1>q, <1>r DEF LinkOIDCUserByEmail
  <2>4. ASSUME Unknown(t) PROVE IInv'
    BY <1>18, <2>1, <2>4, <1>u DEF LinkOIDCUserByEmail
  <2> QED BY <1>18, <2>2, <2>3, <2>4 DEF LinkOIDCUserByEmail
<1>19. ASSUME NEW t \in Threads, ProvisionOIDCUser(t) PROVE IInv'
  <2>1. pc[t] \notin Before
    BY <1>19 DEF ProvisionOIDCUser, Before
  <2>2. ASSUME NEW i \in Ids, NEW r \in Roles, InsertUser(i, me[t].email, r, FALSE),
               Go(t, "session", op[t], [CopyOf(i) EXCEPT !.role = r, !.email = me[t].email])
        PROVE  IInv'
    <3>1. me[t].email \in Mails
      BY <1>c DEF Copies
    <3>2. [CopyOf(i) EXCEPT !.role = r, !.email = me[t].email] \in Copies
      BY <3>1, CopyTypes DEF IInv
    <3>3. /\ account' \in [Ids -> Accounts]
          /\ \A j \in Ids : account[j].exists => account'[j].exists
      BY <2>2, <3>1, InsertedType DEF IInv
    <3>4. /\ pc' \in [Threads -> Labels] /\ me' \in [Threads -> Copies]
          /\ op' \in [Threads -> {"login"} \cup WithForm]
          /\ pc'[t] = "session"
          /\ \A s \in Threads : s # t => pc'[s] = pc[s] /\ op'[s] = op[s]
      BY <2>2, <3>2, <1>c, <1>l, Moved
    <3> QED BY <1>19, <2>1, <3>3, <3>4, <1>q, Later DEF ProvisionOIDCUser
  <2>3. ASSUME Respond(t), UNCHANGED account PROVE IInv'
    <3>1. bootstrapped = 1 /\ bootstrapped' = bootstrapped /\ lock' = lock
      BY <1>19, <2>1, <1>q DEF ProvisionOIDCUser
    <3> QED BY <2>3, <3>1, <1>r
  <2> QED BY <1>19, <2>2, <2>3 DEF ProvisionOIDCUser
<1>20. ASSUME NEW t \in Threads, ProvisionUser(t) PROVE IInv'
  <2>1. /\ bootstrapped = 1 /\ bootstrapped' = bootstrapped /\ lock' = lock
        /\ pc' = pc /\ op' = op /\ me' = me
    BY <1>20, <1>q DEF ProvisionUser, Before
  <2>2. PICK e \in Emails, r \in Roles, d \in BOOLEAN :
          \/ \E i \in Existing :
               account' = [account EXCEPT ![i].role = SeedFor(t, i, r, d).role,
                                          ![i].disabled = SeedFor(t, i, r, d).disabled]
          \/ \E i \in Ids : account' = [account EXCEPT ![i] =
               [exists |-> TRUE, email |-> e, role |-> r, disabled |-> d, local |-> FALSE]]
    BY <1>20 DEF ProvisionUser
  <2>3. /\ account' \in [Ids -> Accounts]
        /\ \A j \in Ids : account[j].exists => account'[j].exists
    <3>1. CASE \E i \in Ids : account' = [account EXCEPT ![i] =
               [exists |-> TRUE, email |-> e, role |-> r, disabled |-> d, local |-> FALSE]]
      BY <3>1 DEF IInv, Shape, Accounts, Mails
    <3>2. ASSUME NEW i \in Existing,
                 account' = [account EXCEPT ![i].role = SeedFor(t, i, r, d).role,
                                            ![i].disabled = SeedFor(t, i, r, d).disabled]
          PROVE  /\ account' \in [Ids -> Accounts]
                 /\ \A j \in Ids : account[j].exists => account'[j].exists
      <4>1. SeedFor(t, i, r, d).role \in Roles /\ SeedFor(t, i, r, d).disabled \in BOOLEAN
        BY DEF SeedFor, Roles
      <4> QED BY <3>2, <4>1 DEF IInv, Shape, Accounts, Existing
    <3> QED BY <2>2, <3>1, <3>2
  <2> QED BY <2>1, <2>3, Later DEF IInv, Shape
<1>p. ASSUME NEW t \in Threads, ProvisionOIDC(t) PROVE IInv'
  BY <1>p, <1>q, <1>r DEF ProvisionOIDC, Before
<1>21. ASSUME NEW t \in Threads, Abort(t) PROVE IInv'
  BY <1>21, <1>r, <1>s DEF Abort
<1>22. ASSUME NEW i \in Ids, SessionExpires(i) PROVE IInv'
  <2>1. Shape' /\ (bootstrapped = 0 <=> Existing = {})'
    BY <1>22 DEF SessionExpires, IInv, Shape, Bootstrapping, Existing
  <2> QED BY <1>22, <2>1 DEF SessionExpires, IInv, Bootstrapping
<1>23. CASE UNCHANGED vars
  BY <1>23 DEF vars, IInv, Shape, Bootstrapping, Existing
<1> QED
  BY <1>1, <1>2, <1>3, <1>4, <1>5, <1>6, <1>7, <1>8, <1>9, <1>10, <1>11, <1>12,
     <1>13, <1>14, <1>15, <1>16, <1>17, <1>18, <1>19, <1>20, <1>p, <1>21, <1>22, <1>23
  DEF Next, Arrive, Step, Bootstrap

(* For any number of concurrent setup forms, logins, callbacks, admin      *)
(* screens and provisioning processes, at most one setup creates an        *)
(* account, and none exists before it did.                                 *)
THEOREM BootstrapOnce == Spec => []SingleBootstrap
<1>1. IInv => SingleBootstrap
  BY DEF IInv, Bootstrapping, SingleBootstrap
<1> QED BY <1>1, InitIInv, NextIInv, PTL DEF Spec

(***************************************************************************)
(* Who acts, and for which account.                                        *)
(***************************************************************************)

(* What Shape leaves open: rows refer to accounts, a callback keeps the    *)
(* settings it read.                                                       *)
Fields ==
  /\ identities \subseteq Subjects \X Existing
  /\ signedIn   \subseteq Existing
  /\ flow       \in [Threads -> [subject : Subjects, settings : Settings]]
  /\ settings   \in Settings

(* Labels at which a goroutine acts for an account it has read.            *)
Owned == {"session", "csrf", "create", "update", "password", "rehash",
          "logout", "seed", "saveOIDC"}

(* A goroutine at a label acts for an account, and at one that only an     *)
(* administrator reaches it holds an administrator's copy.                 *)
Entitled(label, o, u) ==
  /\ label \in Owned => u.id \in Existing
  /\ label = "csrf" /\ o \in AdminForms => IsAdmin(u)
  /\ label \in AdminForms \cup {"seed"} => IsAdmin(u)

Acting == \A t \in Threads : Entitled(pc[t], op[t], me[t])

Inv == IInv /\ Fields /\ Acting

(* No statement of the program deletes a row of users. *)
LEMMA AccountsStay == IInv /\ [Next]_vars => Existing \subseteq Existing'
<1> SUFFICES ASSUME IInv, [Next]_vars PROVE Existing \subseteq Existing'
  OBVIOUS
<1> USE DEF tables, locals
<1>1. ASSUME UNCHANGED account PROVE Existing \subseteq Existing'
  BY <1>1 DEF Existing
<1>2. ASSUME NEW i \in Ids, NEW e, NEW r, NEW p, InsertUser(i, e, r, p)
      PROVE  Existing \subseteq Existing'
  BY <1>2 DEF InsertUser, Existing, IInv, Shape
<1>3. ASSUME NEW i \in Ids, NEW e, NEW r, NEW d, NEW p,
             account' = [account EXCEPT ![i] = Updated(@, e, r, d, p)]
      PROVE  Existing \subseteq Existing'
  BY <1>3 DEF Updated, Existing, IInv, Shape, Accounts
<1>4. ASSUME NEW t \in Threads, BootstrapInsert(t) PROVE Existing \subseteq Existing'
  BY <1>2, <1>4 DEF BootstrapInsert
<1>5. ASSUME NEW t \in Threads, CreateUser(t) PROVE Existing \subseteq Existing'
  BY <1>1, <1>2, <1>5 DEF CreateUser
<1>6. ASSUME NEW t \in Threads, UpdateUser(t) PROVE Existing \subseteq Existing'
  BY <1>1, <1>3, <1>6 DEF UpdateUser, Existing
<1>7. ASSUME NEW t \in Threads, StorePassword(t) PROVE Existing \subseteq Existing'
  BY <1>1, <1>3, <1>7 DEF StorePassword, IInv, Shape, Copies
<1>8. ASSUME NEW t \in Threads, ProvisionOIDCUser(t) PROVE Existing \subseteq Existing'
  BY <1>1, <1>2, <1>8 DEF ProvisionOIDCUser
<1>9. ASSUME NEW t \in Threads, ProvisionUser(t) PROVE Existing \subseteq Existing'
  <2>1. ASSUME NEW i \in Existing, NEW v, NEW w,
               account' = [account EXCEPT ![i].role = v, ![i].disabled = w]
        PROVE  Existing \subseteq Existing'
    BY <2>1 DEF Existing, IInv, Shape, Accounts
  <2>2. ASSUME NEW i \in Ids, NEW e \in Emails, NEW r \in Roles, NEW d \in BOOLEAN,
               account' = [account EXCEPT ![i] =
                 [exists |-> TRUE, email |-> e, role |-> r, disabled |-> d,
                  local |-> FALSE]]
        PROVE  Existing \subseteq Existing'
    BY <2>2 DEF Existing, IInv, Shape
  <2>3. PICK e \in Emails, r \in Roles, d \in BOOLEAN :
          \/ \E i \in Existing :
               account' = [account EXCEPT ![i].role = SeedFor(t, i, r, d).role,
                                          ![i].disabled = SeedFor(t, i, r, d).disabled]
          \/ \E i \in Ids : account' = [account EXCEPT ![i] =
               [exists |-> TRUE, email |-> e, role |-> r, disabled |-> d, local |-> FALSE]]
    BY <1>9 DEF ProvisionUser
  <2> QED BY <2>1, <2>2, <2>3
<1>10. ASSUME NEW t \in Threads, Arrive(t) PROVE UNCHANGED account
  BY <1>10 DEF Arrive, SetupPost, LoginPost, ProvisionRun, Middleware, Callback
<1>11. ASSUME NEW t \in Threads,
              \/ BootstrapLock(t) \/ BootstrapExists(t) \/ NewSession(t)
              \/ CSRFValid(t) \/ ChangePassword(t) \/ SaveOIDC(t) \/ Logout(t)
              \/ OIDCUser(t) \/ LinkOIDCUserByEmail(t) \/ ProvisionOIDC(t) \/ Abort(t)
       PROVE  UNCHANGED account
  BY <1>11 DEF BootstrapLock, BootstrapExists, NewSession, CSRFValid, ChangePassword,
               SaveOIDC, Logout, OIDCUser, LinkOIDCUserByEmail, ProvisionOIDC, Abort
<1>12. ASSUME NEW i \in Ids, SessionExpires(i) PROVE UNCHANGED account
  BY <1>12 DEF SessionExpires
<1> QED
  BY <1>1, <1>4, <1>5, <1>6, <1>7, <1>8, <1>9, <1>10, <1>11, <1>12
  DEF Next, Step, Bootstrap, vars

LEMMA FieldsInductive == Inv /\ [Next]_vars => Fields'
<1> SUFFICES ASSUME Inv, [Next]_vars PROVE Fields'
  OBVIOUS
<1> USE DEF tables, locals
<1>e. Existing \subseteq Existing'
  BY AccountsStay DEF Inv
<1>n. NoFlow \in [subject : Subjects, settings : Settings]
  BY IdsAssumption DEF NoFlow, NoSettings, Settings
(* A step that at most takes rows away and forgets a flow.                 *)
<1>k. ASSUME NEW t \in Threads, flow' = flow \/ Respond(t),
             identities' = identities, signedIn' \subseteq signedIn,
             settings' \in Settings
      PROVE  Fields'
  BY <1>k, <1>e, <1>n DEF Inv, Fields, Respond
<1>1. ASSUME NEW t \in Threads, SetupPost(t) PROVE Fields'
  BY <1>1, <1>k DEF SetupPost, Inv, Fields
<1>2. ASSUME NEW t \in Threads, NEW i \in Ids, LoginPost(t, i) PROVE Fields'
  BY <1>2, <1>k DEF LoginPost, Inv, Fields
<1>3. ASSUME NEW t \in Threads, NEW i \in Ids, ProvisionRun(t, i) PROVE Fields'
  BY <1>3, <1>k DEF ProvisionRun, Inv, Fields
<1>4. ASSUME NEW t \in Threads, NEW i \in Ids, NEW o, Middleware(t, i, o) PROVE Fields'
  BY <1>4, <1>k DEF Middleware, Inv, Fields
<1>5. ASSUME NEW t \in Threads, NEW s \in Subjects, NEW e, Callback(t, s, e)
      PROVE  Fields'
  BY <1>5, <1>e DEF Callback, Inv, Fields
<1>6. ASSUME NEW t \in Threads,
             \/ BootstrapLock(t) \/ BootstrapExists(t) \/ BootstrapInsert(t)
             \/ CSRFValid(t) \/ CreateUser(t) \/ UpdateUser(t) \/ ChangePassword(t)
             \/ StorePassword(t) \/ ProvisionUser(t) \/ Abort(t)
      PROVE  Fields'
  <2>1. flow' = flow \/ Respond(t)
    BY <1>6 DEF BootstrapLock, BootstrapExists, BootstrapInsert, CSRFValid, CreateUser,
                UpdateUser, ChangePassword, StorePassword, ProvisionUser, Abort
  <2>2. UNCHANGED <<identities, signedIn, settings>>
    BY <1>6 DEF BootstrapLock, BootstrapExists, BootstrapInsert, CSRFValid, CreateUser,
                UpdateUser, ChangePassword, StorePassword, ProvisionUser, Abort
  <2> QED BY <2>1, <2>2, <1>k DEF Inv, Fields
<1>7. ASSUME NEW t \in Threads, SaveOIDC(t) \/ ProvisionOIDC(t) PROVE Fields'
  BY <1>7, <1>k, ChoicesAssumption DEF SaveOIDC, ProvisionOIDC
<1>8. ASSUME NEW t \in Threads, Logout(t) PROVE Fields'
  BY <1>8, <1>k DEF Logout, Inv, Fields
<1>9. ASSUME NEW t \in Threads, NewSession(t) PROVE Fields'
  <2>1. me[t].id \in Existing
    BY <1>9 DEF NewSession, Inv, Acting, Entitled, Owned
  <2> QED BY <1>9, <2>1, <1>e, <1>n DEF NewSession, Respond, Inv, Fields
<1>10. ASSUME NEW t \in Threads, OIDCUser(t) PROVE Fields'
  <2>1. flow' = flow \/ Respond(t)
    BY <1>10 DEF OIDCUser, Unknown
  <2> QED BY <1>10, <2>1, <1>k DEF OIDCUser, Inv, Fields
<1>11. ASSUME NEW t \in Threads, LinkOIDCUserByEmail(t) PROVE Fields'
  <2>1. CASE identities' = identities
    <3>1. flow' = flow \/ Respond(t)
      BY <1>11 DEF LinkOIDCUserByEmail, Unknown
    <3> QED BY <1>11, <2>1, <3>1, <1>k DEF LinkOIDCUserByEmail, Inv, Fields
  <2>2. CASE identities' # identities
    <3>1. PICK i \in Existing : /\ identities' = identities \cup {<<flow[t].subject, i>>}
                                /\ UNCHANGED flow
      BY <1>11, <2>2 DEF LinkOIDCUserByEmail
    <3> QED BY <1>11, <3>1, <1>e DEF LinkOIDCUserByEmail, Inv, Fields
  <2> QED BY <2>1, <2>2
<1>12. ASSUME NEW t \in Threads, ProvisionOIDCUser(t) PROVE Fields'
  <2>1. CASE identities' = identities
    <3>1. flow' = flow \/ Respond(t)
      BY <1>12 DEF ProvisionOIDCUser
    <3> QED BY <1>12, <2>1, <3>1, <1>k DEF ProvisionOIDCUser, Inv, Fields
  <2>2. CASE identities' # identities
    <3>1. PICK i \in Ids, r \in Roles :
            /\ InsertUser(i, me[t].email, r, FALSE)
            /\ identities' = identities \cup {<<flow[t].subject, i>>}
            /\ UNCHANGED flow
      BY <1>12, <2>2 DEF ProvisionOIDCUser
    <3>2. i \in Existing'
      BY <3>1 DEF InsertUser, Existing, Inv, IInv, Shape
    <3>3. identities' \subseteq Subjects \X Existing'
      BY <3>1, <3>2, <1>e DEF Inv, Fields
    <3> QED BY <1>12, <3>1, <3>3, <1>e DEF ProvisionOIDCUser, Inv, Fields
  <2> QED BY <2>1, <2>2
<1>13. ASSUME NEW i \in Ids, SessionExpires(i) PROVE Fields'
  BY <1>13, <1>e DEF SessionExpires, Inv, Fields
<1>14. CASE UNCHANGED vars
  BY <1>14, <1>e DEF vars, Inv, Fields
<1> QED
  BY <1>1, <1>2, <1>3, <1>4, <1>5, <1>6, <1>7, <1>8, <1>9, <1>10, <1>11, <1>12,
     <1>13, <1>14
  DEF Next, Arrive, Step, Bootstrap

(* A goroutine moves on: the account it acts for, where it acts for one.   *)
LEMMA Handover ==
  ASSUME Inv, Existing \subseteq Existing', NEW t \in Threads, NEW label \in Labels,
         NEW o \in {"login"} \cup WithForm, NEW u \in Copies, Go(t, label, o, u),
         label \in Owned => u.id \in Existing',
         label = "csrf" /\ o \in AdminForms => IsAdmin(u),
         label \in AdminForms \cup {"seed"} => IsAdmin(u)
  PROVE  Acting'
<1> SUFFICES ASSUME NEW s \in Threads PROVE Entitled(pc[s], op[s], me[s])'
  BY DEF Acting
<1>1. CASE s = t
  BY <1>1 DEF Go, Entitled, Inv, IInv, Shape
<1>2. CASE s # t
  <2>1. pc'[s] = pc[s] /\ op'[s] = op[s] /\ me'[s] = me[s]
    BY <1>2 DEF Go, Inv, IInv, Shape
  <2>2. Entitled(pc[s], op[s], me[s])
    BY DEF Inv, Acting
  <2> QED BY <2>1, <2>2 DEF Entitled
<1> QED BY <1>1, <1>2

LEMMA ActingInductive == Inv /\ [Next]_vars => Acting'
<1> SUFFICES ASSUME Inv, [Next]_vars PROVE Acting'
  OBVIOUS
<1> USE DEF tables, locals
<1>e. Existing \subseteq Existing'
  BY AccountsStay DEF Inv
<1>c. /\ Nobody \in Copies
      /\ \A t \in Threads : op[t] \in {"login"} \cup WithForm /\ me[t] \in Copies
      /\ \A i \in Ids : CopyOf(i) \in Copies /\ CopyOf(i).id = i
  BY CopyTypes DEF Inv, IInv, Shape, CopyOf
<1>a. \A t \in Threads : Entitled(pc[t], op[t], me[t])
  BY DEF Inv, Acting
<1>l. Owned \cup AdminForms \subseteq Labels /\ AdminForms \subseteq Owned
  BY DEF Owned, AdminForms, Labels
(* At every other label nothing is asked.                                  *)
<1>f. ASSUME NEW t \in Threads,
             NEW label \in {"new", "lock", "exists", "insert", "oidcUser", "link", "jit"},
             NEW o \in {"login"} \cup WithForm, NEW u \in Copies, Go(t, label, o, u)
      PROVE  Acting'
  <2>1. label \in Labels \ Owned
    BY <1>f DEF Labels, Owned
  <2>2. AdminForms \cup {"csrf", "seed"} \subseteq Owned
    BY DEF AdminForms, Owned
  <2> QED BY <1>f, <2>1, <2>2, <1>e, Handover
<1>r. ASSUME NEW t \in Threads, Respond(t) PROVE Acting'
  BY <1>r, <1>c, <1>f DEF Respond
(* A session is opened for an account that exists.                         *)
<1>s. ASSUME NEW t \in Threads, NEW u \in Copies, u.id \in Existing',
             Go(t, "session", op[t], u)
      PROVE  Acting'
  BY <1>s, <1>c, <1>e, Handover DEF Labels, AdminForms
<1>k. ASSUME UNCHANGED <<pc, op, me>> PROVE Acting'
  BY <1>k, <1>e DEF Inv, Acting, Entitled
<1>1. ASSUME NEW t \in Threads, SetupPost(t) PROVE Acting'
  BY <1>1, <1>c, <1>f DEF SetupPost, Goto
<1>2. ASSUME NEW t \in Threads, NEW i \in Ids, LoginPost(t, i) PROVE Acting'
  BY <1>2, <1>c, <1>e, Handover DEF LoginPost, Labels, AdminForms
<1>3. ASSUME NEW t \in Threads, NEW i \in Ids, ProvisionRun(t, i) PROVE Acting'
  <2>1. IsAdmin(CopyOf(i))
    BY <1>3 DEF ProvisionRun, IsAdmin, CopyOf
  <2> QED BY <1>3, <2>1, <1>c, <1>e, Handover DEF ProvisionRun, Labels
<1>4. ASSUME NEW t \in Threads, NEW i \in Ids, NEW o \in WithForm, Middleware(t, i, o)
      PROVE  Acting'
  <2>1. i \in Existing /\ (o \in AdminForms => IsAdmin(CopyOf(i)))
    BY <1>4 DEF Middleware, Session, Inv, Fields, IsAdmin, CopyOf
  <2> QED BY <1>4, <2>1, <1>c, <1>e, Handover DEF Middleware, Labels, AdminForms
<1>5. ASSUME NEW t \in Threads, NEW s \in Subjects, NEW e \in Emails, Callback(t, s, e)
      PROVE  Acting'
  <2>1. [Nobody EXCEPT !.email = e] \in Copies
    BY CopyTypes DEF Inv, IInv, Mails
  <2> QED BY <1>5, <2>1, <1>f DEF Callback
<1>6. ASSUME NEW t \in Threads, BootstrapLock(t) PROVE Acting'
  BY <1>6, <1>c, <1>f DEF BootstrapLock, Goto
<1>7. ASSUME NEW t \in Threads, BootstrapExists(t) PROVE Acting'
  BY <1>7, <1>c, <1>f, <1>r DEF BootstrapExists, Goto
<1>8. ASSUME NEW t \in Threads, BootstrapInsert(t) PROVE Acting'
  <2>1. PICK i \in Ids, e \in Mails :
          /\ InsertUser(i, e, "admin", TRUE)
          /\ Go(t, "session", op[t], [CopyOf(i) EXCEPT !.email = e, !.role = "admin"])
    BY <1>8 DEF BootstrapInsert
  <2>2. [CopyOf(i) EXCEPT !.email = e, !.role = "admin"] \in Copies
    BY CopyTypes DEF Inv, IInv, Roles
  <2>3. [CopyOf(i) EXCEPT !.email = e, !.role = "admin"].id = i /\ i \in Existing'
    BY <2>1 DEF CopyOf, InsertUser, Existing, Inv, IInv, Shape
  <2> QED BY <2>1, <2>2, <2>3, <1>s
<1>9. ASSUME NEW t \in Threads, CSRFValid(t) PROVE Acting'
  <2>1. CASE Session(me[t].id)
    <3>1. op[t] \in WithForm
      BY <1>9 DEF CSRFValid, Inv, IInv, Bootstrapping
    <3>2. op[t] \in Owned /\ op[t] # "csrf" /\ op[t] # "seed"
      BY <3>1 DEF WithForm, AdminForms, Owned
    <3>3. me[t].id \in Existing /\ (op[t] \in AdminForms => IsAdmin(me[t]))
      BY <1>9, <1>a DEF CSRFValid, Entitled, Owned
    <3>4. Go(t, op[t], op[t], me[t])
      BY <1>9, <2>1 DEF CSRFValid, Goto
    <3> QED BY <3>2, <3>3, <3>4, <1>c, <1>e, <1>l, Handover
  <2>2. CASE ~Session(me[t].id)
    BY <1>9, <2>2, <1>r DEF CSRFValid
  <2> QED BY <2>1, <2>2
<1>10. ASSUME NEW t \in Threads,
              \/ NewSession(t) \/ CreateUser(t) \/ UpdateUser(t) \/ StorePassword(t)
              \/ SaveOIDC(t) \/ Logout(t) \/ ProvisionOIDC(t) \/ Abort(t)
       PROVE  Acting'
  BY <1>10, <1>r DEF NewSession, CreateUser, UpdateUser, StorePassword, SaveOIDC,
                     Logout, ProvisionOIDC, Abort
<1>11. ASSUME NEW t \in Threads, ChangePassword(t) PROVE Acting'
  <2>1. CASE account[me[t].id].local
    <3>1. Go(t, "rehash", op[t], me[t]) /\ me[t].id \in Existing
      BY <1>11, <2>1, <1>a DEF ChangePassword, Goto, Entitled, Owned
    <3> QED BY <3>1, <1>c, <1>e, Handover DEF Labels, AdminForms
  <2>2. CASE ~account[me[t].id].local
    BY <1>11, <2>2, <1>r DEF ChangePassword
  <2> QED BY <2>1, <2>2
<1>u. ASSUME NEW t \in Threads, Unknown(t) PROVE Acting'
  BY <1>u, <1>c, <1>f, <1>r DEF Unknown, Goto
<1>12. ASSUME NEW t \in Threads, OIDCUser(t) PROVE Acting'
  <2>1. ASSUME NEW i \in Ids, <<flow[t].subject, i>> \in identities,
               Go(t, "session", op[t], CopyOf(i))
        PROVE  Acting'
    <3>1. i \in Existing
      BY <2>1 DEF Inv, Fields
    <3> QED BY <2>1, <3>1, <1>c, <1>e, <1>s
  <2>2. ASSUME Goto(t, "link") PROVE Acting'
    BY <2>2, <1>c, <1>f DEF Goto
  <2> QED BY <1>12, <2>1, <2>2, <1>u DEF OIDCUser
<1>13. ASSUME NEW t \in Threads, LinkOIDCUserByEmail(t) PROVE Acting'
  <2>1. ASSUME NEW i \in Existing, Go(t, "session", op[t], CopyOf(i)) PROVE Acting'
    BY <2>1, <1>c, <1>e, <1>s DEF Existing
  <2> QED BY <1>13, <2>1, <1>r, <1>u DEF LinkOIDCUserByEmail
<1>14. ASSUME NEW t \in Threads, ProvisionOIDCUser(t) PROVE Acting'
  <2>1. ASSUME NEW i \in Ids, NEW r \in Roles, InsertUser(i, me[t].email, r, FALSE),
               Go(t, "session", op[t],
                  [CopyOf(i) EXCEPT !.role = r, !.email = me[t].email])
        PROVE  Acting'
    <3>1. me[t].email \in Mails
      BY <1>c DEF Copies
    <3>2. [CopyOf(i) EXCEPT !.role = r, !.email = me[t].email] \in Copies
      BY <3>1, CopyTypes DEF Inv, IInv
    <3>3. /\ [CopyOf(i) EXCEPT !.role = r, !.email = me[t].email].id = i
          /\ i \in Existing'
      BY <2>1 DEF CopyOf, InsertUser, Existing, Inv, IInv, Shape
    <3> QED BY <2>1, <3>2, <3>3, <1>s
  <2> QED BY <1>14, <2>1, <1>r DEF ProvisionOIDCUser
<1>15. ASSUME NEW t \in Threads, ProvisionUser(t) PROVE Acting'
  BY <1>15, <1>k DEF ProvisionUser
<1>16. ASSUME NEW i \in Ids, SessionExpires(i) PROVE Acting'
  BY <1>16, <1>k DEF SessionExpires
<1>17. CASE UNCHANGED vars
  BY <1>17, <1>k DEF vars
<1> QED
  BY <1>1, <1>2, <1>3, <1>4, <1>5, <1>6, <1>7, <1>8, <1>9, <1>10, <1>11, <1>12,
     <1>13, <1>14, <1>15, <1>16, <1>17
  DEF Next, Arrive, Step, Bootstrap

LEMMA InvInductive == Spec => []Inv
<1>1. Init => Inv
  <2> SUFFICES ASSUME Init PROVE Inv
    OBVIOUS
  <2>1. Fields
    BY IdsAssumption DEF Init, Fields, NoFlow, NoSettings, Settings
  <2>2. Acting
    BY DEF Init, Acting, Entitled, Owned, AdminForms
  <2> QED BY <2>1, <2>2, InitIInv DEF Inv
<1>2. Inv /\ [Next]_vars => Inv'
  BY NextIInv, FieldsInductive, ActingInductive DEF Inv
<1> QED BY <1>1, <1>2, PTL DEF Spec

(* Every column and every handler's copy keeps its type, and no session or *)
(* identity outlives its account.                                          *)
THEOREM TypeCorrect == Spec => []TypeOK
<1>1. Inv => TypeOK
  BY DEF Inv, IInv, Shape, Fields, TypeOK
<1> QED BY <1>1, InvInductive, PTL

(***************************************************************************)
(* The last administrator.                                                 *)
(***************************************************************************)

(* Where every administrator stays one, there is one left. *)
LEMMA AdminsSurvive ==
  ASSUME Existing \subseteq Existing', Existing # {}, AdminRemains,
         \A i \in Existing : IsAdmin(account[i]) => IsAdmin(account'[i])
  PROVE  AdminRemains'
<1>1. PICK i \in Existing : IsAdmin(account[i])
  BY DEF AdminRemains
<1>2. i \in Existing' /\ IsAdmin(account'[i])
  BY <1>1
<1> QED BY <1>2 DEF AdminRemains, IsAdmin

(* A goroutine that is not overtaken knows its account as it is. *)
LEMMA NotOvertaken ==
  ASSUME Inv, NEW t \in Threads, ~Overtaken(t), pc[t] \in {"update", "rehash", "seed"}
  PROVE  /\ account[me[t].id].role = me[t].role
         /\ account[me[t].id].disabled = me[t].disabled
         /\ pc[t] # "rehash" => IsAdmin(me[t]) /\ IsAdmin(account[me[t].id])
<1>1. me[t] = CopyOf(me[t].id)
  BY DEF Overtaken
<1>2. me[t].role = account[me[t].id].role /\ me[t].disabled = account[me[t].id].disabled
  BY <1>1 DEF CopyOf
<1>3. pc[t] # "rehash" => IsAdmin(me[t])
  BY DEF Inv, Acting, Entitled, AdminForms
<1> QED BY <1>2, <1>3 DEF IsAdmin

LEMMA StepKeepsAdmin ==
  ASSUME Inv, [Next]_vars, AdminRemains,
         \A t \in Threads : Step(t) => ~Overtaken(t)
  PROVE  AdminRemains'
<1> USE DEF tables, locals
<1>e. Existing \subseteq Existing'
  BY AccountsStay DEF Inv
<1>h. account \in [Ids -> Accounts]
  BY DEF Inv, IInv, Shape
(* Behind a login there is an account. *)
<1>x. \A t \in Threads : pc[t] \notin Before => Existing # {}
  BY DEF Inv, IInv, Bootstrapping
<1>0. ASSUME UNCHANGED account PROVE AdminRemains'
  BY <1>0 DEF AdminRemains, Existing, IsAdmin
(* A new account changes no other. *)
<1>i. ASSUME Existing # {}, NEW i \in Ids \ Existing,
             \A j \in Ids : j # i => account'[j] = account[j]
      PROVE  AdminRemains'
  <2>1. \A j \in Existing : IsAdmin(account[j]) => IsAdmin(account'[j])
    BY <1>i DEF Existing
  <2> QED BY <1>i, <1>e, <2>1, AdminsSurvive
<1>1. ASSUME NEW t \in Threads, BootstrapInsert(t) PROVE AdminRemains'
  <2>1. PICK i \in Ids, e \in Mails : InsertUser(i, e, "admin", TRUE)
    BY <1>1 DEF BootstrapInsert
  <2>2. account'[i].exists /\ account'[i].role = "admin" /\ ~account'[i].disabled
    BY <2>1, <1>h DEF InsertUser
  <2> QED BY <2>2 DEF AdminRemains, Existing, IsAdmin
<1>2. ASSUME NEW t \in Threads, CreateUser(t) PROVE AdminRemains'
  <2>1. ASSUME NEW i \in Ids, NEW e \in Mails, NEW r \in Roles,
               InsertUser(i, e, r, TRUE)
        PROVE  AdminRemains'
    BY <1>2, <2>1, <1>h, <1>x, <1>i DEF CreateUser, InsertUser, Before
  <2> QED BY <1>2, <2>1, <1>0 DEF CreateUser
<1>3. ASSUME NEW t \in Threads, ProvisionOIDCUser(t) PROVE AdminRemains'
  <2>1. ASSUME NEW i \in Ids, NEW r \in Roles, InsertUser(i, me[t].email, r, FALSE)
        PROVE  AdminRemains'
    BY <1>3, <2>1, <1>h, <1>x, <1>i DEF ProvisionOIDCUser, InsertUser, Before
  <2> QED BY <1>3, <2>1, <1>0 DEF ProvisionOIDCUser
<1>4. ASSUME NEW t \in Threads, UpdateUser(t) PROVE AdminRemains'
  <2>0. ~Overtaken(t)
    BY <1>4 DEF Step
  <2>1. ASSUME NEW i \in Existing, NEW e \in Mails, NEW r \in Roles,
               NEW d \in BOOLEAN, NEW p \in BOOLEAN, Allowed(t, i, r, d),
               account' = [account EXCEPT ![i] = Updated(@, e, r, d, p)]
        PROVE  AdminRemains'
    <3>1. pc[t] = "update" /\ me[t].id \in Existing
      BY <1>4 DEF UpdateUser, Inv, Acting, Entitled, Owned
    <3>2. IsAdmin(account[me[t].id])
      BY <2>0, <3>1, NotOvertaken
    <3>3. IsAdmin(account'[me[t].id])
      BY <2>1, <3>1, <3>2, <1>h DEF Allowed, Updated, IsAdmin, Accounts, Existing
    <3> QED BY <3>1, <3>3, <1>e DEF AdminRemains, IsAdmin
  <2> QED BY <1>4, <2>1, <1>0 DEF UpdateUser
<1>5. ASSUME NEW t \in Threads, StorePassword(t) PROVE AdminRemains'
  <2>0. ~Overtaken(t)
    BY <1>5 DEF Step
  <2>1. ASSUME account' = [account EXCEPT ![me[t].id] =
                 Updated(@, me[t].email, me[t].role, me[t].disabled, TRUE)]
        PROVE  AdminRemains'
    <3>1. /\ account[me[t].id].role = me[t].role
          /\ account[me[t].id].disabled = me[t].disabled
      BY <1>5, <2>0, NotOvertaken DEF StorePassword
    <3>2. \A i \in Existing : IsAdmin(account[i]) => IsAdmin(account'[i])
      BY <2>1, <3>1, <1>h DEF Updated, IsAdmin, Accounts, Existing
    <3> QED BY <1>5, <3>2, <1>e, <1>x, AdminsSurvive DEF StorePassword, Before
  <2> QED BY <1>5, <2>1, <1>0 DEF StorePassword
<1>6. ASSUME NEW t \in Threads, ProvisionUser(t) PROVE AdminRemains'
  <2>0. pc[t] = "seed" /\ ~Overtaken(t)
    BY <1>6 DEF ProvisionUser, Step
  <2>1. ASSUME NEW i \in Existing, NEW r \in Roles, NEW d \in BOOLEAN,
               account' = [account EXCEPT ![i].role = SeedFor(t, i, r, d).role,
                                          ![i].disabled = SeedFor(t, i, r, d).disabled]
        PROVE  AdminRemains'
    <3>1. me[t].id \in Existing /\ IsAdmin(account[me[t].id])
      BY <2>0, NotOvertaken DEF Inv, Acting, Entitled, Owned
    <3>2. IsAdmin(account'[me[t].id])
      BY <2>1, <3>1, <1>h DEF SeedFor, IsAdmin, Accounts, Existing
    <3> QED BY <3>1, <3>2, <1>e DEF AdminRemains, IsAdmin
  <2>2. ASSUME NEW i \in Ids \ Existing, NEW e \in Emails, NEW r \in Roles,
               NEW d \in BOOLEAN,
               account' = [account EXCEPT ![i] =
                 [exists |-> TRUE, email |-> e, role |-> r, disabled |-> d,
                  local |-> FALSE]]
        PROVE  AdminRemains'
    BY <2>0, <2>2, <1>h, <1>x, <1>i DEF Before
  <2>3. PICK e \in Emails, r \in Roles, d \in BOOLEAN :
          \/ \E i \in Existing :
               account' = [account EXCEPT ![i].role = SeedFor(t, i, r, d).role,
                                          ![i].disabled = SeedFor(t, i, r, d).disabled]
          \/ \E i \in Ids \ Existing : account' = [account EXCEPT ![i] =
               [exists |-> TRUE, email |-> e, role |-> r, disabled |-> d, local |-> FALSE]]
    BY <1>6 DEF ProvisionUser
  <2>4. CASE \E i \in Existing :
               account' = [account EXCEPT ![i].role = SeedFor(t, i, r, d).role,
                                          ![i].disabled = SeedFor(t, i, r, d).disabled]
    BY <2>1, <2>4
  <2>5. CASE \E i \in Ids \ Existing : account' = [account EXCEPT ![i] =
               [exists |-> TRUE, email |-> e, role |-> r, disabled |-> d, local |-> FALSE]]
    BY <2>2, <2>5
  <2> QED BY <2>3, <2>4, <2>5
<1>7. ASSUME NEW t \in Threads, Arrive(t) PROVE AdminRemains'
  BY <1>7, <1>0 DEF Arrive, SetupPost, LoginPost, ProvisionRun, Middleware, Callback
<1>8. ASSUME NEW t \in Threads,
             \/ BootstrapLock(t) \/ BootstrapExists(t) \/ NewSession(t)
             \/ CSRFValid(t) \/ ChangePassword(t) \/ SaveOIDC(t) \/ Logout(t)
             \/ OIDCUser(t) \/ LinkOIDCUserByEmail(t) \/ ProvisionOIDC(t) \/ Abort(t)
      PROVE  AdminRemains'
  BY <1>8, <1>0 DEF BootstrapLock, BootstrapExists, NewSession, CSRFValid,
                    ChangePassword, SaveOIDC, Logout, OIDCUser, LinkOIDCUserByEmail,
                    ProvisionOIDC, Abort
<1>9. ASSUME NEW i \in Ids, SessionExpires(i) PROVE AdminRemains'
  BY <1>9, <1>0 DEF SessionExpires
<1> QED
  BY <1>0, <1>1, <1>2, <1>3, <1>4, <1>5, <1>6, <1>7, <1>8, <1>9
  DEF Next, Step, Bootstrap, vars

(* With any number of accounts and of overlapping handlers, the last       *)
(* enabled administrator goes only in a step of a handler that writes for  *)
(* a user whom another one has changed since the handler read it.          *)
THEOREM LastAdminNotLost == Spec => LastAdminKept
<1>1. Inv /\ [Next]_vars
        => [AdminRemains => AdminRemains' \/ \E t \in Threads : Overtaken(t) /\ Step(t)]_vars
  BY StepKeepsAdmin
<1> QED BY <1>1, InvInductive, PTL DEF Spec, LastAdminKept
=============================================================================
