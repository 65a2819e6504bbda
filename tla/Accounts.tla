------------------------------ MODULE Accounts ------------------------------
(***************************************************************************)
(* Accounts, sessions and who may change them: the handlers of             *)
(* internal/httpserver/server.go, the OIDC callback, the provisioning      *)
(* command, and the transactions of internal/database/database.go they     *)
(* run.  A transaction is one step, except BootstrapAdmin's, whose steps   *)
(* are ordered by the lock it takes on the users table.  Between two steps *)
(* of a handler any other handler may run; a handler keeps the copy of the *)
(* user that the session middleware put into its context.                  *)
(*                                                                         *)
(* Abstractions: which accounts have a session, not how many; one issuer;  *)
(* names and passwords are left out (a request with a bad one changes      *)
(* nothing).                                                               *)
(***************************************************************************)
EXTENDS Integers

CONSTANTS
  Ids,            \* users.id
  Emails,         \* normalized email addresses
  NoEmail,        \* users.email IS NULL
  Subjects,       \* "sub" claims of the configured issuer
  Threads,        \* goroutines serving requests, and provisioning processes
  NoThread,
  Handlers,       \* bound: Handlers[t], the handlers goroutine t is called for
  Choices         \* bound: the OIDC settings that are saved

ASSUME ThreadsAssumption  == NoThread \notin Threads /\ DOMAIN Handlers = Threads
ASSUME EmailsAssumption   == NoEmail \notin Emails
ASSUME IdsAssumption      == Ids # {} /\ Subjects # {}

VARIABLES
  account,      \* the users table joined with local_credentials
  identities,   \* the oidc_identities table: pairs <<subject, id>>
  signedIn,     \* owners of the rows of the sessions table
  settings,     \* the "oidc" row of the settings table
  lock,         \* holder of the EXCLUSIVE lock on users
  pc,           \* the statement each goroutine executes next
  op,           \* the handler an authenticated goroutine runs
  me,           \* the user a goroutine acts for: a copy of the row
  flow,         \* an OIDC callback's verified subject and copy of settings
  bootstrapped  \* history: accounts created by the setup form

tables  == <<account, identities, signedIn, settings>>
locals  == <<pc, op, me, flow>>
vars    == <<tables, lock, locals, bootstrapped>>

Roles    == {"admin", "user"}
Mails    == Emails \cup {NoEmail}
Accounts == [exists : BOOLEAN, email : Mails, role : Roles,
             disabled : BOOLEAN, local : BOOLEAN]
Settings == [enabled : BOOLEAN, linkByEmail : BOOLEAN, autoProvision : BOOLEAN]

ASSUME ChoicesAssumption == Choices \subseteq Settings

Copies   == [id : Ids, email : Mails, role : Roles, disabled : BOOLEAN]

AnyId      == CHOOSE i \in Ids : TRUE
NoSettings == [enabled |-> FALSE, linkByEmail |-> FALSE, autoProvision |-> FALSE]
NoFlow     == [subject |-> CHOOSE s \in Subjects : TRUE, settings |-> NoSettings]
NoAccount  == [exists |-> FALSE, email |-> NoEmail, role |-> "user",
               disabled |-> FALSE, local |-> FALSE]
Nobody     == [id |-> AnyId, email |-> NoEmail, role |-> "user", disabled |-> FALSE]

AdminForms == {"create", "update", "saveOIDC"}             \* behind requireAdmin
WithForm   == AdminForms \cup {"password", "logout"}       \* behind a session
Labels     == {"new", "lock", "exists", "insert", "session", "csrf", "create",
               "update", "password", "rehash", "logout", "oidcUser", "link",
               "jit", "seed", "saveOIDC"}

Init ==
  /\ account      = [i \in Ids |-> NoAccount]
  /\ identities   = {}
  /\ signedIn     = {}
  /\ settings     = NoSettings
  /\ lock         = NoThread
  /\ pc           = [t \in Threads |-> "new"]
  /\ op           = [t \in Threads |-> "login"]
  /\ me           = [t \in Threads |-> Nobody]
  /\ flow         = [t \in Threads |-> NoFlow]
  /\ bootstrapped = 0

(***************************************************************************)
(* Helpers.                                                                *)
(***************************************************************************)
Existing   == {i \in Ids : account[i].exists}
IsAdmin(a) == a.role = "admin" /\ ~a.disabled
CopyOf(i)  == [id |-> i, email |-> account[i].email, role |-> account[i].role,
               disabled |-> account[i].disabled]

(* users_email_lower_idx: row i may carry email e. *)
Unique(i, e) == e = NoEmail \/ \A j \in Existing \ {i} : account[j].email # e

(* Go on at label on behalf of user u, running handler o. *)
Go(t, label, o, u) ==
  /\ pc' = [pc EXCEPT ![t] = label]
  /\ op' = [op EXCEPT ![t] = o]
  /\ me' = [me EXCEPT ![t] = u]

Goto(t, label) == Go(t, label, op[t], me[t])

(* The response is written and the goroutine serves the next request. *)
Respond(t) ==
  /\ Go(t, "new", "login", Nobody)
  /\ flow' = [flow EXCEPT ![t] = NoFlow]

(* Transactions that write users, or insert a row that references users,   *)
(* wait for BootstrapAdmin's lock.                                         *)
MayWrite == lock = NoThread

(* insertUser: a new id; a duplicate email is ErrConflict. *)
InsertUser(i, e, r, hasPassword) ==
  /\ i \notin Existing /\ Unique(i, e)
  /\ account' = [account EXCEPT ![i] =
                   [exists |-> TRUE, email |-> e, role |-> r,
                    disabled |-> FALSE, local |-> hasPassword]]

(***************************************************************************)
(* setupPost and BootstrapAdmin.                                           *)
(***************************************************************************)
SetupPost(t) ==
  /\ pc[t] = "new" /\ "setup" \in Handlers[t]
  /\ Goto(t, "lock")
  /\ UNCHANGED <<tables, lock, flow, bootstrapped>>

(* Seeded fault: the table is not locked. *)
BootstrapWithoutLock(t) ==
  /\ pc[t] = "lock"
  /\ lock' = t
  /\ Goto(t, "exists")
  /\ UNCHANGED <<tables, flow, bootstrapped>>

BootstrapLock(t) ==
  /\ pc[t] = "lock" /\ lock = NoThread
  /\ lock' = t
  /\ Goto(t, "exists")
  /\ UNCHANGED <<tables, flow, bootstrapped>>

(* Seeded fault: the early return does not roll back. *)
ExistsKeepsLock(t) ==
  /\ pc[t] = "exists"
  /\ IF Existing # {}
     THEN Respond(t)
     ELSE Goto(t, "insert") /\ UNCHANGED flow
  /\ UNCHANGED <<tables, lock, bootstrapped>>

(* The serializable snapshot is taken here, after the lock is held. *)
BootstrapExists(t) ==
  /\ pc[t] = "exists"
  /\ IF Existing # {}
     THEN Respond(t) /\ lock' = NoThread
     ELSE Goto(t, "insert") /\ UNCHANGED <<lock, flow>>
  /\ UNCHANGED <<tables, bootstrapped>>

(* Seeded fault: success is reported for a lost insert. *)
InsertNotCommitted(t) ==
  /\ pc[t] = "insert"
  /\ \E i \in Ids, e \in Mails :
       Go(t, "session", op[t], [CopyOf(i) EXCEPT !.email = e, !.role = "admin"])
  /\ lock' = NoThread
  /\ bootstrapped' = bootstrapped + 1
  /\ UNCHANGED <<tables, flow>>

BootstrapInsert(t) ==
  /\ pc[t] = "insert"
  /\ \E i \in Ids, e \in Mails :
       /\ InsertUser(i, e, "admin", TRUE)
       /\ Go(t, "session", op[t], [CopyOf(i) EXCEPT !.email = e, !.role = "admin"])
  /\ lock' = NoThread
  /\ bootstrapped' = bootstrapped + 1
  /\ UNCHANGED <<identities, signedIn, settings, flow>>

(* NewSession, at the end of setup, login and OIDC callback.  It does not  *)
(* look at users.disabled; Session does, on every use.                     *)
NewSession(t) ==
  /\ pc[t] = "session" /\ MayWrite
  /\ signedIn' = signedIn \cup {me[t].id}
  /\ Respond(t)
  /\ UNCHANGED <<account, identities, settings, lock, bootstrapped>>

(***************************************************************************)
(* loginPost; the session middleware; the handlers behind it.              *)
(***************************************************************************)
LoginPost(t, i) ==
  /\ pc[t] = "new" /\ "login" \in Handlers[t]
  /\ i \in Existing /\ account[i].local /\ ~account[i].disabled
  /\ Go(t, "session", "login", CopyOf(i))
  /\ UNCHANGED <<tables, lock, flow, bootstrapped>>

(* The row a session resolves to, if any. *)
Session(i) == i \in signedIn /\ ~account[i].disabled

(* Middleware reads the user; requireAdmin looks at that copy. *)
Middleware(t, i, o) ==
  /\ pc[t] = "new" /\ o \in Handlers[t] \cap WithForm
  /\ Session(i)
  /\ o \in AdminForms => IsAdmin(account[i])
  /\ Go(t, "csrf", o, CopyOf(i))
  /\ UNCHANGED <<tables, lock, flow, bootstrapped>>

(* CSRFValid resolves the session again, for its csrf_hash only. *)
CSRFValid(t) ==
  /\ pc[t] = "csrf"
  /\ IF Session(me[t].id)
     THEN Goto(t, op[t]) /\ UNCHANGED flow
     ELSE Respond(t)
  /\ UNCHANGED <<tables, lock, bootstrapped>>

CreateUser(t) ==
  /\ pc[t] = "create" /\ MayWrite
  /\ \/ \E i \in Ids, e \in Mails, r \in Roles : InsertUser(i, e, r, TRUE)
     \/ UNCHANGED account                     \* ErrConflict
  /\ Respond(t)
  /\ UNCHANGED <<identities, signedIn, settings, lock, bootstrapped>>

(* The row as UpdateUser leaves it; setPassword when there is a new hash. *)
Updated(a, e, r, d, setPassword) ==
  [a EXCEPT !.email = e, !.role = r, !.disabled = d, !.local = @ \/ setPassword]

(* Seeded fault: no check of the own account. *)
AllowedUnguarded(t, i, r, d) == TRUE

(* "an administrator cannot disable or demote their own account" *)
Allowed(t, i, r, d) == i = me[t].id => r = "admin" /\ ~d

UpdateUser(t) ==
  /\ pc[t] = "update" /\ MayWrite
  /\ \/ \E i \in Existing, e \in Mails, r \in Roles, d, p \in BOOLEAN :
          /\ Allowed(t, i, r, d) /\ Unique(i, e)
          /\ account' = [account EXCEPT ![i] = Updated(@, e, r, d, p)]
     \/ UNCHANGED account                     \* refused, or a duplicate email
  /\ Respond(t)
  /\ UNCHANGED <<identities, signedIn, settings, lock, bootstrapped>>

(* changePassword: AuthenticateLocal reads the row again, but only its     *)
(* hash and id are used; then two Argon2 computations ...                  *)
ChangePassword(t) ==
  /\ pc[t] = "password"
  /\ IF account[me[t].id].local
     THEN Goto(t, "rehash") /\ UNCHANGED flow
     ELSE Respond(t)
  /\ UNCHANGED <<tables, lock, bootstrapped>>

(* ... and UpdateUser with the profile of the context's copy. *)
StorePassword(t) ==
  LET i == me[t].id IN
  /\ pc[t] = "rehash" /\ MayWrite
  /\ IF Unique(i, me[t].email)
     THEN account' = [account EXCEPT ![i] =
                        Updated(@, me[t].email, me[t].role, me[t].disabled, TRUE)]
     ELSE UNCHANGED account
  /\ Respond(t)
  /\ UNCHANGED <<identities, signedIn, settings, lock, bootstrapped>>

(* saveOIDC: the runtime settings of OIDC login. *)
SaveOIDC(t) ==
  /\ pc[t] = "saveOIDC" /\ MayWrite
  /\ settings' \in Choices
  /\ Respond(t)
  /\ UNCHANGED <<account, identities, signedIn, lock, bootstrapped>>

(* Another session of the account may remain. *)
Logout(t) ==
  /\ pc[t] = "logout"
  /\ signedIn' = signedIn \ {me[t].id} \/ signedIn' = signedIn
  /\ Respond(t)
  /\ UNCHANGED <<account, identities, settings, lock, bootstrapped>>

SessionExpires(i) ==
  /\ i \in signedIn
  /\ signedIn' = signedIn \ {i}
  /\ UNCHANGED <<account, identities, settings, lock, locals, bootstrapped>>

(***************************************************************************)
(* The OIDC callback, from a verified subject and email on.                *)
(***************************************************************************)
Callback(t, s, e) ==
  /\ pc[t] = "new" /\ "oidc" \in Handlers[t] /\ settings.enabled
  /\ flow' = [flow EXCEPT ![t] = [subject |-> s, settings |-> settings]]
  /\ Go(t, "oidcUser", "login", [Nobody EXCEPT !.email = e])
  /\ UNCHANGED <<tables, lock, bootstrapped>>

(* Where the callback goes when no identity and no account was found. *)
Unknown(t) ==
  IF flow[t].settings.autoProvision
  THEN Goto(t, "jit") /\ UNCHANGED flow
  ELSE Respond(t)

OIDCUser(t) ==
  LET known == {i \in Ids : <<flow[t].subject, i>> \in identities} IN
  /\ pc[t] = "oidcUser"
  /\ \/ \E i \in known : Go(t, "session", op[t], CopyOf(i)) /\ UNCHANGED flow
     \/ known = {} /\ flow[t].settings.linkByEmail /\ Goto(t, "link") /\ UNCHANGED flow
     \/ known = {} /\ ~flow[t].settings.linkByEmail /\ Unknown(t)
  /\ UNCHANGED <<tables, lock, bootstrapped>>

(* A disabled account is not found; an account that has an identity, or a  *)
(* subject that was linked meanwhile, is a conflict.                       *)
LinkOIDCUserByEmail(t) ==
  LET found == {i \in Existing : account[i].email = me[t].email /\ ~account[i].disabled}
      taken(i) == \E x \in identities : x[1] = flow[t].subject \/ x[2] = i IN
  /\ pc[t] = "link"
  /\ \/ /\ found = {} /\ Unknown(t)
        /\ UNCHANGED identities
     \/ \E i \in found :
          IF taken(i)
          THEN Respond(t) /\ UNCHANGED identities
          ELSE /\ MayWrite
               /\ identities' = identities \cup {<<flow[t].subject, i>>}
               /\ Go(t, "session", op[t], CopyOf(i)) /\ UNCHANGED flow
  /\ UNCHANGED <<account, signedIn, settings, lock, bootstrapped>>

(* The role comes from the groups claim; both rows or none. *)
ProvisionOIDCUser(t) ==
  /\ pc[t] = "jit" /\ MayWrite
  /\ \/ \E i \in Ids, r \in Roles :
          /\ \A x \in identities : x[1] # flow[t].subject
          /\ InsertUser(i, me[t].email, r, FALSE)
          /\ identities' = identities \cup {<<flow[t].subject, i>>}
          /\ Go(t, "session", op[t],
                [CopyOf(i) EXCEPT !.role = r, !.email = me[t].email])
          /\ UNCHANGED flow
     \/ Respond(t) /\ UNCHANGED <<account, identities>>   \* conflict
  /\ UNCHANGED <<signedIn, settings, lock, bootstrapped>>

(***************************************************************************)
(* The provisioning command.                                               *)
(***************************************************************************)

(* ListUsers; the actor is an enabled administrator, the oldest in the     *)
(* code, any here.                                                         *)
ProvisionRun(t, i) ==
  /\ pc[t] = "new" /\ "provision" \in Handlers[t]
  /\ i \in Existing /\ IsAdmin(account[i])
  /\ Go(t, "seed", "login", CopyOf(i))
  /\ UNCHANGED <<tables, lock, flow, bootstrapped>>

(* The role and disabled flag ProvisionUser writes for seed r, d. *)
SeedFor(t, i, r, d) ==
  IF i = me[t].id THEN [role |-> "admin", disabled |-> FALSE]
  ELSE [role |-> r, disabled |-> d]

(* One entry of the manifest; its workspace configuration goes to a table  *)
(* of its own (see Controller).                                            *)
ProvisionUser(t) ==
  /\ pc[t] = "seed" /\ MayWrite
  /\ \E e \in Emails, r \in Roles, d \in BOOLEAN :
       \/ \E i \in Existing :
            /\ account[i].email = e
            /\ account' = [account EXCEPT ![i].role = SeedFor(t, i, r, d).role,
                             ![i].disabled = SeedFor(t, i, r, d).disabled]
       \/ \E i \in Ids \ Existing :
            /\ Unique(i, e)
            /\ account' = [account EXCEPT ![i] =
                 [exists |-> TRUE, email |-> e, role |-> r, disabled |-> d,
                  local |-> FALSE]]
  /\ UNCHANGED <<identities, signedIn, settings, lock, locals, bootstrapped>>

(* The manifest's "oidc" section, after its last user. *)
ProvisionOIDC(t) ==
  /\ pc[t] = "seed" /\ MayWrite
  /\ settings' \in Choices
  /\ Respond(t)
  /\ UNCHANGED <<account, identities, signedIn, lock, bootstrapped>>

(* The client goes away, a statement fails or the manifest ends: the       *)
(* handler returns, an open transaction is rolled back.                    *)
Abort(t) ==
  /\ pc[t] # "new"
  /\ lock' = IF lock = t THEN NoThread ELSE lock
  /\ Respond(t)
  /\ UNCHANGED <<tables, bootstrapped>>

(***************************************************************************)
(* The specification.                                                      *)
(***************************************************************************)
Bootstrap(t) == BootstrapLock(t) \/ BootstrapExists(t) \/ BootstrapInsert(t)

Step(t) ==
  \/ Bootstrap(t) \/ NewSession(t) \/ CSRFValid(t)
  \/ CreateUser(t) \/ UpdateUser(t) \/ ChangePassword(t) \/ StorePassword(t)
  \/ SaveOIDC(t) \/ Logout(t)
  \/ OIDCUser(t) \/ LinkOIDCUserByEmail(t) \/ ProvisionOIDCUser(t)
  \/ ProvisionUser(t) \/ ProvisionOIDC(t) \/ Abort(t)

Arrive(t) ==
  \/ SetupPost(t)
  \/ \E i \in Ids : LoginPost(t, i) \/ ProvisionRun(t, i)
  \/ \E i \in Ids, o \in WithForm : Middleware(t, i, o)
  \/ \E s \in Subjects, e \in Emails : Callback(t, s, e)

Next ==
  \/ \E t \in Threads : Arrive(t) \/ Step(t)
  \/ \E i \in Ids : SessionExpires(i)

(* A transaction that holds the lock goes on: its statements return, with  *)
(* a result or with an error.                                              *)
Fairness ==
  \A t \in Threads :
    WF_vars(lock = t /\ (BootstrapExists(t) \/ BootstrapInsert(t) \/ Abort(t)))

Spec     == Init /\ [][Next]_vars
FairSpec == Spec /\ Fairness

(***************************************************************************)
(* Properties.                                                             *)
(***************************************************************************)

(* Every variable has its type, and whoever is signed in or has an         *)
(* identity has an account.                                                *)
TypeOK ==
  /\ account      \in [Ids -> Accounts]
  /\ identities   \subseteq Subjects \X Existing
  /\ signedIn     \subseteq Existing
  /\ lock         \in Threads \cup {NoThread}
  /\ pc           \in [Threads -> Labels]
  /\ op           \in [Threads -> {"login"} \cup WithForm]
  /\ me           \in [Threads -> Copies]
  /\ flow         \in [Threads -> [subject : Subjects, settings : Settings]]
  /\ settings     \in Settings
  /\ bootstrapped \in Nat

(* However many setup forms are submitted at the same moment, whichever of *)
(* them is cut off half way, exactly one of them creates the first account.*)
SingleBootstrap ==
  /\ bootstrapped <= 1
  /\ bootstrapped = 0 => Existing = {}

(* The lock on the users table is always given back, so a rejected or cut  *)
(* off setup never stops later logins, callbacks and updates.              *)
LockReleased == lock # NoThread ~> lock = NoThread

AdminRemains == Existing # {} => \E i \in Existing : IsAdmin(account[i])

(* A handler about to write users for somebody whose row has changed since *)
(* the handler read it.                                                    *)
Overtaken(t) ==
  pc[t] \in {"update", "rehash", "seed"} /\ me[t] # CopyOf(me[t].id)

(* The installation loses its last enabled administrator only to a step of *)
(* a handler whose own user another one changed in the meantime:           *)
(* administrators who act on current rows never lock everybody out,        *)
(* through the admin screens, password changes, OIDC logins and            *)
(* provisioning in any order and however they overlap (adminUpdateUser's   *)
(* check of the own account, provision's of its actor).                    *)
LastAdminKept ==
  [][AdminRemains => AdminRemains' \/ \E t \in Threads : Overtaken(t) /\ Step(t)]_vars

(* docs/authentication.mdx: "An administrator cannot disable or demote     *)
(* their own account."  No request takes the administrator role from the   *)
(* account on whose behalf it runs.                                        *)
NoSelfDemotion ==
  [][\A t \in Threads : LET i == me[t].id IN
       pc[t] # "new" /\ pc'[t] # pc[t] /\ IsAdmin(account[i]) =>
         IsAdmin(account'[i])]_vars
=============================================================================
