------------------------------- MODULE Provision -------------------------------
(***************************************************************************)
(* The provisioning command (cmd/provision/main.go): a manifest is applied *)
(* entry by entry, two transactions to an entry (Store.ProvisionUser and   *)
(* SetWorkspaceConfiguration, internal/database/database.go).  It may be   *)
(* cut off between any two of them and is then run again; several runs,    *)
(* with manifests of their own, and the console may overlap.               *)
(*                                                                         *)
(* An account is named after its normalized email; an entry that does not  *)
(* pass the syntactic checks ends a run as any error does.                 *)
(***************************************************************************)
EXTENDS Integers, SequencesExt

CONSTANTS
  Emails,
  Bootstrapped,   \* email of the account the setup form created
  Names,          \* user names
  AdminName,      \* the bootstrapped account's
  Contents,       \* managed configurations: document and API key
  NoContent,      \* no row in workspace_configurations
  Runs,           \* processes of the command
  Manifest,       \* run -> sequence of entries
  ConsoleEdits,   \* bound: accounts administrators edit on the console
  MaxFailures     \* bound: statements that fail and processes that die

Roles   == {"admin", "user"}
Account == [name : Names, role : Roles, disabled : BOOLEAN]
Entry   == [email : Emails, name : Names, role : Roles, disabled : BOOLEAN,
            content : Contents]

ASSUME ProvisionAssumption ==
  /\ AdminName \in Names
  /\ Bootstrapped \in Emails /\ Bootstrapped \notin ConsoleEdits
  /\ NoContent \notin Contents /\ MaxFailures \in Nat
  /\ \A r \in Runs : Manifest[r] \in Seq(Entry)

VARIABLES
  created,        \* emails of the users table, in the order of created_at
  account,        \* their rows
  configuration,  \* the workspace_configurations table
  pc,             \* each run: idle, actor, user, configure or done
  actor,          \* the administrator each run acts for
  at,             \* the entry each run is at
  failures,
  alone           \* history: runs that nothing else has overlapped so far

tables == <<created, account, configuration>>
vars   == <<tables, pc, actor, at, failures, alone>>

Nobody == "nobody"

(* After the setup form; provisioning needs an administrator to act for.   *)
Init ==
  /\ created = <<Bootstrapped>>
  /\ account = [e \in Emails |-> [name |-> AdminName, role |-> "admin",
                                  disabled |-> FALSE]]
  /\ configuration = [e \in Emails |-> NoContent]
  /\ pc    = [r \in Runs |-> "idle"]
  /\ actor = [r \in Runs |-> Nobody]
  /\ at    = [r \in Runs |-> 1]
  /\ failures = 0
  /\ alone = {}

Existing   == ToSet(created)
IsAdmin(e) == e \in Existing /\ account[e].role = "admin" /\ ~account[e].disabled
Active     == {r \in Runs : pc[r] \in {"actor", "user", "configure"}}

Goto(r, l) == pc' = [pc EXCEPT ![r] = l]

(* Migrated, and the manifest is read. *)
Begin(r) ==
  /\ pc[r] = "idle"
  /\ Goto(r, "actor")
  /\ at' = [at EXCEPT ![r] = 1]
  /\ alone' = IF Active = {} THEN {r} ELSE {}
  /\ UNCHANGED <<tables, actor, failures>>

(* Seeded fault: the loop goes on to the last, the newest administrator.   *)
FindActorNewest(r) ==
  /\ pc[r] = "actor"
  /\ IF \E e \in Existing : IsAdmin(e)
       THEN /\ Goto(r, "user")
            /\ \E i \in DOMAIN created :
                 /\ IsAdmin(created[i])
                 /\ \A j \in DOMAIN created : j > i => ~IsAdmin(created[j])
                 /\ actor' = [actor EXCEPT ![r] = created[i]]
       ELSE Goto(r, "idle") /\ UNCHANGED actor
  /\ UNCHANGED <<tables, at, failures, alone>>

(* ListUsers by created_at, and a loop that stops at the first, the oldest *)
(* enabled administrator; without one the run ends with an error.          *)
FindActor(r) ==
  /\ pc[r] = "actor"
  /\ IF \E e \in Existing : IsAdmin(e)
       THEN /\ Goto(r, "user")
            /\ \E i \in DOMAIN created :
                 /\ IsAdmin(created[i])
                 /\ \A j \in DOMAIN created : j < i => ~IsAdmin(created[j])
                 /\ actor' = [actor EXCEPT ![r] = created[i]]
       ELSE Goto(r, "idle") /\ UNCHANGED actor
  /\ UNCHANGED <<tables, at, failures, alone>>

(* The row ProvisionUser leaves for an entry: the actor stays an enabled   *)
(* administrator. *)
RowFor(r, e) ==
  [name |-> e.name,
   role |-> IF e.email = actor[r] THEN "admin" ELSE e.role,
   disabled |-> e.email # actor[r] /\ e.disabled]

(* users_username_lower_idx *)
NameFree(e) == \A f \in Existing \ {e.email} : account[f].name # e.name

Fault == failures < MaxFailures /\ failures' = failures + 1

(* Seeded fault: an account that exists is a conflict. *)
ProvisionUserInsertOnly(r) ==
  LET e == Manifest[r][at[r]] IN
  /\ pc[r] = "user" /\ at[r] <= Len(Manifest[r])
  /\ IF NameFree(e) /\ e.email \notin Existing
       THEN /\ account' = [account EXCEPT ![e.email] = RowFor(r, e)]
            /\ created' = Append(created, e.email)
            /\ Goto(r, "configure")
       ELSE Goto(r, "idle") /\ UNCHANGED <<created, account>>
  /\ UNCHANGED <<configuration, actor, at, failures, alone>>

(* Seeded fault: an account that exists is inserted once more. *)
ProvisionUserDuplicates(r) ==
  LET e == Manifest[r][at[r]] IN
  /\ pc[r] = "user" /\ at[r] <= Len(Manifest[r])
  /\ IF NameFree(e)
       THEN /\ account' = [account EXCEPT ![e.email] = RowFor(r, e)]
            /\ created' = Append(created, e.email)
            /\ Goto(r, "configure")
       ELSE Goto(r, "idle") /\ UNCHANGED <<created, account>>
  /\ UNCHANGED <<configuration, actor, at, failures, alone>>

(* Update or insert; a user name that another account has ends the run. *)
ProvisionUser(r) ==
  LET e == Manifest[r][at[r]] IN
  /\ pc[r] = "user" /\ at[r] <= Len(Manifest[r])
  /\ IF NameFree(e)
       THEN /\ account' = [account EXCEPT ![e.email] = RowFor(r, e)]
            /\ created' = IF e.email \in Existing THEN created
                                                  ELSE Append(created, e.email)
            /\ Goto(r, "configure")
       ELSE Goto(r, "idle") /\ UNCHANGED <<created, account>>
  /\ UNCHANGED <<configuration, actor, at, failures, alone>>

(* Seeded fault: ON CONFLICT DO NOTHING. *)
ConfigureOnce(r) ==
  LET e == Manifest[r][at[r]] IN
  /\ pc[r] = "configure"
  /\ configuration' = [configuration EXCEPT ![e.email] =
                         IF @ = NoContent THEN e.content ELSE @]
  /\ at' = [at EXCEPT ![r] = @ + 1]
  /\ Goto(r, "user")
  /\ UNCHANGED <<created, account, actor, failures, alone>>

(* SetWorkspaceConfiguration; the revision it bumps is in Controller. *)
Configure(r) ==
  LET e == Manifest[r][at[r]] IN
  /\ pc[r] = "configure"
  /\ configuration' = [configuration EXCEPT ![e.email] = e.content]
  /\ at' = [at EXCEPT ![r] = @ + 1]
  /\ Goto(r, "user")
  /\ UNCHANGED <<created, account, actor, failures, alone>>

(* The OIDC section is in Settings; the summary is printed. *)
Finish(r) ==
  /\ pc[r] = "user" /\ at[r] > Len(Manifest[r])
  /\ Goto(r, "done")
  /\ UNCHANGED <<tables, actor, at, failures, alone>>

(* A statement fails and rolls back, or the process dies. *)
CutOff(r) ==
  /\ r \in Active /\ Fault
  /\ Goto(r, "idle")
  /\ UNCHANGED <<tables, actor, at, alone>>

(* Another administrator's form, on the console; it keeps the email.       *)
UpdateUser(e) ==
  /\ e \in Existing \cap ConsoleEdits
  /\ \E role \in Roles, d \in BOOLEAN :
       account' = [account EXCEPT ![e].role = role, ![e].disabled = d]
  /\ alone' = {}
  /\ UNCHANGED <<created, configuration, pc, actor, at, failures>>

Proceed(r) ==
  Begin(r) \/ FindActor(r) \/ ProvisionUser(r) \/ Configure(r) \/ Finish(r)

Next ==
  \/ \E r \in Runs : Proceed(r) \/ CutOff(r)
  \/ \E e \in Emails : UpdateUser(e)

Spec == Init /\ [][Next]_vars

(* A run goes on, and is started again by its operator until it succeeds. *)
FairSpec == Spec /\ \A r \in Runs : WF_vars(Proceed(r))

-------------------------------------------------------------------------------

TypeOK ==
  /\ created \in Seq(Emails) /\ IsInjective(created)
  /\ account \in [Emails -> Account]
  /\ configuration \in [Emails -> Contents \cup {NoContent}]
  /\ pc \in [Runs -> {"idle", "actor", "user", "configure", "done"}]
  /\ actor \in [Runs -> Emails \cup {Nobody}]
  /\ \A r \in Runs : at[r] \in 1..(Len(Manifest[r]) + 1)
  /\ failures \in 0..MaxFailures /\ alone \subseteq Runs

(* docs/workspace-provisioning.mdx:57: "the separately bootstrapped        *)
(* administrator remains a recovery-capable local account", whatever role  *)
(* manifests give that email and whichever administrators they make or     *)
(* unmake (provision/main.go:83-92, database.go:273-276).                  *)
RecoveryAdminRemains == IsAdmin(Bootstrapped)

(* The first n entries have no other one after i for its email. *)
LastFor(r, i, n) == \A j \in (i + 1)..n : Manifest[r][j].email # Manifest[r][i].email

(* A run that ends well has left every account and configuration as the    *)
(* last entry for its email says, if nobody else wrote in the meantime,    *)
(* however often and wherever it was cut off before (main.go:98-117).      *)
Applied(r) ==
  \A i \in DOMAIN Manifest[r] : LET e == Manifest[r][i] IN
    LastFor(r, i, Len(Manifest[r])) =>
      /\ e.email \in Existing /\ account[e.email] = RowFor(r, e)
      /\ configuration[e.email] = e.content

DoneMeansApplied == \A r \in alone : pc[r] = "done" => Applied(r)

(* Being cut off does no lasting harm: run again, a manifest goes through. *)
(* docs/workspace-provisioning.mdx:57: "Existing account roles, enabled    *)
(* state, profile fields, and managed workspace configuration are          *)
(* updated".                                                               *)
EventuallyDone == \A r \in Runs : <>(pc[r] = "done")
=============================================================================
