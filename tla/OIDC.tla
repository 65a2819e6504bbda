---------------------------------- MODULE OIDC ----------------------------------
(***************************************************************************)
(* OIDC login (internal/oidc/oidc.go) from the redirect to the session,    *)
(* with the settings changing under it (module Settings), several tabs of  *)
(* a browser sharing one flow cookie, and the identities that logins leave *)
(* in the database (internal/database/database.go).                        *)
(*                                                                         *)
(* A person has the same verified email at every issuer; a subject is only *)
(* unique within its issuer, and a person may come to have a second one    *)
(* there.  An account is named after the person whose email it carries;    *)
(* administrators do not give it to another person, and its role is left   *)
(* to module Accounts.                                                     *)
(* State, nonce and PKCE verifier are drawn together and kept together in  *)
(* the cookie: a flow's number stands for all three.                       *)
(***************************************************************************)
EXTENDS Settings

CONSTANTS
  People,
  Nobody,
  Tabs,
  BrowserOf,    \* tab -> the browser it belongs to
  SubjectsOf,   \* issuer -> person -> the person's subjects there
  UserName,     \* person -> safeUsername of the claims
  Registered,   \* issuer -> the secret it knows this client by
  Managed,      \* bound: people whose accounts administrators make and disable
  MaxFlows      \* bound: logins begun

ASSUME OIDCAssumption ==
  /\ Nobody \notin People /\ Managed \subseteq People
  /\ DOMAIN BrowserOf = Tabs /\ MaxFlows \in Nat
  /\ \A i \in Issuers : \A p, q \in People :
       p # q => SubjectsOf[i][p] \cap SubjectsOf[i][q] = {}

VARIABLES
  accounts,     \* people who have an account
  disabled,     \* those whose account is disabled
  identities,   \* the oidc_identities table
  cookie,       \* browser -> the flow in its cookie; 0: none, or expired
  flows,        \* flows begun
  tab,          \* what each tab is at, and its request's local state
  seen          \* history: who showed which subject to which issuer

login    == <<accounts, disabled, identities, cookie, flows, tab, seen>>
oidcVars == <<settingsVars, login>>

Browsers    == {BrowserOf[t] : t \in Tabs}
AllSubjects == UNION {SubjectsOf[i][p] : i \in Issuers, p \in People}

(* Somebody can sign in somewhere. *)
ASSUME SubjectsAssumption == AllSubjects # {}

AnySubject  == CHOOSE s \in AllSubjects : TRUE

Blank == [at |-> "blank", flow |-> 0, issuer |-> NoIssuer, person |-> Nobody,
          subject |-> AnySubject, fresh |-> FALSE, copy |-> NoSettings,
          account |-> Nobody]

OIDCInit ==
  /\ SettingsInit
  /\ accounts = {} /\ disabled = {} /\ identities = {}
  /\ cookie = [b \in Browsers |-> 0]
  /\ flows = 0
  /\ tab = [t \in Tabs |-> Blank]
  /\ seen = {}

At(t, l)   == tab[t].at = l
Goto(t, l) == tab' = [tab EXCEPT ![t].at = l]

(* The response is written; the request's copies are gone. *)
Respond(t) ==
  tab' = [tab EXCEPT ![t].at = "done", ![t].copy = NoSettings, ![t].account = Nobody]

(***************************************************************************)
(* The browser and the provider.                                           *)
(***************************************************************************)

(* Manager.Start: a new flow, in a cookie that replaces the one before. *)
Start(t) ==
  /\ tab[t].at \in {"blank", "done"} /\ flows < MaxFlows
  /\ settings.enabled /\ Configured(settings)
  /\ flows' = flows + 1
  /\ cookie' = [cookie EXCEPT ![BrowserOf[t]] = flows + 1]
  /\ tab' = [tab EXCEPT ![t] = [Blank EXCEPT !.at = "provider", !.flow = flows + 1,
                                             !.issuer = settings.issuer]]
  /\ UNCHANGED <<settingsVars, accounts, disabled, identities, seen>>

(* Ten minutes after its Start. *)
FlowExpires(b) ==
  /\ cookie[b] # 0
  /\ cookie' = [cookie EXCEPT ![b] = 0]
  /\ UNCHANGED <<settingsVars, accounts, disabled, identities, flows, tab, seen>>

(* The provider sends the browser back with a code for this flow. *)
Authenticate(t, p, s) ==
  /\ At(t, "provider") /\ s \in SubjectsOf[tab[t].issuer][p]
  /\ tab' = [tab EXCEPT ![t].at = "return", ![t].person = p, ![t].subject = s,
                        ![t].fresh = TRUE]
  /\ seen' = seen \cup {<<tab[t].issuer, s, p>>}
  /\ UNCHANGED <<settingsVars, accounts, disabled, identities, cookie, flows>>

(* The callback's URL is loaded again, or the provider's page is. *)
Again(t) ==
  /\ At(t, "done")
  /\ Goto(t, "return") \/ Goto(t, "provider")
  /\ UNCHANGED <<settingsVars, accounts, disabled, identities, cookie, flows, seen>>

(***************************************************************************)
(* Manager.Callback.                                                       *)
(***************************************************************************)

(* The cookie's flow must be the one in the URL; then one copy of the      *)
(* settings serves the whole request.                                      *)
Callback(t) ==
  /\ At(t, "return")
  /\ IF /\ cookie[BrowserOf[t]] = tab[t].flow
        /\ settings.enabled /\ Configured(settings)
       THEN tab' = [tab EXCEPT ![t].at = "exchange", ![t].copy = settings]
       ELSE Respond(t)
  /\ UNCHANGED <<settingsVars, accounts, disabled, identities, cookie, flows, seen>>

(* The issuer redeems its own code, once, for a client with its secret and *)
(* the flow's verifier; the ID token has the flow's nonce.                 *)
Redeems(r) ==
  r.fresh /\ r.copy.issuer = r.issuer /\ r.copy.secret = Registered[r.issuer]

(* The claims are accepted, or they lack a verified email of a domain that *)
(* is allowed at the moment; in both cases the code is used up.            *)
Exchange(t) ==
  LET r == tab[t] IN
  /\ At(t, "exchange")
  /\ \/ /\ Redeems(r)
        /\ tab' = [tab EXCEPT ![t].at = "oidcUser", ![t].fresh = FALSE]
     \/ /\ Redeems(r)
        /\ tab' = [tab EXCEPT ![t] = [r EXCEPT !.at = "done", !.fresh = FALSE,
                                               !.copy = NoSettings]]
     \/ ~Redeems(r) /\ Respond(t)
  /\ UNCHANGED <<settingsVars, accounts, disabled, identities, cookie, flows, seen>>

(* Seeded fault: identities are looked up by subject alone. *)
KnownBySubject(t) == {x \in identities : x.subject = tab[t].subject}

Known(t) == {x \in identities : x.issuer = tab[t].copy.issuer /\ x.subject = tab[t].subject}

(* Neither an identity nor an account to link was found. *)
Unknown(t) == IF tab[t].copy.autoProvision THEN Goto(t, "jit") ELSE Respond(t)

SignIn(t, a) == tab' = [tab EXCEPT ![t].at = "session", ![t].account = a]

OIDCUser(t) ==
  /\ At(t, "oidcUser")
  /\ \/ \E x \in Known(t) : SignIn(t, x.account)
     \/ Known(t) = {} /\ tab[t].copy.linkByEmail  /\ Goto(t, "link")
     \/ Known(t) = {} /\ ~tab[t].copy.linkByEmail /\ Unknown(t)
  /\ UNCHANGED <<settingsVars, accounts, disabled, identities, cookie, flows, seen>>

(* LinkOIDCUserByEmail: the account with the email, unless disabled ...    *)
LinkSelect(t) ==
  LET p == tab[t].person IN
  /\ At(t, "link")
  /\ IF p \in accounts \ disabled
       THEN tab' = [tab EXCEPT ![t].at = "linkInsert", ![t].account = p]
       ELSE Unknown(t)
  /\ UNCHANGED <<settingsVars, accounts, disabled, identities, cookie, flows, seen>>

(* Seeded fault: the settings are read again for the identity's issuer. *)
IdentityReread(t, a) ==
  [issuer |-> settings.issuer, subject |-> tab[t].subject, account |-> a]

Identity(t, a) ==
  [issuer |-> tab[t].copy.issuer, subject |-> tab[t].subject, account |-> a]

(* Seeded fault: without oidc_identities_issuer_user_unique. *)
ConflictsBySubject(x) ==
  \E y \in identities : y.issuer = x.issuer /\ y.subject = x.subject

(* The primary key, and oidc_identities_issuer_user_unique. *)
Conflicts(x) ==
  \E y \in identities :
    y.issuer = x.issuer /\ (y.subject = x.subject \/ y.account = x.account)

(* ... and its identity, in a second statement of the transaction. *)
LinkInsert(t) ==
  LET x == Identity(t, tab[t].account) IN
  /\ At(t, "linkInsert")
  /\ IF Conflicts(x)
       THEN Respond(t) /\ UNCHANGED identities
       ELSE identities' = identities \cup {x} /\ Goto(t, "session")
  /\ UNCHANGED <<settingsVars, accounts, disabled, cookie, flows, seen>>

(* insertUser: neither the email nor the user name may be taken. *)
MayInsert(p) == \A q \in accounts : q # p /\ UserName[q] # UserName[p]

(* Both rows or none. *)
ProvisionOIDCUser(t) ==
  LET p == tab[t].person
      x == Identity(t, p) IN
  /\ At(t, "jit")
  /\ IF MayInsert(p) /\ ~Conflicts(x)
       THEN /\ accounts' = accounts \cup {p}
            /\ identities' = identities \cup {x}
            /\ SignIn(t, p)
       ELSE Respond(t) /\ UNCHANGED <<accounts, identities>>
  /\ UNCHANGED <<settingsVars, disabled, cookie, flows, seen>>

(* oidcCallback creates the session (see Accounts). *)
NewSession(t) ==
  /\ At(t, "session")
  /\ Respond(t)
  /\ UNCHANGED <<settingsVars, accounts, disabled, identities, cookie, flows, seen>>

(* A statement or a call fails, or the client goes away; what was not      *)
(* committed is rolled back.                                               *)
Fail(t) ==
  /\ tab[t].at \in {"exchange", "oidcUser", "link", "linkInsert", "jit", "session"}
  /\ Respond(t)
  /\ UNCHANGED <<settingsVars, accounts, disabled, identities, cookie, flows, seen>>

(***************************************************************************)
(* Administrators.                                                         *)
(***************************************************************************)

(* Pre-provisioned by the console or a manifest. *)
ProvisionUser(p) ==
  /\ MayInsert(p)
  /\ accounts' = accounts \cup {p}
  /\ UNCHANGED <<settingsVars, disabled, identities, cookie, flows, tab, seen>>

(* Seeded fault: the form of an account that does not exist is accepted. *)
SetDisabledAnyone(p) ==
  /\ disabled' = IF p \in disabled THEN disabled \ {p} ELSE disabled \cup {p}
  /\ UNCHANGED <<settingsVars, accounts, identities, cookie, flows, tab, seen>>

SetDisabled(p) ==
  /\ p \in accounts
  /\ disabled' = IF p \in disabled THEN disabled \ {p} ELSE disabled \cup {p}
  /\ UNCHANGED <<settingsVars, accounts, identities, cookie, flows, tab, seen>>

OIDCNext ==
  \/ \E t \in Tabs :
       \/ Start(t) \/ Again(t)
       \/ \E p \in People, s \in AllSubjects : Authenticate(t, p, s)
       \/ Callback(t) \/ Exchange(t) \/ OIDCUser(t) \/ LinkSelect(t)
       \/ LinkInsert(t) \/ ProvisionOIDCUser(t) \/ NewSession(t) \/ Fail(t)
  \/ \E b \in Browsers : FlowExpires(b)
  \/ \E p \in Managed : ProvisionUser(p) \/ SetDisabled(p)
  \/ SettingsNext /\ UNCHANGED login

OIDCSpec == OIDCInit /\ [][OIDCNext]_oidcVars

-------------------------------------------------------------------------------

Steps == {"blank", "provider", "return", "exchange", "oidcUser", "link",
          "linkInsert", "jit", "session", "done"}

OIDCTypeOK ==
  /\ SettingsTypeOK
  /\ accounts \subseteq People /\ disabled \subseteq accounts
  /\ identities \subseteq [issuer : Issuers, subject : AllSubjects, account : accounts]
  /\ cookie \in [Browsers -> 0..flows] /\ flows \in 0..MaxFlows
  /\ tab \in [Tabs -> [at : Steps, flow : 0..flows, issuer : Issuers \cup {NoIssuer},
                       person : People \cup {Nobody}, subject : AllSubjects,
                       fresh : BOOLEAN, copy : SettingsType,
                       account : accounts \cup {Nobody}]]

(* Whatever the settings, the other tabs, reloads and administrators do in *)
(* the meantime, a login ends in the account of the person who signed in   *)
(* at the provider (oidc.go:118-192; database.go:539-589).                 *)
OwnAccount == \A t \in Tabs : At(t, "session") => tab[t].account = tab[t].person

(* An identity says what its issuer vouched for: this subject is the owner *)
(* of this account's email, although the issuer may be changed between     *)
(* Start and Callback and during a callback.                               *)
VouchedFor == \A x \in identities : <<x.issuer, x.subject, x.account>> \in seen

(* docs/authentication.mdx:47: "The unique issuer-to-user constraint       *)
(* prevents a second subject from silently replacing an established        *)
(* identity."  Nor do two first logins at the same moment.                 *)
FirstSubjectStays ==
  \A t \in Tabs : At(t, "session") =>
    {x.subject : x \in {y \in identities : y.issuer = tab[t].issuer
                                           /\ y.account = tab[t].account}}
      = {tab[t].subject}
=============================================================================
