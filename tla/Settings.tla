-------------------------------- MODULE Settings --------------------------------
(***************************************************************************)
(* The "auth.oidc" row of the runtime settings: the console's form         *)
(* (saveOIDC, internal/httpserver/server.go), the provisioning command's   *)
(* section (cmd/provision/main.go), Manager.Settings and Manager.Save      *)
(* (internal/oidc/oidc.go), Store.Setting and SetSetting.  The row is one  *)
(* encrypted value: it is read and replaced as a whole.                    *)
(*                                                                         *)
(* Who may call the handler is module Accounts' subject; scopes, client id *)
(* and lists of domains and groups are left out.                           *)
(***************************************************************************)
EXTENDS Integers

CONSTANTS
  Admins,         \* goroutines serving POST /platform/admin/oidc
  Issuers,
  NoIssuer,       \* the empty issuer URL
  Secrets,
  NoSecret,       \* the empty client secret
  Initial,        \* rows the installation may start with
  Forms,          \* bound: what administrators submit
  Manifests       \* bound: the sections manifests bring

SettingsType == [enabled : BOOLEAN, issuer : Issuers \cup {NoIssuer},
                 secret : Secrets \cup {NoSecret}, linkByEmail : BOOLEAN,
                 autoProvision : BOOLEAN]

ASSUME SettingsAssumption ==
  /\ NoIssuer \notin Issuers /\ NoSecret \notin Secrets
  /\ Initial \subseteq SettingsType /\ Forms \subseteq SettingsType
  /\ Manifests \subseteq SettingsType

VARIABLES
  settings,     \* the stored row; NoSettings when there is none
  form,         \* the form each goroutine handles
  old,          \* the stored secret as each goroutine read it
  saving,       \* goroutines between the read and the write
  unread,       \* history: those of saving whose read failed
  stored        \* history: the secrets in the row since each of saving began

handlers     == <<form, old, saving, unread>>
settingsVars == <<settings, handlers, stored>>

NoSettings == [enabled |-> FALSE, issuer |-> NoIssuer, secret |-> NoSecret,
               linkByEmail |-> FALSE, autoProvision |-> FALSE]

SettingsInit ==
  /\ settings \in Initial
  /\ form \in [Admins -> {NoSettings}]
  /\ old = [a \in Admins |-> NoSecret]
  /\ saving = {}
  /\ unread = {}
  /\ stored = [a \in Admins |-> {}]

(* Settings.Configured, computed on reading. *)
Configured(s) == s.issuer # NoIssuer /\ s.secret # NoSecret

(* saveOIDC reads the row for its secret; an error leaves old empty. *)
SaveOIDC(a, f) ==
  /\ a \notin saving
  /\ saving' = saving \cup {a}
  /\ form' = [form EXCEPT ![a] = f]
  /\ \/ /\ old' = [old EXCEPT ![a] = settings.secret]
        /\ UNCHANGED unread
     \/ /\ old' = [old EXCEPT ![a] = NoSecret]
        /\ unread' = unread \cup {a}
  /\ UNCHANGED settings

(* Seeded fault: a form that switches OIDC off is stored as it came. *)
MergedWhenEnabled(a) ==
  [form[a] EXCEPT !.secret = IF @ = NoSecret /\ form[a].enabled THEN old[a] ELSE @]

(* A blank secret stands for the one that was read. *)
Merged(a) ==
  [form[a] EXCEPT !.secret = IF @ = NoSecret THEN old[a] ELSE @]

(* Save: refuses what is enabled and incomplete; discovery may fail.       *)
Acceptable(s) == s.enabled => Configured(s)

Save(a) ==
  LET s == Merged(a) IN
  /\ a \in saving
  /\ saving' = saving \ {a}
  /\ \/ Acceptable(s) /\ settings' = s
     \/ UNCHANGED settings                             \* refused or failed
  /\ form' = [form EXCEPT ![a] = NoSettings]
  /\ old'  = [old EXCEPT ![a] = NoSecret]
  /\ unread' = unread \ {a}

(* The manifest's section says it all: a secret it leaves out is none. *)
ProvisionOIDC(f) ==
  /\ Acceptable(f)
  /\ settings' = f
  /\ UNCHANGED handlers

(* Whoever is saving after this step has lived to see the row it leaves. *)
Witness ==
  stored' = [a \in Admins |->
               IF a \in saving' THEN stored[a] \cup {settings'.secret} ELSE {}]

SettingsNext ==
  /\ \/ \E a \in Admins : Save(a) \/ \E f \in Forms : SaveOIDC(a, f)
     \/ \E f \in Manifests : ProvisionOIDC(f)
  /\ Witness

-------------------------------------------------------------------------------

SettingsTypeOK ==
  /\ settings \in SettingsType
  /\ form \in [Admins -> SettingsType]
  /\ old \in [Admins -> Secrets \cup {NoSecret}]
  /\ saving \subseteq Admins
  /\ unread \subseteq saving
  /\ stored \in [Admins -> SUBSET (Secrets \cup {NoSecret})]

(* Leaving the secret blank keeps it (admin.html: "Stored; enter to        *)
(* replace"), with two exceptions and no third.  Saves that overlap may put *)
(* back a secret that another one replaced, but only one that was still    *)
(* stored when they began: what was replaced before stays gone.  And the   *)
(* error of reading the row is dropped (server.go:367), which costs the    *)
(* secret only if the form also switches OIDC off.                         *)
BlankKeepsSecret ==
  [][\A a \in saving \ saving' :
       form[a].secret = NoSecret =>
         \/ settings'.secret \in stored[a]
         \/ a \in unread /\ settings'.secret = NoSecret /\ ~settings'.enabled]_settingsVars
=============================================================================
