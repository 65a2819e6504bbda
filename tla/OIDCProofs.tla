------------------------------ MODULE OIDCProofs ------------------------------
(***************************************************************************)
(* Machine-checked proofs about OIDC logins and the settings they run      *)
(* under, for every value of the constants.                                *)
(***************************************************************************)
EXTENDS OIDC, TLAPS

(***************************************************************************)
(* The settings row.                                                       *)
(***************************************************************************)
(* What a blank field would leave in the row was there at some moment of   *)
(* the request, unless the read of the row failed.                         *)
Remembered ==
  \A a \in saving : /\ settings.secret \in stored[a]
                    /\ \/ old[a] \in stored[a]
                       \/ a \in unread /\ old[a] = NoSecret

SettingsInv == SettingsTypeOK /\ Remembered

LEMMA SettingsInvInit == SettingsInit => SettingsInv
<1>1. NoSettings \in SettingsType
  BY DEF NoSettings, SettingsType
<1>2. SettingsInit => SettingsTypeOK
  BY <1>1, SettingsAssumption DEF SettingsInit, SettingsTypeOK
<1> QED BY <1>2 DEF SettingsInit, SettingsInv, Remembered

(* Witness keeps every row that a request lives to see.                    *)
LEMMA Witnessed ==
  ASSUME SettingsTypeOK, Witness, settings' \in SettingsType
  PROVE  /\ stored' \in [Admins -> SUBSET (Secrets \cup {NoSecret})]
         /\ \A a \in Admins : a \in saving' =>
              settings'.secret \in stored'[a] /\ stored[a] \subseteq stored'[a]
BY DEF SettingsTypeOK, Witness, SettingsType

LEMMA SettingsInvInductive ==
  ASSUME SettingsInv, SettingsNext \/ UNCHANGED settingsVars
  PROVE  SettingsInv'
<1> USE DEF SettingsInv, handlers
<1>n. NoSettings \in SettingsType
  BY DEF NoSettings, SettingsType
<1>1. ASSUME NEW a \in Admins, NEW f \in Forms, SaveOIDC(a, f), Witness
      PROVE  SettingsInv'
  <2>1. settings' = settings /\ saving' = saving \cup {a} /\ settings' \in SettingsType
    BY <1>1 DEF SaveOIDC, SettingsTypeOK
  <2>2. SettingsTypeOK'
    BY <1>1, <2>1, Witnessed, SettingsAssumption
       DEF SaveOIDC, SettingsTypeOK, SettingsType
  <2>3. ASSUME NEW b \in saving', b # a
        PROVE  old'[b] = old[b] /\ b \in saving /\ (b \in unread => b \in unread')
    BY <1>1, <2>3 DEF SaveOIDC, SettingsTypeOK
  <2>4. \/ old'[a] = settings.secret
        \/ a \in unread' /\ old'[a] = NoSecret
    BY <1>1 DEF SaveOIDC, SettingsTypeOK
  <2>5. Remembered'
    BY <1>1, <2>1, <2>3, <2>4, Witnessed DEF Remembered, SettingsTypeOK
  <2> QED BY <2>2, <2>5
<1>2. ASSUME NEW a \in Admins, Save(a), Witness PROVE SettingsInv'
  <2>1. Merged(a) \in SettingsType
    BY DEF Merged, SettingsTypeOK, SettingsType
  <2>2. settings' \in SettingsType
    BY <1>2, <2>1 DEF Save, SettingsTypeOK
  <2>3. SettingsTypeOK'
    BY <1>2, <1>n, <2>2, Witnessed DEF Save, SettingsTypeOK
  <2>4. ASSUME NEW b \in saving'
        PROVE  old'[b] = old[b] /\ b \in saving /\ (b \in unread => b \in unread')
    BY <1>2 DEF Save, SettingsTypeOK
  <2>5. Remembered'
    BY <1>2, <2>2, <2>4, Witnessed DEF Remembered, SettingsTypeOK
  <2> QED BY <2>3, <2>5
<1>3. ASSUME NEW f \in Manifests, ProvisionOIDC(f), Witness PROVE SettingsInv'
  <2>1. settings' \in SettingsType /\ UNCHANGED <<form, old, saving, unread>>
    BY <1>3, SettingsAssumption DEF ProvisionOIDC
  <2>2. SettingsTypeOK'
    BY <1>3, <2>1, Witnessed DEF SettingsTypeOK
  <2>3. Remembered'
    BY <1>3, <2>1, Witnessed DEF Remembered, SettingsTypeOK
  <2> QED BY <2>2, <2>3
<1>4. CASE UNCHANGED settingsVars
  BY <1>4 DEF settingsVars, SettingsTypeOK, Remembered
<1> QED BY <1>1, <1>2, <1>3, <1>4 DEF SettingsNext

LEMMA OIDCSettings ==
  ASSUME [OIDCNext]_oidcVars
  PROVE  SettingsNext \/ UNCHANGED settingsVars
BY DEF OIDCNext, oidcVars, Start, Again, Authenticate, Callback, Exchange,
       OIDCUser, LinkSelect, LinkInsert, ProvisionOIDCUser, NewSession, Fail,
       FlowExpires, ProvisionUser, SetDisabled

LEMMA SettingsSafe == OIDCSpec => []SettingsInv
<1>1. OIDCInit => SettingsInv
  BY SettingsInvInit DEF OIDCInit
<1>2. SettingsInv /\ [OIDCNext]_oidcVars => SettingsInv'
  BY OIDCSettings, SettingsInvInductive
<1> QED BY <1>1, <1>2, PTL DEF OIDCSpec

(* Only Save ends a request, and it writes what Remembered speaks of.      *)
LEMMA StepKeepsSecret ==
  ASSUME SettingsInv, SettingsNext, NEW a \in saving \ saving',
         form[a].secret = NoSecret
  PROVE  \/ settings'.secret \in stored[a]
         \/ a \in unread /\ settings'.secret = NoSecret /\ ~settings'.enabled
<1>1. Save(a)
  BY DEF SettingsInv, SettingsTypeOK, SettingsNext, Save, SaveOIDC, ProvisionOIDC, handlers
<1>2. CASE settings' = settings
  BY <1>2 DEF SettingsInv, Remembered
<1>3. CASE Acceptable(Merged(a)) /\ settings' = Merged(a)
  <2>1. settings'.secret = old[a]
    BY <1>3 DEF Merged, SettingsInv, SettingsTypeOK, SettingsType
  <2> QED BY <1>3, <2>1 DEF SettingsInv, Remembered, Acceptable, Configured
<1> QED BY <1>1, <1>2, <1>3 DEF Save

(* For any administrators, forms and manifests that race to write the row: *)
(* a blank field leaves a secret that was stored while its own request was *)
(* under way, or none after a failed read, and then OIDC is off.  What was *)
(* replaced before the request began does not come back.                   *)
THEOREM BlankKeepsSecrets == OIDCSpec => BlankKeepsSecret
<1>1. SettingsInv /\ [OIDCNext]_oidcVars
        => [\A a \in saving \ saving' :
              form[a].secret = NoSecret =>
                \/ settings'.secret \in stored[a]
                \/ a \in unread /\ settings'.secret = NoSecret
                                /\ ~settings'.enabled]_settingsVars
  BY OIDCSettings, StepKeepsSecret
<1> QED BY <1>1, SettingsSafe, PTL DEF OIDCSpec, BlankKeepsSecret

(***************************************************************************)
(* Logins: types.                                                          *)
(***************************************************************************)
TabType == [at : Steps, flow : 0..flows, issuer : Issuers \cup {NoIssuer},
            person : People \cup {Nobody}, subject : AllSubjects,
            fresh : BOOLEAN, copy : SettingsType, account : accounts \cup {Nobody}]

LoginTypes ==
  /\ accounts \subseteq People /\ disabled \subseteq accounts
  /\ cookie \in [Browsers -> 0..flows] /\ flows \in 0..MaxFlows
  /\ tab \in [Tabs -> TabType]

(***************************************************************************)
(* Logins: the invariant.                                                  *)
(***************************************************************************)

(* From the provider's answer on, and from the claims' acceptance on. *)
Accepted == {"oidcUser", "link", "linkInsert", "jit", "session"}
Showing  == {"return", "exchange", "done"} \cup Accepted

(* What a tab at r.at has behind it. *)
Consistent(r) ==
  /\ r.at # "blank"   => r.issuer \in Issuers
  /\ r.at \in Showing  => <<r.issuer, r.subject, r.person>> \in seen
  /\ r.at \in Accepted => r.copy.issuer = r.issuer
  /\ r.at \in {"linkInsert", "session"} => r.account = r.person
  /\ r.at = "session" =>
       [issuer |-> r.issuer, subject |-> r.subject, account |-> r.account] \in identities

(* Issuers show the world as it is. *)
Truthful ==
  \A x \in seen : \E i \in Issuers, p \in People :
    \E s \in SubjectsOf[i][p] : x = <<i, s, p>>

(* The table's two unique indexes, and where its rows come from. *)
Registry ==
  /\ identities \subseteq [issuer : Issuers, subject : AllSubjects, account : accounts]
  /\ \A x, y \in identities :
       x.issuer = y.issuer /\ (x.subject = y.subject \/ x.account = y.account) => x = y
  /\ VouchedFor

LoginInv ==
  /\ LoginTypes /\ Truthful /\ Registry
  /\ \A t \in Tabs : Consistent(tab[t])

(* A tab's own step. *)
LEMMA Local ==
  ASSUME LoginInv, NEW t \in Tabs, NEW r \in TabType, Consistent(r),
         tab' = [tab EXCEPT ![t] = r],
         UNCHANGED <<accounts, disabled, identities, cookie, flows, seen>>
  PROVE  LoginInv'
<1>1. LoginTypes' /\ Truthful' /\ Registry'
  BY DEF LoginInv, LoginTypes, TabType, Truthful, Registry, VouchedFor
<1>2. \A u \in Tabs : Consistent(tab[u])'
  BY DEF LoginInv, LoginTypes, Consistent
<1> QED BY <1>1, <1>2 DEF LoginInv

LEMMA TabIs ==
  ASSUME LoginInv, NEW t \in Tabs
  PROVE  tab[t] \in TabType /\ Consistent(tab[t])
BY DEF LoginInv, LoginTypes

(* It goes on, or responds. *)
LEMMA GoesOn ==
  ASSUME LoginInv, NEW t \in Tabs, NEW l \in Steps, Goto(t, l),
         Consistent([tab[t] EXCEPT !.at = l]),
         UNCHANGED <<accounts, disabled, identities, cookie, flows, seen>>
  PROVE  LoginInv'
<1> DEFINE r == [tab[t] EXCEPT !.at = l]
<1>1. r \in TabType
  BY TabIs DEF TabType
<1>2. tab' = [tab EXCEPT ![t] = r]
  BY DEF Goto, LoginInv, LoginTypes
<1> QED BY <1>1, <1>2, Local

LEMMA Responds ==
  ASSUME LoginInv, NEW t \in Tabs, Respond(t), tab[t].at \in Showing,
         UNCHANGED <<accounts, disabled, identities, cookie, flows, seen>>
  PROVE  LoginInv'
<1> DEFINE r == [tab[t] EXCEPT !.at = "done", !.copy = NoSettings, !.account = Nobody]
<1>1. NoSettings \in SettingsType /\ "done" \in Steps
  BY DEF NoSettings, SettingsType, Steps
<1>2. r \in TabType
  BY <1>1, TabIs DEF TabType
<1>3. Consistent(r)
  BY TabIs DEF Consistent, Showing, Accepted, TabType
<1>4. tab' = [tab EXCEPT ![t] = r]
  BY DEF Respond, LoginInv, LoginTypes
<1> QED BY <1>2, <1>3, <1>4, Local

(* Accounts only come. *)
LEMMA MoreAccounts ==
  ASSUME LoginInv, NEW a \in SUBSET People, accounts' = accounts \cup a,
         disabled' \subseteq accounts',
         UNCHANGED <<identities, cookie, flows, tab, seen>>
  PROVE  LoginInv'
<1>1. LoginTypes' /\ Truthful' /\ Registry'
  BY DEF LoginInv, LoginTypes, TabType, Truthful, Registry, VouchedFor
<1> QED BY <1>1 DEF LoginInv, Consistent

(* A new identity and the account it is for, maybe new as well. *)
LEMMA Joins ==
  ASSUME LoginInv, NEW t \in Tabs, tab[t].at \in {"linkInsert", "jit"},
         LET x == Identity(t, tab[t].person) IN
           ~Conflicts(x) /\ identities' = identities \cup {x},
         accounts' = accounts \cup {tab[t].person},
         tab' = [tab EXCEPT ![t] = [tab[t] EXCEPT !.at = "session",
                                                  !.account = tab[t].person]],
         UNCHANGED <<disabled, cookie, flows, seen>>
  PROVE  LoginInv'
<1> DEFINE x == Identity(t, tab[t].person)
           r == [tab[t] EXCEPT !.at = "session", !.account = tab[t].person]
<1>1. /\ tab[t] \in TabType /\ tab[t].issuer \in Issuers
      /\ tab[t].copy.issuer = tab[t].issuer
      /\ <<tab[t].issuer, tab[t].subject, tab[t].person>> \in seen
  BY TabIs DEF Consistent, Showing, Accepted
<1>2. tab[t].person \in People
  BY <1>1 DEF LoginInv, Truthful
<1>3. x = [issuer |-> tab[t].issuer, subject |-> tab[t].subject,
           account |-> tab[t].person]
  BY <1>1 DEF Identity
<1>4. x \in [issuer : Issuers, subject : AllSubjects, account : accounts']
  BY <1>1, <1>3 DEF TabType
<1>5. Registry'
  <2>1. identities' \subseteq [issuer : Issuers, subject : AllSubjects, account : accounts']
    BY <1>4 DEF LoginInv, Registry
  <2>2. \A y, z \in identities' :
          y.issuer = z.issuer /\ (y.subject = z.subject \/ y.account = z.account) => y = z
    <3>1. /\ identities' = identities \cup {x}
          /\ \A y \in identities : ~(y.issuer = x.issuer /\
                                     (y.subject = x.subject \/ y.account = x.account))
      BY DEF Conflicts
    <3>2. \A y, z \in identities :
            y.issuer = z.issuer /\ (y.subject = z.subject \/ y.account = z.account)
              => y = z
      BY DEF LoginInv, Registry
    <3> HIDE DEF x
    <3> SUFFICES ASSUME NEW y \in identities', NEW z \in identities', y # z,
                        y.issuer = z.issuer,
                        y.subject = z.subject \/ y.account = z.account
                 PROVE  FALSE
      OBVIOUS
    <3>3. CASE y = x
      BY <3>1, <3>3
    <3>4. CASE z = x
      BY <3>1, <3>4
    <3>5. CASE y # x /\ z # x
      <4>1. y \in identities /\ z \in identities
        BY <3>1, <3>5
      <4> QED BY <3>2, <4>1
    <3> QED BY <3>3, <3>4, <3>5
  <2>3. VouchedFor'
    <3>1. <<x.issuer, x.subject, x.account>> \in seen
      BY <1>1, <1>3
    <3>2. identities' = identities \cup {x} /\ VouchedFor /\ seen' = seen
      BY DEF LoginInv, Registry
    <3> HIDE DEF x
    <3> QED BY <3>1, <3>2 DEF VouchedFor
  <2> QED BY <2>1, <2>2, <2>3 DEF Registry
<1>6. r \in TabType'
  BY <1>1 DEF TabType, Steps
<1>7. LoginTypes'
  BY <1>2, <1>6 DEF LoginInv, LoginTypes, TabType
<1>8. Consistent(r)'
  BY <1>1, <1>3 DEF Consistent, Showing, Accepted, TabType
<1>9. \A u \in Tabs : Consistent(tab[u])'
  BY <1>8 DEF LoginInv, LoginTypes, Consistent
<1> QED BY <1>5, <1>7, <1>9 DEF LoginInv, Truthful

LEMMA LoginInit == OIDCInit => LoginInv
<1> SUFFICES ASSUME OIDCInit PROVE LoginInv
  OBVIOUS
<1>1. Blank \in TabType
  <2>1. AnySubject \in AllSubjects
    BY SubjectsAssumption DEF AnySubject
  <2>2. NoSettings \in SettingsType
    BY DEF NoSettings, SettingsType
  <2> QED BY <2>1, <2>2 DEF OIDCInit, Blank, TabType, Steps
<1>2. LoginTypes
  BY <1>1, OIDCAssumption DEF OIDCInit, LoginTypes
<1>3. Consistent(Blank)
  BY DEF Blank, Consistent, Showing, Accepted
<1> QED BY <1>2, <1>3 DEF OIDCInit, LoginInv, Truthful, Registry, VouchedFor

LEMMA LoginInductive ==
  ASSUME LoginInv, SettingsInv, [OIDCNext]_oidcVars
  PROVE  LoginInv'
<1>r. \A t \in Tabs : tab[t] \in TabType /\ Consistent(tab[t])
  BY TabIs
<1>1. ASSUME NEW t \in Tabs, Start(t) PROVE LoginInv'
  <2> DEFINE r == [Blank EXCEPT !.at = "provider", !.flow = flows + 1,
                                !.issuer = settings.issuer]
  <2>1. tab' = [tab EXCEPT ![t] = r]
    BY <1>1 DEF Start
  <2>2. settings.issuer \in Issuers
    BY <1>1 DEF Start, Configured, SettingsInv, SettingsTypeOK, SettingsType
  <2>3. flows' = flows + 1 /\ flows' \in 0..MaxFlows /\ flows' \in 0..flows'
    BY <1>1, OIDCAssumption DEF Start, LoginInv, LoginTypes
  <2>4. AnySubject \in AllSubjects /\ NoSettings \in SettingsType
    BY SubjectsAssumption DEF AnySubject, NoSettings, SettingsType
  <2>5. tab'[t] \in TabType'
    <3>1. \A n \in 0..flows', i \in Issuers :
            [Blank EXCEPT !.at = "provider", !.flow = n, !.issuer = i] \in TabType'
      BY <2>4 DEF Blank, TabType, Steps
    <3>2. r \in TabType'
      BY <2>2, <2>3, <3>1
    <3> QED BY <2>1, <3>2 DEF LoginInv, LoginTypes
  <2>6. Consistent(tab[t])'
    BY <2>1, <2>2 DEF Blank, Consistent, Showing, Accepted, LoginInv, LoginTypes
  <2>7. \A u \in Tabs : tab[u] \in TabType'
    <3>1. 0..flows \subseteq 0..flows' /\ accounts' = accounts
      BY <1>1, <2>3 DEF Start, LoginInv, LoginTypes
    <3>2. TabType \subseteq TabType'
      BY <3>1 DEF TabType
    <3> QED BY <1>r, <3>2
  <2>8. LoginTypes'
    <3>1. tab' \in [Tabs -> TabType']
      BY <2>1, <2>5, <2>7 DEF LoginInv, LoginTypes
    <3>2. cookie' \in [Browsers -> 0..flows']
      <4>1. cookie' = [cookie EXCEPT ![BrowserOf[t]] = flows']
            /\ 0..flows \subseteq 0..flows'
        BY <1>1, <2>3 DEF Start, LoginInv, LoginTypes
      <4> QED BY <2>3, <4>1 DEF LoginInv, LoginTypes
    <3> QED BY <1>1, <2>3, <3>1, <3>2 DEF Start, LoginInv, LoginTypes
  <2>9. \A u \in Tabs : Consistent(tab[u])'
    <3>1. \A u \in Tabs : u # t => tab'[u] = tab[u]
      BY <2>1 DEF LoginInv, LoginTypes
    <3>2. UNCHANGED <<seen, identities>>
      BY <1>1 DEF Start
    <3> QED BY <1>r, <2>6, <3>1, <3>2 DEF Consistent
  <2> QED BY <1>1, <2>8, <2>9 DEF Start, LoginInv, Truthful, Registry, VouchedFor
<1>2. ASSUME NEW t \in Tabs, Again(t) PROVE LoginInv'
  <2>1. PICK l \in {"return", "provider"} : Goto(t, l)
    BY <1>2 DEF Again
  <2>2. Consistent([tab[t] EXCEPT !.at = l])
    BY <1>2, <1>r DEF Again, At, Consistent, Showing, Accepted, TabType
  <2> QED BY <1>2, <2>1, <2>2, GoesOn DEF Again, Steps
<1>3. ASSUME NEW t \in Tabs, NEW p \in People, NEW s \in AllSubjects,
             Authenticate(t, p, s)
      PROVE  LoginInv'
  <2> DEFINE r == [tab[t] EXCEPT !.at = "return", !.person = p, !.subject = s,
                                 !.fresh = TRUE]
  <2>1. /\ tab' = [tab EXCEPT ![t] = r]
        /\ seen' = seen \cup {<<tab[t].issuer, s, p>>}
        /\ UNCHANGED <<accounts, disabled, identities, cookie, flows>>
    BY <1>3 DEF Authenticate, LoginInv, LoginTypes
  <2>2. tab[t].issuer \in Issuers /\ s \in SubjectsOf[tab[t].issuer][p]
    BY <1>3, <1>r DEF Authenticate, At, Consistent
  <2>3. r \in TabType'
    BY <1>r, <2>1 DEF TabType, Steps
  <2>4. Consistent(r)'
    BY <1>r, <2>1, <2>2 DEF Consistent, Showing, Accepted, TabType
  <2>5. LoginTypes'
    BY <2>1, <2>3 DEF LoginInv, LoginTypes, TabType
  <2>6. \A u \in Tabs : Consistent(tab[u])'
    BY <1>r, <2>1, <2>4 DEF LoginInv, LoginTypes, Consistent
  <2>7. Truthful'
    BY <2>1, <2>2 DEF LoginInv, Truthful
  <2>8. Registry'
    BY <2>1 DEF LoginInv, Registry, VouchedFor
  <2> QED BY <2>5, <2>6, <2>7, <2>8 DEF LoginInv
<1>4. ASSUME NEW t \in Tabs, Callback(t) PROVE LoginInv'
  <2>1. CASE Respond(t)
    BY <1>4, <2>1, Responds DEF Callback, At, Showing
  <2>2. CASE ~Respond(t)
    <3> DEFINE r == [tab[t] EXCEPT !.at = "exchange", !.copy = settings]
    <3>1. tab' = [tab EXCEPT ![t] = r]
      BY <1>4, <2>2 DEF Callback, LoginInv, LoginTypes
    <3>2. r \in TabType
      BY <1>r DEF TabType, Steps, SettingsInv, SettingsTypeOK
    <3>3. Consistent(r)
      BY <1>4, <1>r DEF Callback, At, Consistent, Showing, Accepted, TabType
    <3> QED BY <1>4, <3>1, <3>2, <3>3, Local DEF Callback
  <2> QED BY <2>1, <2>2
<1>5. ASSUME NEW t \in Tabs, Exchange(t) PROVE LoginInv'
  <2>1. CASE Respond(t)
    BY <1>5, <2>1, Responds DEF Exchange, At, Showing
  <2>2. CASE /\ Redeems(tab[t])
             /\ tab' = [tab EXCEPT ![t].at = "oidcUser", ![t].fresh = FALSE]
    <3> DEFINE r == [tab[t] EXCEPT !.at = "oidcUser", !.fresh = FALSE]
    <3>1. tab' = [tab EXCEPT ![t] = r]
      BY <2>2 DEF LoginInv, LoginTypes
    <3>2. r \in TabType
      BY <1>r DEF TabType, Steps
    <3>3. Consistent(r)
      BY <1>5, <1>r, <2>2
         DEF Exchange, At, Redeems, Consistent, Showing, Accepted, TabType
    <3> QED BY <1>5, <3>1, <3>2, <3>3, Local DEF Exchange
  <2>3. CASE /\ Redeems(tab[t])
             /\ tab' = [tab EXCEPT ![t] = [tab[t] EXCEPT !.at = "done", !.fresh = FALSE,
                                                         !.copy = NoSettings]]
    <3> DEFINE r == [tab[t] EXCEPT !.at = "done", !.fresh = FALSE, !.copy = NoSettings]
    <3>1. r \in TabType
      BY <1>r DEF TabType, Steps, NoSettings, SettingsType
    <3>2. Consistent(r)
      BY <1>5, <1>r DEF Exchange, At, Consistent, Showing, Accepted, TabType
    <3> QED BY <1>5, <2>3, <3>1, <3>2, Local DEF Exchange
  <2> QED BY <1>5, <2>1, <2>2, <2>3 DEF Exchange
<1>6. ASSUME NEW t \in Tabs, Unknown(t), tab[t].at \in {"oidcUser", "link"},
             UNCHANGED <<accounts, disabled, identities, cookie, flows, seen>>
      PROVE  LoginInv'
  <2>1. CASE Respond(t)
    BY <1>6, <2>1, Responds DEF Showing, Accepted
  <2>2. CASE Goto(t, "jit")
    <3>1. Consistent([tab[t] EXCEPT !.at = "jit"])
      BY <1>6, <1>r DEF Consistent, Showing, Accepted, TabType
    <3> QED BY <1>6, <2>2, <3>1, GoesOn DEF Steps
  <2> QED BY <1>6, <2>1, <2>2 DEF Unknown
<1>7. ASSUME NEW t \in Tabs, OIDCUser(t) PROVE LoginInv'
  <2>a. tab[t].at = "oidcUser"
        /\ UNCHANGED <<accounts, disabled, identities, cookie, flows, seen>>
    BY <1>7 DEF OIDCUser, At
  <2>1. ASSUME NEW x \in Known(t), SignIn(t, x.account) PROVE LoginInv'
    <3> DEFINE r == [tab[t] EXCEPT !.at = "session", !.account = x.account]
    <3>1. /\ x \in identities /\ x.issuer = tab[t].issuer /\ x.subject = tab[t].subject
          /\ <<tab[t].issuer, tab[t].subject, tab[t].person>> \in seen
      BY <1>r, <2>a DEF Known, Consistent, Showing, Accepted
    <3>2. x.account \in accounts
          /\ x = [issuer |-> x.issuer, subject |-> x.subject, account |-> x.account]
      BY <3>1 DEF LoginInv, Registry
    <3>3. <<x.issuer, x.subject, x.account>> \in seen
      BY <3>1 DEF LoginInv, Registry, VouchedFor
    <3>4. /\ x.issuer \in Issuers /\ x.account \in People /\ tab[t].person \in People
          /\ x.subject \in SubjectsOf[x.issuer][x.account]
          /\ x.subject \in SubjectsOf[x.issuer][tab[t].person]
      BY <3>1, <3>3 DEF LoginInv, Truthful
    <3>5. x.account = tab[t].person
      BY <3>4, OIDCAssumption
    <3>6. tab' = [tab EXCEPT ![t] = r]
      BY <2>1 DEF SignIn, LoginInv, LoginTypes
    <3>7. r \in TabType
      BY <1>r, <3>2 DEF TabType, Steps
    <3>8. Consistent(r)
      BY <1>r, <2>a, <3>1, <3>2, <3>5 DEF Consistent, Showing, Accepted, TabType
    <3> QED BY <2>a, <3>6, <3>7, <3>8, Local
  <2>2. CASE Goto(t, "link")
    <3>1. Consistent([tab[t] EXCEPT !.at = "link"])
      BY <1>r, <2>a DEF Consistent, Showing, Accepted, TabType
    <3> QED BY <2>2, <2>a, <3>1, GoesOn DEF Steps
  <2>3. CASE Unknown(t)
    BY <1>6, <2>3, <2>a
  <2> QED BY <1>7, <2>1, <2>2, <2>3 DEF OIDCUser
<1>8. ASSUME NEW t \in Tabs, LinkSelect(t) PROVE LoginInv'
  <2> DEFINE p == tab[t].person
             r == [tab[t] EXCEPT !.at = "linkInsert", !.account = p]
  <2>1. CASE p \in accounts \ disabled
    <3>1. tab' = [tab EXCEPT ![t] = r]
      BY <1>8, <2>1 DEF LinkSelect, LoginInv, LoginTypes
    <3>2. r \in TabType
      BY <1>r, <2>1 DEF TabType, Steps
    <3>3. Consistent(r)
      BY <1>8, <1>r DEF LinkSelect, At, Consistent, Showing, Accepted, TabType
    <3> QED BY <1>8, <3>1, <3>2, <3>3, Local DEF LinkSelect
  <2>2. CASE p \notin accounts \ disabled
    BY <1>6, <1>8, <2>2 DEF LinkSelect, At
  <2> QED BY <2>1, <2>2
<1>9. ASSUME NEW t \in Tabs, LinkInsert(t) PROVE LoginInv'
  <2>1. tab[t].at = "linkInsert" /\ tab[t].account = tab[t].person
    BY <1>9, <1>r DEF LinkInsert, At, Consistent
  <2>2. CASE Conflicts(Identity(t, tab[t].account))
    BY <1>9, <2>1, <2>2, Responds DEF LinkInsert, Showing, Accepted
  <2>3. CASE ~Conflicts(Identity(t, tab[t].account))
    <3>1. tab' = [tab EXCEPT ![t] = [tab[t] EXCEPT !.at = "session",
                                                   !.account = tab[t].person]]
      BY <1>9, <1>r, <2>1, <2>3 DEF LinkInsert, Goto, TabType, LoginInv, LoginTypes
    <3>2. accounts' = accounts \cup {tab[t].person}
      <4>1. tab[t].person \in People
        BY <1>r, <2>1 DEF Consistent, Showing, Accepted, LoginInv, Truthful
      <4>2. tab[t].person \in accounts
        BY <1>r, <2>1, <4>1, OIDCAssumption DEF TabType
      <4> QED BY <1>9, <4>2 DEF LinkInsert
    <3> QED BY <1>9, <2>1, <2>3, <3>1, <3>2, Joins DEF LinkInsert
  <2> QED BY <2>2, <2>3
<1>10. ASSUME NEW t \in Tabs, ProvisionOIDCUser(t) PROVE LoginInv'
  <2>1. CASE MayInsert(tab[t].person) /\ ~Conflicts(Identity(t, tab[t].person))
    <3>1. tab' = [tab EXCEPT ![t] = [tab[t] EXCEPT !.at = "session",
                                                   !.account = tab[t].person]]
      BY <1>10, <2>1 DEF ProvisionOIDCUser, SignIn, LoginInv, LoginTypes
    <3> QED BY <1>10, <2>1, <3>1, Joins DEF ProvisionOIDCUser, At
  <2>2. CASE ~(MayInsert(tab[t].person) /\ ~Conflicts(Identity(t, tab[t].person)))
    BY <1>10, <2>2, Responds DEF ProvisionOIDCUser, At, Showing, Accepted
  <2> QED BY <2>1, <2>2
<1>11. ASSUME NEW t \in Tabs, NewSession(t) \/ Fail(t) PROVE LoginInv'
  BY <1>11, Responds DEF NewSession, Fail, At, Showing, Accepted
<1>12. ASSUME NEW b \in Browsers, FlowExpires(b) PROVE LoginInv'
  <2>1. LoginTypes'
    BY <1>12 DEF FlowExpires, LoginInv, LoginTypes, TabType
  <2> QED BY <1>12, <2>1
          DEF FlowExpires, LoginInv, Consistent, Truthful, Registry, VouchedFor
<1>13. ASSUME NEW p \in Managed, ProvisionUser(p) PROVE LoginInv'
  BY <1>13, OIDCAssumption, MoreAccounts DEF ProvisionUser, LoginInv, LoginTypes
<1>14. ASSUME NEW p \in Managed, SetDisabled(p) PROVE LoginInv'
  BY <1>14, OIDCAssumption, MoreAccounts DEF SetDisabled, LoginInv, LoginTypes
<1>15. CASE UNCHANGED login
  <2>1. LoginTypes' /\ Truthful' /\ Registry'
    BY <1>15 DEF login, LoginInv, LoginTypes, TabType, Truthful, Registry, VouchedFor
  <2> QED BY <1>15, <2>1 DEF login, LoginInv, Consistent
<1> QED
  BY <1>1, <1>2, <1>3, <1>4, <1>5, <1>7, <1>8, <1>9, <1>10, <1>11, <1>12,
     <1>13, <1>14, <1>15
  DEF OIDCNext, oidcVars

LEMMA LoginsSafe == OIDCSpec => [](SettingsInv /\ LoginInv)
<1>1. OIDCInit => SettingsInv /\ LoginInv
  BY SettingsInvInit, LoginInit DEF OIDCInit
<1>2. SettingsInv /\ LoginInv /\ [OIDCNext]_oidcVars => (SettingsInv /\ LoginInv)'
  BY OIDCSettings, SettingsInvInductive, LoginInductive
<1> QED BY <1>1, <1>2, PTL DEF OIDCSpec

(* Identities refer to accounts, a tab's copies have their types, and no   *)
(* cookie holds a flow that was not begun.                                 *)
THEOREM LoginsTypeCorrect == OIDCSpec => []OIDCTypeOK
<1>1. SettingsInv /\ LoginInv => OIDCTypeOK
  BY DEF SettingsInv, LoginInv, LoginTypes, Registry, TabType, OIDCTypeOK
<1> QED BY <1>1, LoginsSafe, PTL

(* An identity says what its issuer vouched for, although the issuer may   *)
(* be changed between Start and Callback and during a callback.  Inductive *)
(* with Consistent: from the exchange on, the callback's copy names the    *)
(* issuer that showed the subject.                                         *)
THEOREM IdentitiesVouchedFor == OIDCSpec => []VouchedFor
<1>1. LoginInv => VouchedFor
  BY DEF LoginInv, Registry
<1> QED BY <1>1, LoginsSafe, PTL

(* A login ends in the account of the person who signed in: an identity    *)
(* found is one its issuer vouched for, and subjects are unique within an  *)
(* issuer.                                                                 *)
THEOREM OwnAccounts == OIDCSpec => []OwnAccount
<1>1. LoginInv => OwnAccount
  BY DEF LoginInv, Consistent, OwnAccount, At
<1> QED BY <1>1, LoginsSafe, PTL

(* A session's account has this subject and no other one at this issuer:   *)
(* the unique indexes hold between a callback's statements as well.        *)
THEOREM FirstSubjectsStay == OIDCSpec => []FirstSubjectStays
<1>1. ASSUME LoginInv, NEW t \in Tabs, tab[t].at = "session"
      PROVE  {x.subject : x \in {y \in identities : y.issuer = tab[t].issuer
                                                    /\ y.account = tab[t].account}}
               = {tab[t].subject}
  <2> DEFINE z == [issuer |-> tab[t].issuer, subject |-> tab[t].subject,
                   account |-> tab[t].account]
  <2>1. z \in identities
    BY <1>1 DEF LoginInv, Consistent
  <2>2. \A y \in identities :
          y.issuer = tab[t].issuer /\ y.account = tab[t].account => y = z
    BY <1>1, <2>1 DEF LoginInv, Registry
  <2> QED BY <2>1, <2>2
<1>2. LoginInv => FirstSubjectStays
  BY <1>1 DEF FirstSubjectStays, At
<1> QED BY <1>2, LoginsSafe, PTL
==============================================================================
