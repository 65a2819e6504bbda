# Verification of the OpenCode Workspaces control plane

TLA+ models, TLC configurations and TLAPS proofs for the Go control plane in
`src/cmd` and `src/internal`: one HTTP process with a PostgreSQL database that
gives every user a personal workspace pod in Kubernetes and proxies the user's
browser to it. Only one replica of the control plane is supported
(`docs/configuration.mdx:78`), and one is modelled.

## 1. The system

| Component | State | Operations | Interacts with |
|---|---|---|---|
| Workspace controller, `internal/kube/controller.go` | none of its own; the cluster objects of each user (claim, Secret, Service, Deployment) | loop: `Run`, `reconcileAll`, `Reconcile`; requests: `Start`, `Stop`, `Restart`, `Purge`; reading: `Status`, `Backend` | database (desired state), Kubernetes API |
| Workspace store, `internal/database/database.go` | `workspaces` (desired state, restart nonce, last activity), `workspace_configurations` (revision, documents) | `SetWorkspaceState`, `IdleWorkspaces`, `TouchWorkspace`, `DeleteWorkspaceDataRecord`, `SetWorkspaceConfiguration`, reads | called by controller, gateway, provisioning |
| Gateway, `internal/proxy/gateway.go` | in memory: `backends` cache, `lastTouch` | `ServeHTTP`, `backend`, `forgetBackend`, `touch`, error handler | controller (`Start`, `Backend`), workspace store, pods |
| Accounts, `internal/database`, `internal/auth`, `internal/httpserver` | `users`, `local_credentials`, `oidc_identities`, `sessions` | setup, login, logout, create and update user, change password | middleware puts a copy of the user into each request |
| OIDC login, `internal/oidc/oidc.go` | `auth.oidc` settings row, flow cookie, `oidc_identities` | `Start`, `Callback`, `Save`, `saveOIDC` | accounts, the provider |
| Provisioning, `cmd/provision` | none | one pass over a manifest | accounts, workspace store, OIDC settings |
| Login limiter, `internal/auth` | attempts per key, in memory | `allow`, `LoginSucceeded` | login handler |
| Migration, `database.Migrate` | `schema_migrations`, advisory lock | run at start of both commands | database |
| Configuration, web UI, chart, cryptography, audit log | – | – | – |

What makes it hard:

* the loop and any number of request goroutines reconcile the same workspace at
  once, each from its own copy of the row, with a Get and a separate write per
  object. There is no lock; only `AlreadyExists`, `Conflict` and the next pass
  keep things right;
* each operation spans two stores without a transaction: desired state is
  committed first, the cluster follows, and calls fail, requests are cancelled
  and the process dies in between;
* `Purge` is three steps on two stores while the user may start the workspace;
* the gateway caches backends and reads a readiness that lags behind the pods;
* handlers act on the copy of the user that the middleware read;
* activity is noted once a minute, written without looking at the result, and
  compared with a cutoff from another machine's clock;
* an OIDC login spans two requests and several statements while tabs share a
  cookie and administrators change the issuer;
* manifests and migrations are sequences of transactions that may stop anywhere
  and are then run again, by several processes.

`PROJECT.json` lists these hazards at their lines with the properties that
would catch them.

## 2. The modules

| Module | Content |
|---|---|
| `Controller` | workspace tables, controller, Kubernetes as far as the controller relies on it |
| `MCController` | model values, small sets and request symmetry for TLC |
| `ControllerProofs` | theorems about `Controller`, and that it implements `PersonalWorkspace` |
| `Gateway` | extends `Controller` by the proxy: a proxied request is a request goroutine that runs the controller's `Start` inside `ServeHTTP` |
| `MCGateway` | model values for `Gateway`, with `Refinement` |
| `GatewayProofs` | theorems about `Gateway`, from those about `Controller`, and that both together implement `PersonalWorkspace` |
| `Readiness`, `MCReadiness` | extends `Gateway` by a history of the requests that wait for a pod |
| `Accounts` | accounts, identities, sessions and the handlers that change them |
| `MCAccounts` | model values for `Accounts` |
| `AccountsProofs` | theorems about `Accounts` |
| `PersonalWorkspace` | what each user is promised, without goroutines or objects |
| `Refinement` | extends `Controller`, maps its state to `PersonalWorkspace` |
| `Activity`, `MCActivity` | one workspace's activity, the coalescing gateway and the idle sweep, with clocks |
| `ActivityProofs` | theorems about `Activity` |
| `Limiter`, `MCLimiter` | the login limiter |
| `LimiterProofs` | theorems about `Limiter`, and induction over a slice |
| `Startup`, `MCStartup`, `StartupProofs` | processes that start and migrate the schema; theorems about them |
| `Settings` | the OIDC settings row and its writers |
| `OIDC`, `MCOIDC` | extends `Settings` by logins from redirect to session, and the identities they leave |
| `OIDCProofs` | theorems about `Settings` and `OIDC` |
| `Provision`, `MCProvision` | runs of the provisioning command |
| `ProvisionProofs` | theorems about `Provision` |

A definition whose comment begins with *Seeded fault* is a plausible mistake in
the definition that follows it. It is not part of any specification; it is
substituted for that definition to see that a property notices.

### Controller

Every database statement or transaction and every Kubernetes API call is one
step. `pc[t]` is the call goroutine `t` makes next, `w[t]` the copy of the row
it works from, `revision[t]` the configuration `ensureSecret` read, and
`current[t]` says that the object it fetched has not been written since (its
resource version). One action per call, in the code's order:

    Start/Stop/Restart   set → read → Reconcile
    Purge                set → read → Reconcile → pvcDelete → record
    Reconcile            pvcGet (pvcCreate) → configRead → secretGet (secretCreate
                         | secretUpdate) → serviceGet (serviceCreate) →
                         deploymentGet (deploymentCreate | deploymentUpdate)
    Run                  sweep → list → items: Reconcile per row → sweep

`Failed` is the error path of each call: a request answers and is over, the loop
goes on with the next workspace. `CallFails` takes it at any call, `Crash`
restarts the process. What a request answers is not part of the state.

Data is abstracted to what the properties distinguish. A Secret is its revision
annotation, the revision of its files (`doc`) and its password; a Deployment its
replicas and the nonce in its pod template; a pod its phase and what it was
started with; a claim its phase, plus a number per volume created. `inactive[u]`
stands for "`last_activity_at` is older than the cutoff".

Kubernetes is external: a `Recreate` Deployment has at most one pod; the pod
starts when its claim is bound and its Secret exists, goes when the template or
the replicas say so; the Deployment's status follows later; a deleted claim is
terminating until no pod uses it.

Initially the tables hold one stopped row per user and there are no objects,
except for the users in `Deployed`, whose workspace an earlier process brought
up.

### Gateway

`ServeHTTP` is `row → (forget → Start) → backend lookup → (status → password →
cache) → touch → (touchWrite) → forward → (proxyError)`; each critical section
of the mutex, each database statement and each API call is a step. `backends`
holds the cached password (the address never changes for a user), `touched` says
that less than a minute passed since `lastTouch`. The pod's answer ends a request
whatever it is; only a transport error reaches the error handler. `Readiness`
adds one history variable, `awaits`: the requests that found their workspace
stopped and have seen no ready pod since.

### Accounts

One step per transaction, except `BootstrapAdmin`, whose three statements are
separated so that the table lock matters. `me[t]` is the user the middleware put
into the context: handlers use this copy and not the row. The OIDC callback
begins here with a verified subject and email; what comes before is in `OIDC`.
`Handlers[t]` says which requests goroutine `t` serves, one after another, and
`Choices` which OIDC settings the console and manifests store.

### PersonalWorkspace and Refinement

The promise has five variables: what is asked for (state and nonce), who is
being purged, the user's data (`none`, `kept`, `condemned`) and the pod. Data is
condemned only while a purge is under way and erased only after that and never
under a pod; a pod starts on kept data for a nonce that was asked for. The
mapping takes state, nonce and pod from `Controller` as they are, data from the
claim's phase, and the purges from the requests' operations. Secret, Service,
Deployment, all copies and all labels disappear. `KeepsPromise` is the abstract
specification with its fairness; that is stated as `[]<>~Due(u)` instead of
`WF`, because TLC cannot evaluate `ENABLED` of an action whose variables are
mapped expressions. Each action that is due ends its own being due, so the two
say the same. `NeverBreaksPromise` is the specification without its fairness. The
same mapping serves `Gateway`, where proxied requests are among the goroutines.

### Activity

Instants are ages, which `Tick` raises. `rowAge` is `last_activity_at` by the
database's clock, `touchAge` is `g.lastTouch[user]`, `cutoff` the age that
`reconcileAll` computed by the control plane's clock and has not sent yet.
`Touch` is the critical section of the mutex, `TouchWorkspace` or `TouchLost` the
statement after it. `usedAge`, `lull` and `lost` are history: when the workspace
was really used, the longest pause since the row was last written, and the
writes lost since then.

### Limiter

`Filter` performs `recent := old[:0]` with `append` on the array that is being
read: `Loop(old)[i]` is the array and the length of `recent` after `i` attempts,
a recursive function whose step is `Visit`. A key is `r.RemoteAddr`, port
included, with the user name, so the limit is one per connection and name
(`server.go:165`). The attempts of a key are ages; those
of ten minutes and more are alike. `granted` is history, kept without regard to
the code's slice: the attempts let through since the last success, oldest first,
less those that `Tick` makes lapse (`Current`).

### Startup

One step per statement of `Migrate`: `lock → table → check → (body → record →
commit → check) → unlock`, then `kube.New`, serving, shutdown. A transaction's
statements are flags until it commits. `Fail` is any error (rollback, deferred
unlock, exit), `CommitUnanswered` a commit that took effect though its answer was
lost, `Die` the end of a process with its session.

### Settings and OIDC

`saveOIDC` reads the row (`SaveOIDC`), merges the secret and replaces the row
(`Save`); the manifest's section replaces it at once. A read may fail, and the
handler then goes on with an empty secret. Two history variables serve
`BlankKeepsSecret`: `stored`, the secrets in the row since a request began, which
`Witness` keeps in every step that touches the settings, and `unread`, the
requests whose read failed. In `OIDC` a tab is at a
page of its own or in a request, whose local copies (`copy`, `account`) are part
of its state: `Start → provider → Callback → Exchange → OIDCUser → (LinkSelect →
LinkInsert | ProvisionOIDCUser) → NewSession`. State, nonce and verifier are one
number, the flow, in the cookie that the browser's tabs share. The provider
redeems a code once, for the client and the flow it was issued to. Settings,
accounts and disabled flags change in between. An administrator who gives the
email of one person to the account of another, or a provider that moves an
email to another person, is outside the model.

### Provision

One step per transaction: the actor, then `ProvisionUser` and
`SetWorkspaceConfiguration` for each entry. The actor is the first enabled
administrator in the list of users, which is in the order of creation. A run
that is cut off begins again from the first entry. An email may occur in a
manifest more than once; its last entry decides (`LastFor`).

## 3. What is checked

| Run | Instance | Properties | Result |
|---|---|---|---|
| `races` | 1 user, 2 requests from restart and purge, 1 configuration update, no failures | `TypeOK`, `DependenciesFirst`, `SecretHonest`, `PodPasswordCurrent`, `DatabaseLeads`, `CondemnedPodOutdated`, `SettledStays` | hold, 2.5 M states |
| `converge` | 2 users, the first with a running workspace, the second always refused by Kubernetes; 1 request of any kind, idle sweep, 1 update, 1 failure or crash | `Converges`, `KeepsPromise`, `PurgeTakesEffect` | hold, 637 k |
| `config` | running workspace, 1 update | `ConfigurationRollsPod` | violated, see 5 |
| `served` | running workspace, 1 client, 1 purging administrator, 1 failure or crash | `GatewayTypeOK`, `CachedPasswordWorks`, `ClientServed`, `NeverBreaksPromise` | hold, 1.1 M |
| `wait` | running workspace, 1 client, 1 stopping administrator | `WaitsForReadiness` | violated, see 5 |
| `overlap` | 2 goroutines: one for all handlers, OIDC callbacks and manifests, one for setup and user updates | `TypeOK`, `SingleBootstrap`, `LockReleased`, `LastAdminKept` | hold, 1.3 M |
| `demotion` | 2 goroutines: setup, login, create, update, password | `NoSelfDemotion` | violated, see 5 |
| `sweep` | 2 requests, timeout 5 and minute 2 ticks, skew 1, delay 1, 2 lost writes | `TypeOK`, `BusyStaysUp`, `IdleScalesDown` | hold, 709 k |
| `window` | 2 keys, 3 handlers, 3 attempts in 3 ticks | `TypeOK`, `AtMostLimit`, `FilterKeepsRecent`, `RefusedOnlyWhenFull`, `ShutOutEnds` | hold, 181 k |
| `upgrade` | 3 processes of 2 releases, 3 migrations, 3 failures or deaths | `TypeOK`, `AppliedAsRecorded`, `NoGaps`, `ServesOnItsSchema`, `AllServe` | hold, 21 k |
| `logins` | 2 people, 2 tabs of a browser, 2 issuers, 2 flows, console saves with a blank secret, enabled or not, manifest saves, failing reads | `OIDCTypeOK`, `OwnAccount`, `VouchedFor`, `FirstSubjectStays`, `BlankKeepsSecret` | hold, 2.3 M |
| `provision` | 2 overlapping manifests against the root account and each other's administrators, one of which has an email twice; console edits, 2 failures | `TypeOK`, `RecoveryAdminRemains`, `DoneMeansApplied`, `EventuallyDone` | hold, 56 k |

`LastAdminKept` is about a loss that can happen: two administrators whose
requests overlap can demote each other, and no document promises otherwise. It
says that this is the only way: the last enabled administrator goes only in a step
of a handler that acts for a user whose row has changed since the middleware read
it. `BlankKeepsSecret` treats the stored client secret alike: a form with a blank
field puts back an older one only if that was still stored when its request
began, and loses it only when its read failed and it switches OIDC off.

**Bounds.** Users never share an object; `converge` has two to show that the
failures of one do not hold up the other in the loop, the other runs one. Two
requests and the loop give three goroutines on one workspace: enough for a
writer, a goroutine with an older copy and one with an older copy still. `races`
takes restart and purge because their effects contain those of start and stop.
`MaxRevision` 1 lets a goroutine hold the configuration from before and after an
update; two passwords tell a kept one from a new one. `served` and `wait` keep
the revision at 0: an update of a Secret keeps its password, which
`PodPasswordCurrent` checks in `races`, and the cache holds nothing else of it.
`served` asks about the promise what `converge` cannot: there a request is one
an administrator makes, and here a client starts the workspace whenever it finds
it stopped, again and again, and writes *running* over the row. The promise lets
the desired state change at any time, so that this overwrites a stop is no breach
of it. Only `converge` and `served` have failures; `races` has the answers
AlreadyExists and Conflict, and its theorems cover every failure. A backend that
one client puts back after another forgot it needs two clients, which only
`CachedPasswordsWork` has.
`MaxFaults` bounds failures where convergence is asked for, since a call that
fails for ever converges to nothing. `Operations` and `Handlers` choose which
requests are sent. Each request goroutine of `Controller` serves one request
(so nonces are bounded by their number); clients of `Gateway` and goroutines of
`Accounts` serve one after another without a bound. In `overlap` the second
goroutine has the two requests that take an administrator away or compete for
the setup; everything the first one does overlaps with them.

The bounds of `Activity` keep the proportions that matter: the timeout is more
than two minutes, so that one lost write alone does not reach it and two do, and
skew and delay are each at least one tick. With a timeout close to or below the
minute, which the configuration does not refuse, `BusyStaysUp` says next to
nothing.
`Limiter` is finite without a bound, since ages stop at the window; a limit of
three lets entries lapse from the front, the middle and all at once. `Startup`
needs a binary that knows fewer migrations than are recorded, and two that know
as many. `OIDC` takes two issuers; the first person has two subjects at one, and
the first of them is the other person's at the other issuer, so that a subject
taken for the wrong issuer's is another person, and a second subject meets an
account that is linked already. Administrators make and disable the first person's
account; the other comes in by logins only, at an issuer whose settings do not
link by email. Two flows let one be in progress when the cookie
is replaced. Manifests of `Provision` are chosen for what they do to each other:
both demote the root account, one the administrator whom the other creates, and
one has the same email twice with different values.

**Symmetry** is used in `races` over the requests and in `logins` over the tabs,
which have the same operations and the same browser. Both check safety only.

**Fairness.** `Controller` assumes weak fairness of the loop goroutine (the
ticker keeps firing, each call returns with a result or an error) and of
Kubernetes per user. No request is assumed to go on: a client may disappear, and
convergence must come from the loop. The code sets no deadline on the loop's
calls, so a call that never returns is outside this assumption. `Gateway` adds
that clients keep asking, which the starting page does by refreshing itself
every three seconds, and that their calls return. `Accounts` assumes that a
transaction holding the table lock gets an answer or an error to its next
statement. Crashes stop eventually (`MaxFaults`).

`Activity` assumes that time passes, requests go on (a stream need not end), the
ticker fires and not every sweep fails; time and the sweep's statement strongly,
since each is held back by the other. `Limiter` assumes that time passes.
`Startup` assumes that processes go on and are started again, and strongly that a
waiting one gets the lock, because PostgreSQL grants advisory locks in the order
in which they are asked for. `Provision` assumes that a run goes on and that its
operator repeats it until it succeeds.

Deadlock is checked in every run.

## 4. What is proved

TLAPS checks the theorems below for every value of the constants, hence for any
number of users, goroutines, clients, tabs, runs and processes, and any bound on
failures. Where a theorem states a property that a run checks, the run shows it
on a small instance, and the inductive invariants were checked there first.

**Assumptions.** The modules state what they need of their constants: the loop is
not a request, clients are requests, bounds are naturals, users and passwords
are not empty, unreachable users are users. Four say something about the system:

* `SubjectsAssumption` (`OIDC`): some issuer has a subject. Otherwise there is
  no login to speak of.
* `OIDCAssumption` (`OIDC`): an issuer never gives two people the same subject,
  as the OpenID specification demands. Different issuers may.
* `ActivityAssumption` (`Activity`): the requests are a finite set, so that those
  whose write is under way can be counted.
* `ProvisionAssumption` (`Provision`): nobody edits the bootstrapped account on
  the console (`Bootstrapped \notin ConsoleEdits`). `RecoveryAdminRemains` is thus
  a statement about manifests: the console's own guard is the subject of
  `LastAdminKept`, and another administrator may demote that account there.

**Controller** (`ControllerProofs`).

* `TypeCorrect` (`TypeOK`) is inductive as it stands; one step per action, with
  lemmas for the control flow (`GotoType`, `GotoWithType`, `LabelTypes`) and the
  objects (`ObjectTypes`).
* `SecretsHonest` and `PasswordsCurrent` are inductive together (`SecretSafe`): a
  Secret is created only where there is none, hence where there is no pod, and
  an update keeps the password. `SecretFrame` disposes of all other steps.
* `DependenciesOrdered` (`DependenciesFirst`) needs `OrderKept`, which says of
  each goroutine which objects exist by the label it has reached (past the claim,
  the Secret, the Service), and `ClaimCounted`. Other goroutines only add objects
  (`Monotone`), and a Deployment is written only from a label past the Service.
* `SettledForGood` (`SettledStays`) is an action property. It follows from where
  copies of rows come from: a goroutine inside `Reconcile` has the copy it had,
  one of the listing's, or one it reads in this step (`CopiesKept`,
  `StepKeepsCopies`). Hence no old copy appears once there is none, and a
  Deployment is written only from a copy (`DeploymentFrame`).
* `DatabaseAhead` (`DatabaseLeads`) is not inductive: a Deployment is written from
  a copy. `Lagging` adds that copies and listed rows are not ahead (`CopiesLag`),
  that the revision `ensureSecret` read is not (`RevisionsLag`), and that a
  Secret's files are not (`FilesLag`). Nonces count one at a time, and revisions
  only grow.
* `CondemnedPodsOutdated` (`CondemnedPodOutdated`) needs in addition that a bound
  claim is never the condemned one (`PurgedBefore`): the record step of `Purge`
  raises the nonce above every nonce in the cluster, which `Lagging` bounds, and a
  pod starts on a bound claim only.

**Refinement** (the last part of `ControllerProofs`). `ImplementsPromise`:
`Spec => NeverBreaksPromise`.
Initial states map to initial states (`PromiseInit`) and each step to a step or
a stutter (`PromiseStep`): steps that touch a claim, steps that change a pod, and
all the others, which change at most what is asked for. The invariant `Mapped`
adds to `Lagging` that only a purge reaches the deletion of a claim and that the
absence of a pod has one representation. That a pod starts only for a nonce that
was asked for follows from `Lagging`: the Deployment that it starts from is not
ahead. The fairness of the promise is left to `converge`.

**Gateway** (`GatewayProofs`). `GatewayTypeCorrect` and `CachedPasswordsWork`
(`CachedPasswordWorks`). The controller's invariants carry over, since the proxy
writes no cluster object and enters none of the labels that rely on one
(`ProxyMoves`). The property speaks of pods only and is not inductive: a backend
is cached when no pod need run. `Backed` says instead that a cached or held
backend has the password of a Secret that exists; with `PodPasswordCurrent`
it follows. `PasswordKept` is what holds it up: no step changes or deletes the
password of a Secret that exists.

`ProxyKeepsPromise`: `GatewaySpec => NeverBreaksPromise`, the refinement for the
composition; `ProxiedPodsOutdated` (`CondemnedPodOutdated`) and
`ProxiedSettledForGood` (`SettledStays`), the same of what is proved about the
controller alone. Each step of the composition is one of the controller or one of
the proxy (`Steps`). The former keep the controller's invariants and map to the
promise by the lemmas of `ControllerProofs`; the latter count nothing, bring no
copy of a row into `Reconcile` and leave Kubernetes alone (`ProxyQuiet`), so that
they keep `Carried`, all those invariants together, and map to `Ask`. What a
proxied request starts, it starts through `Start`, whose steps are the
controller's. The fairness of the promise is left to `converge`, and for a
client's own requests to `ClientServed`.

**Accounts** (`AccountsProofs`).

* `BootstrapOnce` (`SingleBootstrap`), strengthened to `Bootstrapping`: the
  statements of `BootstrapAdmin` run under the lock, an insert follows an empty
  table, and every session, OIDC configuration and label behind a login
  presupposes that setup succeeded.
* `TypeCorrect` (`TypeOK`) adds that sessions and identities refer to accounts.
  That needs `Acting`: who acts, acts for an account that exists. Accounts are
  never deleted (`AccountsStay`).
* `LastAdminNotLost` (`LastAdminKept`), an action property. `Acting` also says
  that the copy behind an administrator's form is an administrator's. If nobody is
  overtaken, the copy is the row, so the one who acts is an administrator, and
  the handler keeps him one (`StepKeepsAdmin`).

**OIDC** (`OIDCProofs`).

* `BlankKeepsSecrets` (`BlankKeepsSecret`), an action property. `Remembered` says
  that each request that is saving has lived to see the row's secret and the one
  it read, or failed to read; `Witnessed` keeps the former. Only `Save` ends a
  request, and it refuses a form that enables OIDC without a secret
  (`StepKeepsSecret`).
* `LoginsTypeCorrect`, `IdentitiesVouchedFor` (`VouchedFor`), `OwnAccounts`
  (`OwnAccount`) and `FirstSubjectsStay` (`FirstSubjectStays`) come from one
  invariant. `Consistent` says what a tab has behind it: from the provider's
  answer on, its issuer has shown this subject of this person; once the claims are
  accepted, the issuer of the copied settings is the one the tab was sent to; at
  the session, its identity is in the table. `Truthful` says that issuers show the
  world as it is, and `Registry` that both unique indexes hold.

**Provision** (`ProvisionProofs`).

* `ProvisionTypeCorrect` (`TypeOK`) adds that no email has two accounts.
* `RootAccountRemains` (`RecoveryAdminRemains`) is not inductive: a run that acts
  for another administrator would demote the root account. `Recovery` says that
  this account is the oldest, so that every run acts for it.
* `ManifestApplied` (`DoneMeansApplied`). `Progress` is the invariant of the loop:
  the accounts and the configurations are as the last of the first `n` entries for
  each email says, where `n` is one more for the accounts while the configuration
  of the entry at hand is due.

**Activity** (`ActivityProofs`). `ActivityTypeCorrect` and `BusyWorkspacesStayUp`
(`BusyStaysUp`), an action property. `RowKeepsUp` bounds the age of the row at all
times: each note that is lost or on its way allows a minute and a pause, and one
more minute and the current pause come on top. `CutoffOldEnough` says that a
cutoff only gets older on its way to the database. The products make it
nonlinear; `Products` states what is needed of them.

**Startup** (`StartupProofs`). `TypeCorrect`, `MigratedOnce`
(`AppliedAsRecorded`), `MigratedInOrder` (`NoGaps`) and `ServesMigrated`
(`ServesOnItsSchema`), from one inductive invariant. It adds that a process
between lock and unlock is the holder (`OneMigrates`), which statements a
transaction holds (`Uncommitted`), that the loop has left nothing out (`Passed`)
and that it runs only what nobody has recorded (`AtHand`). The last would be
disturbed by another process's commit, which `OneMigrates` excludes. The history
variable `applied` counts committed bodies.

**Limiter** (`LimiterProofs`). `LimiterTypeCorrect` (`TypeOK`),
`NeverMoreThanLimit` (`AtMostLimit`), `FilterSound` (`FilterKeepsRecent`) and
`RefusalsJustified` (`RefusedOnlyWhenFull`), for a window, a limit and a slice of
any length. They need an induction over the slice. The library's induction
theorems take a predicate, which the provers cannot instantiate, but the least
element of a set of numbers (`Least`, from the well-foundedness of `<`) does as
well:

* `Induction`: a set of numbers that has 0 and the successor of each of its
  members has all of them. `Recursion`: every loop has an execution. `LoopRuns`:
  `Loop` is one of the filter's.
* `VisitKeeps` is the loop's invariant (`Visited`): the recent attempts among
  those visited are in front, in order and once each, and nothing that is still
  to be read has been written over, because `recent` is never longer than what
  was read. `FilterSieves` draws the conclusion, which is `FilterSound`.
* `IInv` is the invariant behind the other three. What is kept under a key is
  what was let through since its last success (`granted`), behind attempts that
  have lapsed (`Tracks`); hence the filter returns `granted` (`FilterIs`,
  `FilterTracked`), and the limit it is compared with bounds both. The clock
  keeps that, since the oldest lapse first (`CurrentIs`, `TracksTick`).

**Only model-checked.**

* Liveness is outside of what this prover handles: `Converges`,
  `PurgeTakesEffect`, `ClientServed`, `LockReleased`, `IdleScalesDown`,
  `ShutOutEnds`, `AllServe`, `EventuallyDone`, and the fairness part of
  `KeepsPromise`.
* The three violations of section 5.

## 5. Where the code and its documents disagree

* `config`: `docs/workspace-provisioning.mdx:59` says that updating the
  configuration "rolls the user's workspace pod on the next reconciliation". The
  pod template carries the restart nonce only (`controller.go:328`), which an
  update does not move; the Secret changes and the pod keeps its files until
  something else restarts it.
* `wait`: `docs/workspaces.mdx:15` says that the platform starts a stopped
  workspace "and waits for readiness before proxying traffic". Readiness comes
  from the Deployment's status (`controller.go:232`), which can still count the
  pod from before the stop, so a request can be forwarded to nothing. `served`
  shows that a client recovers by asking again.
* `demotion`: `docs/authentication.mdx:22` says that an administrator "cannot
  disable or demote their own account". `changePassword` writes back role,
  disabled flag and email as they were when the request began
  (`server.go:340`), so it undoes whatever an administrator changed meanwhile,
  a promotion of its own user included.

Noticed while modelling, listed as hazards with their lines, and without a run,
because each follows from one definition:

* a proxied stream counts as activity when it begins and not while it lasts
  (`gateway.go:120`), so a workspace can be stopped under a client that is
  streaming from it (`Touch` and `IdleWorkspaces` of `Activity`);
* a settings form that leaves the client secret blank writes back the secret it
  read (`server.go:367-371`), over one stored in between; and when that read
  fails, the error is dropped and the secret is lost, if the form also switches
  OIDC off (`SaveOIDC` and `Merged` of `Settings`). `admin.html:17` says "Stored;
  enter to replace" of that field; `BlankKeepsSecret` says that these are the only
  two ways in which a blank field changes what is stored;
* user names are unique and manifest entries are applied one at a time
  (`database.go:279`), so a manifest that exchanges two names fails at the same
  entry on each run (`NameFree` of `Provision`).

## 6. Not modelled

* Configuration loading (`internal/config`): parsing and checks of environment
  variables before anything has state; an error ends the process.
* Password hashing, signatures, cookies' encoding and encryption: cryptography,
  taken as correct. What depends on it (a verified subject, a decrypted row) is
  an input of the models.
* Templates, static files, the status shown on screens, branding: read or
  written whole, and nothing else depends on them.
* The audit log: one insert in each writing transaction, read by a screen only.
* The Helm chart, images and what is on a volume.
* The drain of requests at shutdown: a death at any moment (`Crash`, `Die`) is
  harsher.
* Two clients in `Gateway` at once: eleven million states, beyond a useful run;
  a client with an administrator takes their place.

## 7. Plan

Done: `Controller`, `Gateway`, `Accounts`, `Activity`, `Limiter`, `Startup`,
`Settings`, `OIDC`, `Provision`; the refinement, for the controller alone and
with its gateway, with the proof of its steps; and theorems for every safety
property that the passing runs check. Left, in this order:

1. The requests that are still being served when `Shutdown` begins: `Startup`
   ends them with the process, while the code closes the pool under them.
2. The limiter's map itself: entries of keys that are never tried again stay,
   which the models show as keys without attempts.
3. The liveness of `PersonalWorkspace` with its gateway (`KeepsPromise` in
   `served`) and with several administrators at once, when the state space allows
   a run of a few minutes; the theorems cover both for safety.
