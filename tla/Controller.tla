------------------------------ MODULE Controller ------------------------------
(***************************************************************************)
(* The workspace controller (internal/kube/controller.go) between its two  *)
(* stores: the workspaces and workspace_configurations tables it reads as  *)
(* desired state, and the Kubernetes objects it writes.  Every database    *)
(* statement and every Kubernetes API call is one atomic step; the         *)
(* goroutine of Run and the goroutines serving lifecycle requests          *)
(* interleave between them, each working on the copy of the row it read.   *)
(*                                                                         *)
(* Kubernetes itself (deployment controller, kubelet, volume protection)   *)
(* is external and modelled from what the controller relies on.            *)
(***************************************************************************)
EXTENDS Integers

CONSTANTS
  Users,        \* users.id: one workspaces row and one resource name each
  Requests,     \* goroutines serving one HTTP request each
  Loop,         \* the goroutine of Controller.Run
  Operations,   \* bound: the lifecycle operations requested
  Deployed,     \* users whose workspace already runs when Run starts
  Passwords,    \* values of the 32 random bytes of ensureSecret
  Unreachable,  \* users whose Kubernetes calls all fail (quota, admission)
  IdleEnabled,  \* WORKSPACE_IDLE_TIMEOUT > 0
  MaxRevision,  \* bound: configuration revisions per user
  MaxFaults     \* bound: failed calls, cancelled requests and crashes

AdminOps == {"start", "stop", "restart", "purge"}

ASSUME LoopAssumption    == Loop \notin Requests
ASSUME BoundsAssumption  == MaxRevision \in Nat /\ MaxFaults \in Nat
ASSUME FlagAssumption    == IdleEnabled \in BOOLEAN
ASSUME UsersAssumption   == Users # {} /\ Passwords # {}
ASSUME ReachAssumption   == Unreachable \subseteq Users
ASSUME SetupAssumption   == /\ Deployed \subseteq Users \ Unreachable
                            /\ Operations \subseteq AdminOps

VARIABLES
  desired,      \* workspaces.desired_state
  nonce,        \* workspaces.restart_nonce
  inactive,     \* last_activity_at is older than the idle cutoff
  config,       \* workspace_configurations.revision, 0 when there is no row
  pvc,          \* PersistentVolumeClaim: absent, bound or terminating
  volume,       \* number of claims created so far: identifies the volume
  secret,       \* the "-auth" Secret
  service,      \* the Service exists
  deployment,   \* the Deployment's spec
  ready,        \* deployment.Status.ReadyReplicas > 0
  pod,          \* the workspace's pod
  pc,           \* the call each goroutine makes next
  op,           \* what each request asks for
  w,            \* each goroutine's copy of a workspaces row
  revision,     \* ensureSecret's copy of the configuration
  current,      \* the object a goroutine fetched has not been written since
  listed,       \* rows ListWorkspaces returned that are still to reconcile
  purged,       \* history: the volume condemned by the last complete purge
  faults        \* failures so far

database == <<desired, nonce, inactive, config>>
cluster  == <<pvc, volume, secret, service, deployment, ready, pod>>
scratch  == <<revision, current>>
locals   == <<op, w, scratch>>
history  == <<purged, faults>>
vars     == <<database, cluster, pc, locals, listed, history>>

Threads  == Requests \cup {Loop}
States   == {"running", "stopped"}
Rows     == [user : Users, desired : States, nonce : Nat]

Claims      == {"absent", "bound", "terminating"}
Secrets     == [exists : BOOLEAN, rev : Nat, doc : Nat, pw : Passwords]
Deployments == [exists : BOOLEAN, replicas : {0, 1}, nonce : Nat]
Pods        == [phase : {"none", "starting", "ready"}, nonce : Nat, doc : Nat,
                pw : Passwords]

KubeCalls ==
  {"pvcGet", "pvcCreate", "secretGet", "secretCreate", "secretUpdate",
   "serviceGet", "serviceCreate", "deploymentGet", "deploymentCreate",
   "deploymentUpdate", "pvcDelete"}

StoreCalls == {"set", "read", "configRead", "record", "sweep", "list"}

(* Labels of the proxy module's goroutines (Gateway), which also call Start. *)
ProxyCalls == {"forget", "backend", "status", "password", "cache", "touch",
               "touchWrite", "forward", "proxyError"}

Labels == {"new", "done", "items"} \cup KubeCalls \cup StoreCalls \cup ProxyCalls

(***************************************************************************)
(* What the objects look like.                                             *)
(***************************************************************************)
AnyPassword == CHOOSE p \in Passwords : TRUE
AnyUser     == CHOOSE u \in Users : TRUE

NoSecret     == [exists |-> FALSE, rev |-> 0, doc |-> 0, pw |-> AnyPassword]
NoDeployment == [exists |-> FALSE, replicas |-> 0, nonce |-> 0]
NoPod        == [phase |-> "none", nonce |-> 0, doc |-> 0, pw |-> AnyPassword]
NoRow(u)     == [user |-> u, desired |-> "stopped", nonce |-> 0]

RunningPod    == [NoPod EXCEPT !.phase = "ready"]
FirstSecret   == [NoSecret EXCEPT !.exists = TRUE]
OneReplica    == [exists |-> TRUE, replicas |-> 1, nonce |-> 0]

(* The control plane starts on new workspaces and, for Deployed users, on  *)
(* workspaces an earlier process brought up.                               *)
Init ==
  /\ desired    = [u \in Users |-> IF u \in Deployed THEN "running" ELSE "stopped"]
  /\ nonce      = [u \in Users |-> 0]
  /\ inactive   = [u \in Users |-> FALSE]
  /\ config     = [u \in Users |-> 0]
  /\ pvc        = [u \in Users |-> IF u \in Deployed THEN "bound" ELSE "absent"]
  /\ volume     = [u \in Users |-> IF u \in Deployed THEN 1 ELSE 0]
  /\ secret     = [u \in Users |-> IF u \in Deployed THEN FirstSecret ELSE NoSecret]
  /\ service    = [u \in Users |-> u \in Deployed]
  /\ deployment = [u \in Users |-> IF u \in Deployed THEN OneReplica ELSE NoDeployment]
  /\ ready      = [u \in Users |-> u \in Deployed]
  /\ pod        = [u \in Users |-> IF u \in Deployed THEN RunningPod ELSE NoPod]
  /\ pc         = [t \in Threads |-> IF t = Loop THEN "sweep" ELSE "new"]
  /\ op         = [t \in Threads |-> "start"]
  /\ w          = [t \in Threads |-> NoRow(AnyUser)]
  /\ revision   = [t \in Threads |-> 0]
  /\ current    = [t \in Threads |-> FALSE]
  /\ listed     = {}
  /\ purged     = [u \in Users |-> 0]
  /\ faults     = 0

(***************************************************************************)
(* Control flow shared by every goroutine.                                 *)
(***************************************************************************)
RowOf(u) == [user |-> u, desired |-> desired[u], nonce |-> nonce[u]]

(* Goroutine t goes on to call label; when it returns, its locals go with  *)
(* it.  What a request answers is not part of the state.                   *)
Goto(t, label) ==
  LET returns == label \in {"done", "items"} IN
  /\ pc' = [pc EXCEPT ![t] = label]
  /\ op' = [op EXCEPT ![t] = IF returns THEN "start" ELSE @]
  /\ w'  = [w EXCEPT ![t] = IF returns THEN NoRow(AnyUser) ELSE @]

(* The same with the row copy r, just read. *)
GotoWith(t, label, r) ==
  /\ pc' = [pc EXCEPT ![t] = label]
  /\ w'  = [w EXCEPT ![t] = r]
  /\ UNCHANGED op

(* Where a goroutine continues when Reconcile returns nil. *)
Returned(t) ==
  IF t = Loop THEN "items"
  ELSE IF op[t] = "purge" THEN "pvcDelete"
  ELSE IF op[t] = "proxy" THEN "backend"
  ELSE "done"

(* Seeded fault: an error of one workspace ends the whole pass. *)
FailedStopsLoop(t) ==
  IF t # Loop THEN "done"
  ELSE IF pc[t] = "sweep" THEN "list" ELSE "sweep"

(* Where it continues when the call it makes returns an error: the loop    *)
(* logs it and goes on with the next workspace (or, if the sweep failed,   *)
(* with the listing; if the listing failed, with the next tick); a request *)
(* answers with an error.                                                  *)
Failed(t) ==
  IF t # Loop THEN "done"
  ELSE IF pc[t] = "sweep" THEN "list"
  ELSE IF pc[t] = "list" THEN "sweep"
  ELSE "items"

(* A write of user u's object outdates what goroutines at label hold. *)
Outdate(u, label) ==
  [t \in Threads |-> current[t] /\ ~(pc[t] = label /\ w[t].user = u)]

At(t, label) ==
  /\ pc[t] = label
  /\ label \in KubeCalls => w[t].user \notin Unreachable

(***************************************************************************)
(* Lifecycle requests: Start, Stop, Restart and Purge.                     *)
(***************************************************************************)

(* A request for user u reaches workspaceAction or stopWorkspace.  Purge   *)
(* reads the row first, for the resource name only.                        *)
Begin(t, u, o) ==
  /\ pc[t] = "new"
  /\ pc' = [pc EXCEPT ![t] = "set"]
  /\ op' = [op EXCEPT ![t] = o]
  /\ w'  = [w EXCEPT ![t] = NoRow(u)]
  /\ UNCHANGED <<database, cluster, revision, current, listed, history>>

(* Seeded fault: the name of the operation is stored as the state. *)
StateAsOperation(o) == IF o = "stop" THEN "stopped" ELSE o

(* The desired state an operation asks SetWorkspaceState for. *)
StateFor(o) == IF o \in {"stop", "purge"} THEN "stopped" ELSE "running"

(* One transaction: desired_state, restart_nonce and last_activity_at. *)
SetWorkspaceState(t) ==
  LET u == w[t].user IN
  /\ At(t, "set")
  /\ desired'  = [desired EXCEPT ![u] = StateFor(op[t])]
  /\ nonce'    = [nonce EXCEPT ![u] = IF op[t] = "restart" THEN @ + 1 ELSE @]
  /\ inactive' = [inactive EXCEPT ![u] = @ /\ StateFor(op[t]) = "stopped"]
  /\ Goto(t, "read")
  /\ UNCHANGED <<config, cluster, scratch, listed, history>>

(* Seeded fault: reconcile from the row as it was before the write. *)
WorkspaceReadBefore(t) ==
  /\ At(t, "read")
  /\ GotoWith(t, "pvcGet", w[t])
  /\ UNCHANGED <<database, cluster, scratch, listed, history>>

(* Store.Workspace: the copy of the row that Reconcile will work from. *)
Workspace(t) ==
  /\ At(t, "read")
  /\ GotoWith(t, "pvcGet", RowOf(w[t].user))
  /\ UNCHANGED <<database, cluster, scratch, listed, history>>

(* Purge, after Stop returned: delete the claim; NotFound is ignored.  A   *)
(* claim in use stays terminating until its pod is gone.                   *)
DeletePVC(t) ==
  LET u == w[t].user IN
  /\ At(t, "pvcDelete")
  /\ pvc' = [pvc EXCEPT ![u] = IF @ = "absent" THEN @ ELSE "terminating"]
  /\ Goto(t, "record")
  /\ UNCHANGED <<database, volume, secret, service, deployment, ready, pod,
                 scratch, listed, history>>

(* Seeded fault: the purge leaves restart_nonce as it was. *)
RecordWithoutNonce(t) ==
  LET u == w[t].user IN
  /\ At(t, "record")
  /\ desired' = [desired EXCEPT ![u] = "stopped"]
  /\ purged'  = [purged EXCEPT ![u] =
                   IF pvc[u] = "terminating" THEN volume[u] ELSE 0]
  /\ Goto(t, "done")
  /\ UNCHANGED <<nonce, inactive, config, cluster, scratch, listed, faults>>

(* Purge's last transaction.  The nonce moves so that the pod template     *)
(* changes even when a Start slipped in after Purge's Stop.                *)
DeleteWorkspaceDataRecord(t) ==
  LET u == w[t].user IN
  /\ At(t, "record")
  /\ desired' = [desired EXCEPT ![u] = "stopped"]
  /\ nonce'   = [nonce EXCEPT ![u] = @ + 1]
  /\ purged'  = [purged EXCEPT ![u] =
                   IF pvc[u] = "terminating" THEN volume[u] ELSE 0]
  /\ Goto(t, "done")
  /\ UNCHANGED <<inactive, config, cluster, scratch, listed, faults>>

(***************************************************************************)
(* Reconcile: ensurePVC, ensureSecret, ensureService, ensureDeployment, in *)
(* this order, from the row copy w[t].  A Get and the write that follows   *)
(* it are separate calls; a Create that finds the object there returns     *)
(* AlreadyExists and an Update of an outdated object returns Conflict.     *)
(***************************************************************************)
EnsurePVCGet(t) ==
  /\ At(t, "pvcGet")
  /\ Goto(t, IF pvc[w[t].user] = "absent" THEN "pvcCreate" ELSE "configRead")
  /\ UNCHANGED <<database, cluster, scratch, listed, history>>

EnsurePVCCreate(t) ==
  LET u == w[t].user IN
  /\ At(t, "pvcCreate")
  /\ IF pvc[u] = "absent"
     THEN /\ pvc'    = [pvc EXCEPT ![u] = "bound"]
          /\ volume' = [volume EXCEPT ![u] = @ + 1]
          /\ Goto(t, "configRead")
     ELSE Goto(t, Failed(t)) /\ UNCHANGED <<pvc, volume>>
  /\ UNCHANGED <<database, secret, service, deployment, ready, pod, scratch,
                 listed, history>>

(* Store.WorkspaceConfiguration, at the head of ensureSecret. *)
EnsureSecretConfig(t) ==
  /\ At(t, "configRead")
  /\ revision' = [revision EXCEPT ![t] = config[w[t].user]]
  /\ Goto(t, "secretGet")
  /\ UNCHANGED <<database, cluster, current, listed, history>>

(* The Secret's annotation, its managed files, and its password. *)
CreatedSecret(rev, p) == [exists |-> TRUE, rev |-> rev, doc |-> rev, pw |-> p]

(* Seeded fault: only the annotation moves, not the files. *)
UpdatedSecretAnnotation(s, rev) == [s EXCEPT !.rev = rev]

(* Seeded fault: the update draws a new password. *)
UpdatedSecretPassword(s, rev) ==
  [s EXCEPT !.rev = rev, !.doc = rev,
            !.pw = CHOOSE p \in Passwords : p # s.pw]

UpdatedSecret(s, rev) == [s EXCEPT !.rev = rev, !.doc = rev]

(* Seeded fault: a missing Secret counts as one at revision 0. *)
EnsureSecretGetSkips(t) ==
  LET s     == secret[w[t].user]
      found == s.rev = revision[t]
      stale == s.exists /\ s.rev # revision[t] IN
  /\ At(t, "secretGet")
  /\ current'  = [current EXCEPT ![t] = stale]
  /\ revision' = [revision EXCEPT ![t] = IF found THEN 0 ELSE @]
  /\ Goto(t, IF found THEN "serviceGet"
             ELSE IF stale THEN "secretUpdate" ELSE "secretCreate")
  /\ UNCHANGED <<database, cluster, listed, history>>

(* Seeded fault: the Secret is applied, with a password drawn anew, without *)
(* looking for the one that is there.                                      *)
EnsureSecretApplied(t) ==
  LET u == w[t].user IN
  /\ At(t, "secretGet")
  /\ \E p \in Passwords :
       secret' = [secret EXCEPT ![u] = CreatedSecret(revision[t], p)]
  /\ revision' = [revision EXCEPT ![t] = 0]
  /\ Goto(t, "serviceGet")
  /\ UNCHANGED <<database, pvc, volume, service, deployment, ready, pod,
                 current, listed, history>>

EnsureSecretGet(t) ==
  LET s     == secret[w[t].user]
      found == s.exists /\ s.rev = revision[t]
      stale == s.exists /\ s.rev # revision[t] IN
  /\ At(t, "secretGet")
  /\ current'  = [current EXCEPT ![t] = stale]
  /\ revision' = [revision EXCEPT ![t] = IF found THEN 0 ELSE @]
  /\ Goto(t, IF found THEN "serviceGet"
             ELSE IF stale THEN "secretUpdate" ELSE "secretCreate")
  /\ UNCHANGED <<database, cluster, listed, history>>

EnsureSecretCreate(t) ==
  LET u == w[t].user IN
  /\ At(t, "secretCreate")
  /\ IF secret[u].exists
     THEN Goto(t, Failed(t)) /\ UNCHANGED secret
     ELSE /\ \E p \in Passwords :
               secret' = [secret EXCEPT ![u] = CreatedSecret(revision[t], p)]
          /\ Goto(t, "serviceGet")
  /\ revision' = [revision EXCEPT ![t] = 0]
  /\ UNCHANGED <<database, pvc, volume, service, deployment, ready, pod,
                 current, listed, history>>

EnsureSecretUpdate(t) ==
  LET u == w[t].user IN
  /\ At(t, "secretUpdate")
  /\ IF current[t]
     THEN /\ secret'  = [secret EXCEPT ![u] = UpdatedSecret(@, revision[t])]
          /\ current' = Outdate(u, "secretUpdate")
          /\ Goto(t, "serviceGet")
     ELSE Goto(t, Failed(t)) /\ UNCHANGED <<secret, current>>
  /\ revision' = [revision EXCEPT ![t] = 0]
  /\ UNCHANGED <<database, pvc, volume, service, deployment, ready, pod,
                 listed, history>>

EnsureServiceGet(t) ==
  /\ At(t, "serviceGet")
  /\ Goto(t, IF service[w[t].user] THEN "deploymentGet" ELSE "serviceCreate")
  /\ UNCHANGED <<database, cluster, scratch, listed, history>>

EnsureServiceCreate(t) ==
  LET u == w[t].user IN
  /\ At(t, "serviceCreate")
  /\ service' = [service EXCEPT ![u] = TRUE]
  /\ Goto(t, IF service[u] THEN Failed(t) ELSE "deploymentGet")
  /\ UNCHANGED <<database, pvc, volume, secret, deployment, ready, pod,
                 scratch, listed, history>>

(* Seeded fault: an update never scales to zero. *)
DeploymentKeepsReplicas(r) == [exists |-> TRUE, replicas |-> 1, nonce |-> r.nonce]

(* Seeded fault: the annotation is one ahead of the row. *)
DeploymentBumpsNonce(r) ==
  [exists   |-> TRUE,
   replicas |-> IF r.desired = "running" THEN 1 ELSE 0,
   nonce    |-> r.nonce + 1]

(* The spec ensureDeployment writes: replicas from the desired state, the  *)
(* restart nonce as an annotation of the pod template.                     *)
DeploymentFor(r) ==
  [exists   |-> TRUE,
   replicas |-> IF r.desired = "running" THEN 1 ELSE 0,
   nonce    |-> r.nonce]

EnsureDeploymentGet(t) ==
  /\ At(t, "deploymentGet")
  /\ current' = [current EXCEPT ![t] = deployment[w[t].user].exists]
  /\ Goto(t, IF deployment[w[t].user].exists THEN "deploymentUpdate"
             ELSE "deploymentCreate")
  /\ UNCHANGED <<database, cluster, revision, listed, history>>

EnsureDeploymentCreate(t) ==
  LET u == w[t].user IN
  /\ At(t, "deploymentCreate")
  /\ IF deployment[u].exists
     THEN Goto(t, Failed(t)) /\ UNCHANGED deployment
     ELSE /\ deployment' = [deployment EXCEPT ![u] = DeploymentFor(w[t])]
          /\ Goto(t, Returned(t))
  /\ UNCHANGED <<database, pvc, volume, secret, service, ready, pod, scratch,
                 listed, history>>

(* An update that changes nothing may leave the resource version alone. *)
EnsureDeploymentUpdate(t) ==
  LET u == w[t].user IN
  /\ At(t, "deploymentUpdate")
  /\ IF current[t]
     THEN /\ deployment' = [deployment EXCEPT ![u] = DeploymentFor(w[t])]
          /\ \/ current' = Outdate(u, "deploymentUpdate")
             \/ deployment' = deployment /\ current' = [current EXCEPT ![t] = FALSE]
          /\ Goto(t, Returned(t))
     ELSE Goto(t, Failed(t)) /\ UNCHANGED <<deployment, current>>
  /\ UNCHANGED <<database, pvc, volume, secret, service, ready, pod,
                 revision, listed, history>>

Reconcile(t) ==
  \/ EnsurePVCGet(t)        \/ EnsurePVCCreate(t)
  \/ EnsureSecretConfig(t)  \/ EnsureSecretGet(t)
  \/ EnsureSecretCreate(t)  \/ EnsureSecretUpdate(t)
  \/ EnsureServiceGet(t)    \/ EnsureServiceCreate(t)
  \/ EnsureDeploymentGet(t) \/ EnsureDeploymentCreate(t)
  \/ EnsureDeploymentUpdate(t)

(***************************************************************************)
(* The reconciliation loop: Run and reconcileAll.                          *)
(***************************************************************************)

(* Store.IdleWorkspaces: one UPDATE over all rows. *)
IdleWorkspaces ==
  /\ pc[Loop] = "sweep"
  /\ desired' = [u \in Users |->
                   IF IdleEnabled /\ desired[u] = "running" /\ inactive[u]
                   THEN "stopped" ELSE desired[u]]
  /\ Goto(Loop, "list")
  /\ UNCHANGED <<nonce, inactive, config, cluster, scratch, listed, history>>

ListWorkspaces ==
  /\ pc[Loop] = "list"
  /\ listed' = {RowOf(u) : u \in Users}
  /\ Goto(Loop, "items")
  /\ UNCHANGED <<database, cluster, scratch, history>>

(* The range over items.  The listing is ordered by created_at; any order  *)
(* is allowed here.                                                        *)
NextItem ==
  /\ pc[Loop] = "items"
  /\ \E r \in listed :
       /\ listed' = listed \ {r}
       /\ GotoWith(Loop, "pvcGet", r)
  /\ UNCHANGED <<database, cluster, scratch, history>>

Tick ==
  /\ pc[Loop] = "items" /\ listed = {}
  /\ Goto(Loop, "sweep")
  /\ UNCHANGED <<database, cluster, scratch, listed, history>>

LoopStep == IdleWorkspaces \/ ListWorkspaces \/ NextItem \/ Tick

(***************************************************************************)
(* The environment of the controller.                                      *)
(***************************************************************************)

(* The provisioning command stores a new configuration revision. *)
SetWorkspaceConfiguration(u) ==
  /\ config[u] < MaxRevision
  /\ config' = [config EXCEPT ![u] = @ + 1]
  /\ UNCHANGED <<desired, nonce, inactive, cluster, pc, locals, listed, history>>

(* Time passes until last_activity_at falls behind the idle cutoff.  Every  *)
(* write that makes a row running also sets last_activity_at, so the age of *)
(* a stopped row never matters.                                             *)
Expire(u) ==
  /\ IdleEnabled
  /\ desired[u] = "running" /\ ~inactive[u]
  /\ inactive' = [inactive EXCEPT ![u] = TRUE]
  /\ UNCHANGED <<desired, nonce, config, cluster, pc, locals, listed, history>>

(* A call fails, or the request's context is cancelled before it. *)
CallFails(t) ==
  /\ pc[t] \in KubeCalls \cup StoreCalls
  /\ \/ faults < MaxFaults /\ faults' = faults + 1
     \/ pc[t] \in KubeCalls /\ w[t].user \in Unreachable /\ UNCHANGED faults
  /\ Goto(t, Failed(t))
  /\ revision' = [revision EXCEPT ![t] = 0]
  /\ current'  = [current EXCEPT ![t] = FALSE]
  /\ UNCHANGED <<database, cluster, listed, purged>>

(* The control plane dies and is started again: requests in flight are     *)
(* lost, Run starts with a pass; both stores keep what they hold.          *)
Crash ==
  /\ faults < MaxFaults /\ faults' = faults + 1
  /\ pc' = [t \in Threads |->
              IF t = Loop THEN "sweep"
              ELSE IF pc[t] = "new" THEN "new" ELSE "done"]
  /\ op'       = [t \in Threads |-> "start"]
  /\ w'        = [t \in Threads |-> NoRow(AnyUser)]
  /\ revision' = [t \in Threads |-> 0]
  /\ current'  = [t \in Threads |-> FALSE]
  /\ listed'   = {}
  /\ UNCHANGED <<database, cluster, purged>>

(***************************************************************************)
(* Kubernetes (external): a Recreate Deployment, a pod that needs its      *)
(* claim and its Secret, and claim deletion held back while a pod uses it. *)
(***************************************************************************)
PodStart(u) ==
  /\ deployment[u].replicas = 1
  /\ pod[u].phase = "none"
  /\ pvc[u] = "bound" /\ secret[u].exists
  /\ pod' = [pod EXCEPT ![u] =
               [phase |-> "starting", nonce |-> deployment[u].nonce,
                doc |-> secret[u].doc, pw |-> secret[u].pw]]
  /\ UNCHANGED <<database, pvc, volume, secret, service, deployment, ready,
                 pc, locals, listed, history>>

PodReady(u) ==
  /\ pod[u].phase = "starting"
  /\ pod' = [pod EXCEPT ![u].phase = "ready"]
  /\ UNCHANGED <<database, pvc, volume, secret, service, deployment, ready,
                 pc, locals, listed, history>>

PodStop(u) ==
  /\ pod[u].phase # "none"
  /\ deployment[u].replicas = 0 \/ deployment[u].nonce # pod[u].nonce
  /\ pod' = [pod EXCEPT ![u] = NoPod]
  /\ UNCHANGED <<database, pvc, volume, secret, service, deployment, ready,
                 pc, locals, listed, history>>

(* The status of the Deployment is written separately, and later. *)
StatusUpdate(u) ==
  /\ ready[u] # (pod[u].phase = "ready")
  /\ ready'   = [ready EXCEPT ![u] = (pod[u].phase = "ready")]
  /\ current' = Outdate(u, "deploymentUpdate")
  /\ UNCHANGED <<database, pvc, volume, secret, service, deployment, pod,
                 pc, op, w, revision, listed, history>>

ReleasePVC(u) ==
  /\ pvc[u] = "terminating" /\ pod[u].phase = "none"
  /\ pvc' = [pvc EXCEPT ![u] = "absent"]
  /\ UNCHANGED <<database, volume, secret, service, deployment, ready, pod,
                 pc, locals, listed, history>>

ClusterStep(u) ==
  \/ PodStart(u) \/ PodReady(u) \/ PodStop(u)
  \/ StatusUpdate(u) \/ ReleasePVC(u)

(***************************************************************************)
(* The specification.                                                      *)
(***************************************************************************)
RequestStep(t) ==
  \/ SetWorkspaceState(t) \/ Workspace(t)
  \/ DeletePVC(t) \/ DeleteWorkspaceDataRecord(t)

Environment ==
  \/ \E u \in Users : SetWorkspaceConfiguration(u) \/ Expire(u)
  \/ \E t \in Threads : CallFails(t)

ControllerStep ==
  \/ \E t \in Requests : RequestStep(t)
  \/ \E t \in Threads : Reconcile(t)
  \/ LoopStep
  \/ Environment
  \/ \E u \in Users : ClusterStep(u)

Next ==
  \/ \E t \in Requests, u \in Users, o \in Operations : Begin(t, u, o)
  \/ ControllerStep
  \/ Crash

(* The ticker keeps firing, calls return, and Kubernetes acts on what it   *)
(* is given.  No fairness for requests: a client may never send its next   *)
(* byte, and convergence must not depend on it.                            *)
Fairness ==
  /\ WF_vars(LoopStep \/ Reconcile(Loop) \/ CallFails(Loop))
  /\ \A u \in Users : WF_vars(ClusterStep(u))

Spec     == Init /\ [][Next]_vars
FairSpec == Spec /\ Fairness

(***************************************************************************)
(* Properties.                                                             *)
(***************************************************************************)

(* Every variable has its type, and a goroutine only runs the code that    *)
(* its kind of goroutine can reach.                                        *)
TypeOK ==
  /\ desired    \in [Users -> States]
  /\ nonce      \in [Users -> Nat]
  /\ inactive   \in [Users -> BOOLEAN]
  /\ config     \in [Users -> Nat]
  /\ pvc        \in [Users -> Claims]
  /\ volume     \in [Users -> Nat]
  /\ secret     \in [Users -> Secrets]
  /\ service    \in [Users -> BOOLEAN]
  /\ deployment \in [Users -> Deployments]
  /\ ready      \in [Users -> BOOLEAN]
  /\ pod        \in [Users -> Pods]
  /\ pc         \in [Threads -> Labels]
  /\ op         \in [Threads -> AdminOps \cup {"proxy"}]
  /\ w          \in [Threads -> Rows]
  /\ revision   \in [Threads -> Nat]
  /\ current    \in [Threads -> BOOLEAN]
  /\ listed     \in SUBSET Rows
  /\ purged     \in [Users -> Nat]
  /\ faults     \in Nat

(* Reconcile's order is an order of existence: whenever a Deployment is    *)
(* there, the claim was created and the Secret and the Service its pod     *)
(* depends on are there, whichever goroutines created which of them.       *)
DependenciesFirst ==
  \A u \in Users : deployment[u].exists =>
    service[u] /\ secret[u].exists /\ volume[u] > 0

(* The revision annotation of a Secret never lies about its files: later   *)
(* passes compare only the annotation, so a Secret whose files lag behind  *)
(* it would never be repaired (ensureSecret, the early return on equality).*)
SecretHonest == \A u \in Users : secret[u].exists => secret[u].doc = secret[u].rev

(* The password a pod was started with is the one in the Secret, which is  *)
(* where Backend reads it from: racing creators and configuration updates  *)
(* never change the password under a running pod.                          *)
PodPasswordCurrent ==
  \A u \in Users : pod[u].phase # "none" =>
    secret[u].exists /\ pod[u].pw = secret[u].pw

(* The cluster and every copy of a row in flight lag behind the database   *)
(* and never lead it: no Deployment, pod or Secret carries a restart nonce *)
(* or a configuration revision the database has not handed out.            *)
DatabaseLeads ==
  \A u \in Users :
    /\ deployment[u].nonce <= nonce[u] /\ pod[u].nonce <= nonce[u]
    /\ secret[u].rev <= config[u]      /\ pod[u].doc <= config[u]

ReconcileCalls == (KubeCalls \ {"pvcDelete"}) \cup {"configRead"}

Agrees(u) ==
  /\ deployment[u].exists
  /\ (deployment[u].replicas = 1) <=> (desired[u] = "running")
  /\ deployment[u].nonce = nonce[u]

Settled(u) ==
  /\ Agrees(u)
  /\ \A t \in Threads :
       pc[t] \in ReconcileCalls /\ w[t].user = u => w[t] = RowOf(u)
  /\ \A r \in listed : r.user = u => r = RowOf(u)

(* Once a Deployment agrees with its row and no goroutine still holds an   *)
(* older copy of the row, it stays so until the row itself changes: no     *)
(* interleaving of passes, requests, conflicts and crashes undoes it.      *)
SettledStays ==
  [][\A u \in Users : Settled(u) /\ RowOf(u)' = RowOf(u) => Settled(u)']_vars

(* When a purge has returned success, a pod that still runs on the volume  *)
(* it condemned carries an outdated restart nonce: whatever the next start *)
(* asks for, the next write of the Deployment replaces that pod.           *)
CondemnedPodOutdated ==
  \A u \in Users :
    pvc[u] = "terminating" /\ volume[u] = purged[u] =>
      pod[u].phase = "none" \/ pod[u].nonce < nonce[u]

Converged(u) ==
  /\ Agrees(u)
  /\ secret[u].rev = config[u]
  /\ pvc[u] # "absent"
  /\ IF desired[u] = "running"
     THEN pod[u].phase = "ready" /\ pod[u].nonce = nonce[u] /\ ready[u]
     ELSE pod[u].phase = "none" /\ ~ready[u]

(* However stale copies, conflicts, failures and crashes interleave, every *)
(* workspace whose API calls can succeed ends with the pod its row asks    *)
(* for, on the latest nonce, and the latest configuration in its Secret;   *)
(* a workspace whose calls always fail does not hold up the others.        *)
Converges == <>[](\A u \in Users \ Unreachable : Converged(u))

(* A purge that returned success gets rid of the volume it condemned, even *)
(* when a pass with an older copy of the row brought the pod back between  *)
(* its Stop and its Delete, so that it runs on the terminating claim.      *)
PurgeTakesEffect ==
  \A u \in Users \ Unreachable :
    purged[u] # 0 ~> ~(pvc[u] = "terminating" /\ volume[u] = purged[u])

(* docs/workspace-provisioning.mdx: an updated configuration "rolls the    *)
(* user's workspace pod on the next reconciliation".                       *)
ConfigurationRollsPod ==
  \A u \in Users :
    <>[](pod[u].phase = "ready" => pod[u].doc = config[u])
=============================================================================
