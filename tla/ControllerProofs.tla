-------------------------- MODULE ControllerProofs --------------------------
(***************************************************************************)
(* Machine-checked proofs about Controller, for every value of its         *)
(* constants: types, credentials, the order in which the objects of a      *)
(* workspace come and go; from "Old copies" on, that whatever goroutines   *)
(* and the cluster hold of the database lags behind it and does no harm to *)
(* a workspace that has settled; and last that Controller implements       *)
(* PersonalWorkspace.                                                      *)
(***************************************************************************)
EXTENDS Refinement, TLAPS

(* What the proofs need of the constants. *)
LEMMA Constants ==
  /\ AnyUser \in Users /\ AnyPassword \in Passwords
  /\ Loop \in Threads /\ Requests \subseteq Threads
  /\ Operations \subseteq AdminOps \cup {"proxy"}
  /\ Deployed \subseteq Users
BY UsersAssumption, SetupAssumption DEF AnyUser, AnyPassword, Threads

(* Control never leaves the program: every label a goroutine continues at  *)
(* is one of Labels.                                                       *)
LEMMA LabelTypes ==
  ASSUME NEW t \in Threads
  PROVE  Returned(t) \in Labels /\ Failed(t) \in Labels
BY DEF Returned, Failed, Labels, KubeCalls, StoreCalls, ProxyCalls

(* Going on to a label keeps the goroutines' control state well typed. *)
LEMMA GotoType ==
  ASSUME TypeOK, NEW t \in Threads, NEW label \in Labels, Goto(t, label)
  PROVE  /\ pc' \in [Threads -> Labels]
         /\ op' \in [Threads -> AdminOps \cup {"proxy"}]
         /\ w'  \in [Threads -> Rows]
BY Constants DEF TypeOK, Goto, NoRow, Rows, States, AdminOps

LEMMA GotoWithType ==
  ASSUME TypeOK, NEW t \in Threads, NEW label \in Labels, NEW r \in Rows,
         GotoWith(t, label, r)
  PROVE  /\ pc' \in [Threads -> Labels]
         /\ op' \in [Threads -> AdminOps \cup {"proxy"}]
         /\ w'  \in [Threads -> Rows]
BY DEF TypeOK, GotoWith

LEMMA UserType ==
  ASSUME TypeOK, NEW t \in Threads
  PROVE  w[t] \in Rows /\ w[t].user \in Users
BY DEF TypeOK, Rows

LEMMA RowType ==
  ASSUME TypeOK, NEW u \in Users
  PROVE  RowOf(u) \in Rows
BY DEF TypeOK, RowOf, Rows

(* The objects the model writes are well typed. *)
LEMMA ObjectTypes ==
  /\ NoSecret \in Secrets /\ FirstSecret \in Secrets
  /\ NoDeployment \in Deployments /\ OneReplica \in Deployments
  /\ NoPod \in Pods /\ RunningPod \in Pods
  /\ \A rev \in Nat, p \in Passwords : CreatedSecret(rev, p) \in Secrets
  /\ \A s \in Secrets, rev \in Nat : UpdatedSecret(s, rev) \in Secrets
  /\ \A r \in Rows : DeploymentFor(r) \in Deployments
<1>1. NoSecret \in Secrets /\ FirstSecret \in Secrets
  BY Constants DEF NoSecret, FirstSecret, Secrets
<1>2. NoDeployment \in Deployments /\ OneReplica \in Deployments
  BY DEF NoDeployment, OneReplica, Deployments
<1>3. NoPod \in Pods /\ RunningPod \in Pods
  BY Constants DEF NoPod, RunningPod, Pods
<1>4. \A rev \in Nat, p \in Passwords : CreatedSecret(rev, p) \in Secrets
  BY DEF CreatedSecret, Secrets
<1>5. \A s \in Secrets, rev \in Nat : UpdatedSecret(s, rev) \in Secrets
  BY DEF UpdatedSecret, Secrets
<1>6. \A r \in Rows : DeploymentFor(r) \in Deployments
  BY DEF DeploymentFor, Deployments, Rows
<1> QED BY <1>1, <1>2, <1>3, <1>4, <1>5, <1>6

LEMMA InitType == Init => TypeOK
<1> SUFFICES ASSUME Init PROVE TypeOK
  OBVIOUS
<1>1. /\ pc \in [Threads -> Labels] /\ op \in [Threads -> AdminOps \cup {"proxy"}]
      /\ revision \in [Threads -> Nat] /\ current \in [Threads -> BOOLEAN]
  BY DEF Init, Labels, StoreCalls, AdminOps
<1>2. w \in [Threads -> Rows] /\ listed \in SUBSET Rows
  BY Constants DEF Init, NoRow, Rows, States
<1>3. /\ secret \in [Users -> Secrets] /\ deployment \in [Users -> Deployments]
      /\ pod \in [Users -> Pods]
  BY ObjectTypes DEF Init
<1>4. /\ desired \in [Users -> States] /\ nonce \in [Users -> Nat]
      /\ inactive \in [Users -> BOOLEAN] /\ config \in [Users -> Nat]
  BY DEF Init, States
<1>5. /\ pvc \in [Users -> Claims] /\ volume \in [Users -> Nat]
      /\ purged \in [Users -> Nat] /\ faults \in Nat
  BY DEF Init, Claims
<1>6. service \in [Users -> BOOLEAN] /\ ready \in [Users -> BOOLEAN]
  BY DEF Init
<1> QED BY <1>1, <1>2, <1>3, <1>4, <1>5, <1>6 DEF TypeOK
(* Each action keeps the types. *)
LEMMA NextType == TypeOK /\ [Next]_vars => TypeOK'
<1> SUFFICES ASSUME TypeOK, [Next]_vars PROVE TypeOK'
  OBVIOUS
<1> USE DEF database, cluster, scratch, locals, history
<1>1. ASSUME NEW t \in Requests, NEW u \in Users, NEW o \in Operations, Begin(t, u, o) PROVE TypeOK'
  BY <1>1, Constants DEF TypeOK, Begin, NoRow, Rows, States, Labels, StoreCalls
<1>2. ASSUME NEW t \in Threads, SetWorkspaceState(t) PROVE TypeOK'
  <2>1. /\ pc' \in [Threads -> Labels] /\ op' \in [Threads -> AdminOps \cup {"proxy"}]
           /\ w' \in [Threads -> Rows]
    BY <1>2, GotoType DEF SetWorkspaceState, Labels, StoreCalls
  <2>2. desired' \in [Users -> States]
    BY <1>2, UserType DEF TypeOK, SetWorkspaceState, StateFor, States
  <2>3. nonce' \in [Users -> Nat]
    BY <1>2, UserType DEF TypeOK, SetWorkspaceState
  <2>4. inactive' \in [Users -> BOOLEAN]
    BY <1>2, UserType DEF TypeOK, SetWorkspaceState
  <2> QED BY <1>2, <2>1, <2>2, <2>3, <2>4 DEF TypeOK, SetWorkspaceState
<1>3. ASSUME NEW t \in Threads, Workspace(t) PROVE TypeOK'
  <2>1. /\ pc' \in [Threads -> Labels] /\ op' \in [Threads -> AdminOps \cup {"proxy"}]
           /\ w' \in [Threads -> Rows]
    BY <1>3, UserType, RowType, GotoWithType DEF Workspace, Labels, KubeCalls
  <2> QED BY <1>3, <2>1 DEF TypeOK, Workspace
<1>4. ASSUME NEW t \in Threads, DeletePVC(t) PROVE TypeOK'
  <2>1. /\ pc' \in [Threads -> Labels] /\ op' \in [Threads -> AdminOps \cup {"proxy"}]
           /\ w' \in [Threads -> Rows]
    BY <1>4, GotoType DEF DeletePVC, Labels, StoreCalls
  <2>2. pvc' \in [Users -> Claims]
    BY <1>4, UserType DEF TypeOK, DeletePVC, Claims
  <2> QED BY <1>4, <2>1, <2>2 DEF TypeOK, DeletePVC
<1>5. ASSUME NEW t \in Threads, DeleteWorkspaceDataRecord(t) PROVE TypeOK'
  BY <1>5, Constants, RowType, GotoType, LabelTypes
     DEF TypeOK, DeleteWorkspaceDataRecord, At, Goto, NoRow, Rows, States,
         AdminOps, Labels, KubeCalls, StoreCalls
<1>6. ASSUME NEW t \in Threads, EnsurePVCGet(t) PROVE TypeOK'
  BY <1>6, Constants, ObjectTypes, GotoType, LabelTypes
     DEF TypeOK, EnsurePVCGet, At, Outdate, Goto, NoRow, Rows, States,
         AdminOps, Labels, KubeCalls, StoreCalls
<1>7. ASSUME NEW t \in Threads, EnsurePVCCreate(t) PROVE TypeOK'
  <2>1. /\ pc' \in [Threads -> Labels] /\ op' \in [Threads -> AdminOps \cup {"proxy"}]
           /\ w' \in [Threads -> Rows]
    BY <1>7, GotoType, LabelTypes DEF EnsurePVCCreate, Labels, StoreCalls
  <2>2. pvc' \in [Users -> Claims] /\ volume' \in [Users -> Nat]
    BY <1>7, UserType DEF TypeOK, EnsurePVCCreate, Claims
  <2> QED BY <1>7, <2>1, <2>2 DEF TypeOK, EnsurePVCCreate
<1>8. ASSUME NEW t \in Threads, EnsureSecretConfig(t) PROVE TypeOK'
  BY <1>8, Constants, ObjectTypes, GotoType, LabelTypes
     DEF TypeOK, EnsureSecretConfig, At, Outdate, Goto, NoRow, Rows,
         States, AdminOps, Labels, KubeCalls, StoreCalls
<1>9. ASSUME NEW t \in Threads, EnsureSecretGet(t) PROVE TypeOK'
  BY <1>9, Constants, ObjectTypes, GotoType, LabelTypes
     DEF TypeOK, EnsureSecretGet, At, Outdate, Goto, NoRow, Rows, States,
         AdminOps, Labels, KubeCalls, StoreCalls
<1>10. ASSUME NEW t \in Threads, EnsureSecretCreate(t) PROVE TypeOK'
  <2>1. /\ pc' \in [Threads -> Labels] /\ op' \in [Threads -> AdminOps \cup {"proxy"}]
           /\ w' \in [Threads -> Rows]
    BY <1>10, GotoType, LabelTypes DEF EnsureSecretCreate, Labels, KubeCalls
  <2>2. secret' \in [Users -> Secrets]
    <3>1. \A p \in Passwords : CreatedSecret(revision[t], p) \in Secrets
      BY ObjectTypes DEF TypeOK
    <3> QED BY <3>1, <1>10, UserType DEF TypeOK, EnsureSecretCreate
  <2>3. revision' \in [Threads -> Nat]
    BY <1>10 DEF TypeOK, EnsureSecretCreate
  <2> QED BY <1>10, <2>1, <2>2, <2>3 DEF TypeOK, EnsureSecretCreate
<1>11. ASSUME NEW t \in Threads, EnsureSecretUpdate(t) PROVE TypeOK'
  <2>1. /\ pc' \in [Threads -> Labels] /\ op' \in [Threads -> AdminOps \cup {"proxy"}]
           /\ w' \in [Threads -> Rows]
    BY <1>11, GotoType, LabelTypes DEF EnsureSecretUpdate, Labels, KubeCalls
  <2>2. secret' \in [Users -> Secrets]
    <3>1. UpdatedSecret(secret[w[t].user], revision[t]) \in Secrets
      BY UserType, ObjectTypes DEF TypeOK
    <3> QED BY <3>1, <1>11, UserType DEF TypeOK, EnsureSecretUpdate
  <2>3. revision' \in [Threads -> Nat] /\ current' \in [Threads -> BOOLEAN]
    BY <1>11 DEF TypeOK, EnsureSecretUpdate, Outdate
  <2> QED BY <1>11, <2>1, <2>2, <2>3 DEF TypeOK, EnsureSecretUpdate
<1>12. ASSUME NEW t \in Threads, EnsureServiceGet(t) PROVE TypeOK'
  BY <1>12, Constants, ObjectTypes, GotoType, LabelTypes
     DEF TypeOK, EnsureServiceGet, At, Outdate, Goto, NoRow, Rows, States,
         AdminOps, Labels, KubeCalls, StoreCalls
<1>13. ASSUME NEW t \in Threads, EnsureServiceCreate(t) PROVE TypeOK'
  BY <1>13, Constants, ObjectTypes, GotoType, LabelTypes
     DEF TypeOK, EnsureServiceCreate, At, Outdate, Goto, NoRow, Rows,
         States, AdminOps, Labels, KubeCalls, StoreCalls
<1>14. ASSUME NEW t \in Threads, EnsureDeploymentGet(t) PROVE TypeOK'
  <2>1. /\ pc' \in [Threads -> Labels] /\ op' \in [Threads -> AdminOps \cup {"proxy"}]
           /\ w' \in [Threads -> Rows]
    BY <1>14, GotoType DEF EnsureDeploymentGet, Labels, KubeCalls
  <2>2. current' \in [Threads -> BOOLEAN]
    BY <1>14, UserType DEF TypeOK, EnsureDeploymentGet, Deployments
  <2> QED BY <1>14, <2>1, <2>2 DEF TypeOK, EnsureDeploymentGet
<1>15. ASSUME NEW t \in Threads, EnsureDeploymentCreate(t) PROVE TypeOK'
  <2>1. /\ pc' \in [Threads -> Labels] /\ op' \in [Threads -> AdminOps \cup {"proxy"}]
           /\ w' \in [Threads -> Rows]
    BY <1>15, GotoType, LabelTypes DEF EnsureDeploymentCreate
  <2>2. deployment' \in [Users -> Deployments]
    <3>1. DeploymentFor(w[t]) \in Deployments
      BY UserType, ObjectTypes
    <3> QED BY <3>1, <1>15, UserType DEF TypeOK, EnsureDeploymentCreate
  <2> QED BY <1>15, <2>1, <2>2 DEF TypeOK, EnsureDeploymentCreate
<1>16. ASSUME NEW t \in Threads, EnsureDeploymentUpdate(t) PROVE TypeOK'
  <2>1. /\ pc' \in [Threads -> Labels] /\ op' \in [Threads -> AdminOps \cup {"proxy"}]
           /\ w' \in [Threads -> Rows]
    BY <1>16, GotoType, LabelTypes DEF EnsureDeploymentUpdate
  <2>2. deployment' \in [Users -> Deployments]
    <3>1. DeploymentFor(w[t]) \in Deployments
      BY UserType, ObjectTypes
    <3> QED BY <3>1, <1>16, UserType DEF TypeOK, EnsureDeploymentUpdate
  <2>3. current' \in [Threads -> BOOLEAN]
    BY <1>16 DEF TypeOK, EnsureDeploymentUpdate, Outdate
  <2> QED BY <1>16, <2>1, <2>2, <2>3 DEF TypeOK, EnsureDeploymentUpdate
<1>17. ASSUME IdleWorkspaces PROVE TypeOK'
  BY <1>17, Constants, RowType, GotoType, GotoWithType
     DEF TypeOK, IdleWorkspaces, Goto, NoRow, Rows, States, AdminOps,
         Labels, KubeCalls, StoreCalls
<1>18. ASSUME ListWorkspaces PROVE TypeOK'
  BY <1>18, Constants, RowType, GotoType, GotoWithType
     DEF TypeOK, ListWorkspaces, Goto, NoRow, Rows, States, AdminOps,
         Labels, KubeCalls, StoreCalls
<1>19. ASSUME NextItem PROVE TypeOK'
  BY <1>19, Constants, RowType, GotoType, GotoWithType
     DEF TypeOK, NextItem, Goto, NoRow, Rows, States, AdminOps, Labels,
         KubeCalls, StoreCalls
<1>20. ASSUME Tick PROVE TypeOK'
  BY <1>20, Constants, RowType, GotoType, GotoWithType
     DEF TypeOK, Tick, Goto, NoRow, Rows, States, AdminOps, Labels,
         KubeCalls, StoreCalls
<1>21. ASSUME NEW u \in Users, SetWorkspaceConfiguration(u) PROVE TypeOK'
  BY <1>21, Constants DEF TypeOK, SetWorkspaceConfiguration
<1>22. ASSUME NEW u \in Users, Expire(u) PROVE TypeOK'
  BY <1>22, Constants DEF TypeOK, Expire
<1>23. ASSUME NEW t \in Threads, CallFails(t) PROVE TypeOK'
  BY <1>23, GotoType, LabelTypes DEF TypeOK, CallFails
<1>24. ASSUME Crash PROVE TypeOK'
  BY <1>24, Constants, BoundsAssumption
     DEF TypeOK, Crash, NoRow, Rows, States, Labels, StoreCalls, AdminOps
<1>25. ASSUME NEW u \in Users, PodStart(u) PROVE TypeOK'
  <2>1. pod' \in [Users -> Pods]
    BY <1>25 DEF TypeOK, PodStart, Pods, Secrets, Deployments
  <2> QED BY <1>25, <2>1 DEF TypeOK, PodStart
<1>26. ASSUME NEW u \in Users, PodReady(u) PROVE TypeOK'
  <2>1. pod' \in [Users -> Pods]
    BY <1>26 DEF TypeOK, PodReady, Pods
  <2> QED BY <1>26, <2>1 DEF TypeOK, PodReady
<1>27. ASSUME NEW u \in Users, PodStop(u) PROVE TypeOK'
  <2>1. pod' \in [Users -> Pods]
    BY <1>27, ObjectTypes DEF TypeOK, PodStop
  <2> QED BY <1>27, <2>1 DEF TypeOK, PodStop
<1>28. ASSUME NEW u \in Users, StatusUpdate(u) PROVE TypeOK'
  BY <1>28, ObjectTypes
     DEF TypeOK, StatusUpdate, Outdate, Pods, Secrets, Deployments, Claims
<1>29. ASSUME NEW u \in Users, ReleasePVC(u) PROVE TypeOK'
  BY <1>29, ObjectTypes
     DEF TypeOK, ReleasePVC, Outdate, Pods, Secrets, Deployments, Claims
<1>30. CASE UNCHANGED vars
  BY <1>30 DEF TypeOK, vars
<1> QED
  BY <1>1, <1>2, <1>3, <1>4, <1>5, <1>6, <1>7, <1>8, <1>9, <1>10, <1>11,
     <1>12, <1>13, <1>14, <1>15, <1>16, <1>17, <1>18, <1>19, <1>20, <1>21,
     <1>22, <1>23, <1>24, <1>25, <1>26, <1>27, <1>28, <1>29, <1>30, Constants
  DEF Next, ControllerStep, RequestStep, Reconcile, LoopStep, Environment, ClusterStep

(* Type correctness: whatever interleaving of requests, passes, failures   *)
(* and crashes, every goroutine stays inside its code and every object and *)
(* row copy keeps its shape.                                               *)
THEOREM TypeCorrect == Spec => []TypeOK
<1>1. Init => TypeOK
  BY InitType
<1>2. TypeOK /\ [Next]_vars => TypeOK'
  BY NextType
<1> QED BY <1>1, <1>2, PTL DEF Spec

(***************************************************************************)
(* The Secret.  Which steps touch the Secret and the pod: all others are   *)
(* dealt with at once.                                                     *)
(***************************************************************************)
SecretStep ==
  \/ \E t \in Threads : EnsureSecretCreate(t) \/ EnsureSecretUpdate(t)
  \/ \E u \in Users : PodStart(u) \/ PodReady(u) \/ PodStop(u)

LEMMA SecretFrame ==
  ASSUME [Next]_vars, ~SecretStep
  PROVE  UNCHANGED <<secret, pod>>
<1> USE DEF database, cluster, scratch, locals, history
<1>1. ASSUME NEW t \in Requests, NEW u \in Users, NEW o \in Operations,
             Begin(t, u, o)
      PROVE  UNCHANGED <<secret, pod>>
  BY <1>1 DEF Begin
<1>2. ASSUME NEW t \in Requests, RequestStep(t) PROVE UNCHANGED <<secret, pod>>
  BY <1>2 DEF RequestStep, SetWorkspaceState, Workspace, DeletePVC,
              DeleteWorkspaceDataRecord
<1>3. ASSUME NEW t \in Threads, Reconcile(t) PROVE UNCHANGED <<secret, pod>>
  BY <1>3 DEF SecretStep, Reconcile, EnsurePVCGet, EnsurePVCCreate,
              EnsureSecretConfig, EnsureSecretGet, EnsureServiceGet,
              EnsureServiceCreate, EnsureDeploymentGet, EnsureDeploymentCreate,
              EnsureDeploymentUpdate
<1>4. ASSUME LoopStep PROVE UNCHANGED <<secret, pod>>
  BY <1>4 DEF LoopStep, IdleWorkspaces, ListWorkspaces, NextItem, Tick
<1>5. ASSUME Environment PROVE UNCHANGED <<secret, pod>>
  BY <1>5 DEF Environment, SetWorkspaceConfiguration, Expire, CallFails
<1>6. ASSUME NEW u \in Users, ClusterStep(u) PROVE UNCHANGED <<secret, pod>>
  BY <1>6 DEF SecretStep, ClusterStep, StatusUpdate, ReleasePVC
<1>7. ASSUME Crash PROVE UNCHANGED <<secret, pod>>
  BY <1>7 DEF Crash
<1>8. CASE UNCHANGED vars
  BY <1>8 DEF vars
<1> QED BY <1>1, <1>2, <1>3, <1>4, <1>5, <1>6, <1>7, <1>8 DEF Next, ControllerStep

SecretSafe == SecretHonest /\ PodPasswordCurrent

LEMMA SecretInductive ==
  ASSUME TypeOK, SecretSafe, [Next]_vars
  PROVE  SecretSafe'
<1> USE DEF SecretSafe
<1>1. ASSUME NEW t \in Threads, EnsureSecretCreate(t) PROVE SecretSafe'
  <2>1. CASE secret[w[t].user].exists
    BY <1>1, <2>1 DEF EnsureSecretCreate, SecretHonest, PodPasswordCurrent
  <2>2. CASE ~secret[w[t].user].exists
    <3>1. PICK p \in Passwords :
            secret' = [secret EXCEPT ![w[t].user] = CreatedSecret(revision[t], p)]
      BY <1>1, <2>2 DEF EnsureSecretCreate
    <3>2. pod' = pod /\ pod[w[t].user].phase = "none"
      BY <1>1, <2>2, UserType DEF EnsureSecretCreate, PodPasswordCurrent
    <3> QED BY <3>1, <3>2, UserType
            DEF TypeOK, CreatedSecret, SecretHonest, PodPasswordCurrent
  <2> QED BY <2>1, <2>2
<1>2. ASSUME NEW t \in Threads, EnsureSecretUpdate(t) PROVE SecretSafe'
  <2>1. pod' = pod
    BY <1>2 DEF EnsureSecretUpdate
  <2>2. CASE ~current[t]
    BY <1>2, <2>1, <2>2 DEF EnsureSecretUpdate, SecretHonest, PodPasswordCurrent
  <2>3. CASE current[t]
    <3>1. secret' = [secret EXCEPT ![w[t].user] =
                       UpdatedSecret(secret[w[t].user], revision[t])]
      BY <1>2, <2>3 DEF EnsureSecretUpdate
    <3>2. \A s \in Secrets, rev \in Nat :
            LET n == UpdatedSecret(s, rev) IN
            n.exists = s.exists /\ n.pw = s.pw /\ n.doc = n.rev
      BY DEF UpdatedSecret, Secrets
    <3>3. \A u \in Users : secret'[u].exists = secret[u].exists
                             /\ secret'[u].pw = secret[u].pw
      BY <3>1, <3>2, UserType DEF TypeOK
    <3>4. SecretHonest'
      BY <3>1, <3>2, UserType DEF TypeOK, SecretHonest
    <3> QED BY <2>1, <3>3, <3>4 DEF PodPasswordCurrent
  <2> QED BY <2>2, <2>3
<1>3. ASSUME NEW u \in Users, PodStart(u) PROVE SecretSafe'
  BY <1>3 DEF TypeOK, PodStart, SecretHonest, PodPasswordCurrent
<1>4. ASSUME NEW u \in Users, PodReady(u) PROVE SecretSafe'
  BY <1>4 DEF TypeOK, PodReady, SecretHonest, PodPasswordCurrent, Pods
<1>5. ASSUME NEW u \in Users, PodStop(u) PROVE SecretSafe'
  BY <1>5 DEF TypeOK, PodStop, SecretHonest, PodPasswordCurrent, NoPod
<1>6. CASE ~SecretStep
  BY <1>6, SecretFrame DEF SecretHonest, PodPasswordCurrent
<1> QED BY <1>1, <1>2, <1>3, <1>4, <1>5, <1>6 DEF SecretStep

LEMMA SecretInit == Init => SecretSafe
BY DEF Init, SecretSafe, SecretHonest, PodPasswordCurrent, NoSecret, FirstSecret,
       NoPod, RunningPod

LEMMA SecretsSafe == Spec => []SecretSafe
<1>1. Init => TypeOK /\ SecretSafe
  BY InitType, SecretInit
<1>2. TypeOK /\ SecretSafe /\ [Next]_vars => (TypeOK /\ SecretSafe)'
  BY NextType, SecretInductive
<1> QED BY <1>1, <1>2, PTL DEF Spec

(* The revision annotation of a Secret always describes its files, for any *)
(* number of users, goroutines, revisions and failures: ensureSecret's     *)
(* early return on an equal annotation never skips files that lag behind.  *)
THEOREM SecretsHonest == Spec => []SecretHonest
<1>1. SecretSafe => SecretHonest
  BY DEF SecretSafe
<1> QED BY <1>1, SecretsSafe, PTL

(* A pod's password is always the Secret's, where Backend reads it from,   *)
(* however creators race and whenever a configuration update comes.        *)
THEOREM PasswordsCurrent == Spec => []PodPasswordCurrent
<1>1. SecretSafe => PodPasswordCurrent
  BY DEF SecretSafe
<1> QED BY <1>1, SecretsSafe, PTL

(***************************************************************************)
(* The order of creation.  A goroutine that is past an ensure step of      *)
(* Reconcile relies on the object of that step being there; objects once   *)
(* created stay (a claim may be deleted, but its volume number stays).     *)
(***************************************************************************)
PastService == {"deploymentGet", "deploymentCreate", "deploymentUpdate"}
PastSecret  == {"serviceGet", "serviceCreate", "secretUpdate"} \cup PastService
PastClaim   == {"configRead", "secretGet", "secretCreate"} \cup PastSecret

OrderKept ==
  \A t \in Threads :
    /\ pc[t] \in PastClaim   => volume[w[t].user] > 0
    /\ pc[t] \in PastSecret  => secret[w[t].user].exists
    /\ pc[t] \in PastService => service[w[t].user]

ClaimCounted == \A u \in Users : pvc[u] # "absent" => volume[u] > 0

Ordered == OrderKept /\ ClaimCounted /\ DependenciesFirst

(* What exists keeps existing. *)
Kept(u) ==
  /\ volume'[u] >= volume[u]
  /\ secret[u].exists => secret'[u].exists
  /\ service[u] => service'[u]

(* Outside of Reconcile no goroutine is past anything. *)
LEMMA ReturnsEarly ==
  ASSUME NEW t \in Threads
  PROVE  Returned(t) \notin PastClaim /\ Failed(t) \notin PastClaim
BY DEF Returned, Failed, PastClaim, PastSecret, PastService

(* A goroutine that goes on to label where the objects label relies on are *)
(* there keeps the order, whatever the others are doing.                   *)
LEMMA OrderMove ==
  ASSUME TypeOK, TypeOK', OrderKept, \A u \in Users : Kept(u),
         NEW t \in Threads, NEW label, Goto(t, label),
         label \in PastClaim   => volume'[w[t].user] > 0,
         label \in PastSecret  => secret'[w[t].user].exists,
         label \in PastService => service'[w[t].user]
  PROVE  OrderKept'
<1>1. \A s \in Threads : s # t => pc'[s] = pc[s] /\ w'[s] = w[s]
  BY DEF TypeOK, Goto
<1>2. pc'[t] = label /\ (label \in PastClaim => w'[t] = w[t])
  BY DEF TypeOK, Goto, PastClaim, PastSecret, PastService
<1>3. ASSUME NEW s \in Threads, s # t
      PROVE  /\ pc'[s] \in PastClaim   => volume'[w'[s].user] > 0
             /\ pc'[s] \in PastSecret  => secret'[w'[s].user].exists
             /\ pc'[s] \in PastService => service'[w'[s].user]
  <2>1. Kept(w[s].user) /\ w[s].user \in Users
    BY UserType
  <2>2. pc[s] \in PastClaim => volume'[w[s].user] > 0
    BY <2>1 DEF OrderKept, Kept, TypeOK
  <2> QED BY <1>1, <1>3, <2>1, <2>2 DEF OrderKept, Kept
<1>4. /\ pc'[t] \in PastClaim   => volume'[w'[t].user] > 0
      /\ pc'[t] \in PastSecret  => secret'[w'[t].user].exists
      /\ pc'[t] \in PastService => service'[w'[t].user]
  BY <1>2 DEF PastClaim, PastSecret
<1> QED BY <1>3, <1>4 DEF OrderKept

(* Which objects a step of Kubernetes' or of the controller's may touch. *)
LEMMA Monotone ==
  ASSUME TypeOK, [Next]_vars, NEW u \in Users
  PROVE  Kept(u)
<1> USE DEF database, cluster, scratch, locals, history
<1>1. ASSUME UNCHANGED <<volume, secret, service>> PROVE Kept(u)
  BY <1>1 DEF Kept, TypeOK
<1>2. ASSUME NEW t \in Threads, EnsurePVCCreate(t) PROVE Kept(u)
  BY <1>2, UserType DEF EnsurePVCCreate, Kept, TypeOK
<1>3. ASSUME NEW t \in Threads, EnsureSecretCreate(t) PROVE Kept(u)
  <2>1. CASE secret[w[t].user].exists
    BY <1>3, <2>1, <1>1 DEF EnsureSecretCreate
  <2>2. CASE ~secret[w[t].user].exists
    <3>1. PICK p \in Passwords :
            secret' = [secret EXCEPT ![w[t].user] = CreatedSecret(revision[t], p)]
      BY <1>3, <2>2 DEF EnsureSecretCreate
    <3>2. secret[u].exists => secret'[u].exists
      BY <3>1, <2>2, UserType DEF TypeOK
    <3> QED BY <1>3, <3>2 DEF EnsureSecretCreate, Kept, TypeOK
  <2> QED BY <2>1, <2>2
<1>4. ASSUME NEW t \in Threads, EnsureSecretUpdate(t) PROVE Kept(u)
  <2>1. \A s \in Secrets, rev \in Nat : UpdatedSecret(s, rev).exists = s.exists
    BY DEF UpdatedSecret, Secrets
  <2>2. secret'[u].exists = secret[u].exists
    <3>1. CASE ~current[t]
      BY <1>4, <3>1 DEF EnsureSecretUpdate
    <3>2. CASE current[t]
      <4>1. secret' = [secret EXCEPT ![w[t].user] =
                         UpdatedSecret(secret[w[t].user], revision[t])]
        BY <1>4, <3>2 DEF EnsureSecretUpdate
      <4> QED BY <4>1, <2>1, UserType DEF TypeOK
    <3> QED BY <3>1, <3>2
  <2> QED BY <1>4, <2>2 DEF EnsureSecretUpdate, Kept, TypeOK
<1>5. ASSUME NEW t \in Threads, EnsureServiceCreate(t) PROVE Kept(u)
  BY <1>5, UserType DEF EnsureServiceCreate, Kept, TypeOK
<1>6. ASSUME NEW t \in Requests, NEW v \in Users, NEW o \in Operations,
             Begin(t, v, o)
      PROVE  Kept(u)
  BY <1>6, <1>1 DEF Begin
<1>7. ASSUME NEW t \in Requests, RequestStep(t) PROVE Kept(u)
  BY <1>7, <1>1 DEF RequestStep, SetWorkspaceState, Workspace, DeletePVC,
                    DeleteWorkspaceDataRecord
<1>8. ASSUME NEW t \in Threads, Reconcile(t) PROVE Kept(u)
  BY <1>8, <1>1, <1>2, <1>3, <1>4, <1>5
     DEF Reconcile, EnsurePVCGet, EnsureSecretConfig, EnsureSecretGet,
         EnsureServiceGet, EnsureDeploymentGet, EnsureDeploymentCreate,
         EnsureDeploymentUpdate
<1>9. ASSUME LoopStep PROVE Kept(u)
  BY <1>9, <1>1 DEF LoopStep, IdleWorkspaces, ListWorkspaces, NextItem, Tick
<1>10. ASSUME Environment PROVE Kept(u)
  BY <1>10, <1>1 DEF Environment, SetWorkspaceConfiguration, Expire, CallFails
<1>11. ASSUME NEW v \in Users, ClusterStep(v) PROVE Kept(u)
  BY <1>11, <1>1 DEF ClusterStep, PodStart, PodReady, PodStop, StatusUpdate, ReleasePVC
<1>12. ASSUME Crash PROVE Kept(u)
  BY <1>12, <1>1 DEF Crash
<1>13. CASE UNCHANGED vars
  BY <1>13, <1>1 DEF vars
<1> QED BY <1>6, <1>7, <1>8, <1>9, <1>10, <1>11, <1>12, <1>13 DEF Next, ControllerStep

LEMMA OrderInductive ==
  ASSUME TypeOK, Ordered, [Next]_vars
  PROVE  OrderKept'
<1> USE DEF database, cluster, scratch, locals, history, Ordered
<1>a. TypeOK' /\ \A u \in Users : Kept(u)
  BY NextType, Monotone
<1>b. ASSUME UNCHANGED <<pc, w>> PROVE OrderKept'
  BY <1>a, <1>b, UserType DEF OrderKept, Kept, TypeOK
<1>c. ASSUME NEW t \in Threads, NEW label, NEW r, label \notin PastClaim,
             pc' = [pc EXCEPT ![t] = label], w' = [w EXCEPT ![t] = r]
      PROVE  OrderKept'
  BY <1>a, <1>c, UserType DEF OrderKept, Kept, TypeOK, PastClaim, PastSecret
<1>1. ASSUME NEW t \in Requests, NEW u \in Users, NEW o \in Operations,
             Begin(t, u, o) PROVE OrderKept'
  BY <1>1, <1>c, Constants DEF Begin, PastClaim, PastSecret, PastService
<1>2. ASSUME NEW t \in Threads, Workspace(t) PROVE OrderKept'
  BY <1>2, <1>c DEF Workspace, GotoWith, PastClaim, PastSecret, PastService
<1>3. ASSUME NEW t \in Threads, SetWorkspaceState(t) PROVE OrderKept'
  BY <1>3, <1>a, OrderMove, ReturnsEarly, UserType
     DEF SetWorkspaceState, At, OrderKept, PastClaim, PastSecret,
         PastService, TypeOK
<1>4. ASSUME NEW t \in Threads, DeletePVC(t) PROVE OrderKept'
  BY <1>4, <1>a, OrderMove, ReturnsEarly, UserType
     DEF DeletePVC, At, OrderKept, PastClaim, PastSecret, PastService,
         TypeOK
<1>5. ASSUME NEW t \in Threads, DeleteWorkspaceDataRecord(t) PROVE OrderKept'
  BY <1>5, <1>a, OrderMove, ReturnsEarly, UserType
     DEF DeleteWorkspaceDataRecord, At, OrderKept, PastClaim, PastSecret,
         PastService, TypeOK
<1>6. ASSUME NEW t \in Threads, EnsurePVCGet(t) PROVE OrderKept'
  <2>1. CASE pvc[w[t].user] = "absent"
    <3>1. Goto(t, "pvcCreate")
      BY <1>6, <2>1 DEF EnsurePVCGet
    <3> QED BY <1>a, <3>1, OrderMove DEF PastClaim, PastSecret, PastService
  <2>2. CASE pvc[w[t].user] # "absent"
    <3>1. Goto(t, "configRead") /\ volume'[w[t].user] > 0
      BY <1>6, <2>2, UserType DEF EnsurePVCGet, ClaimCounted
    <3> QED BY <1>a, <3>1, OrderMove DEF PastSecret, PastService
  <2> QED BY <2>1, <2>2
<1>7. ASSUME NEW t \in Threads, EnsurePVCCreate(t) PROVE OrderKept'
  <2>1. CASE pvc[w[t].user] # "absent"
    <3>1. Goto(t, Failed(t))
      BY <1>7, <2>1 DEF EnsurePVCCreate
    <3> QED BY <1>a, <3>1, OrderMove, ReturnsEarly DEF PastClaim, PastSecret
  <2>2. CASE pvc[w[t].user] = "absent"
    <3>1. Goto(t, "configRead") /\ volume'[w[t].user] > 0
      BY <1>7, <2>2, UserType DEF EnsurePVCCreate, TypeOK
    <3> QED BY <1>a, <3>1, OrderMove DEF PastSecret, PastService
  <2> QED BY <2>1, <2>2
<1>8. ASSUME NEW t \in Threads, EnsureSecretConfig(t) PROVE OrderKept'
  BY <1>8, <1>a, OrderMove, ReturnsEarly, UserType
     DEF EnsureSecretConfig, At, OrderKept, PastClaim, PastSecret,
         PastService, TypeOK
<1>9. ASSUME NEW t \in Threads, EnsureSecretGet(t) PROVE OrderKept'
  <2>1. volume'[w[t].user] > 0
    BY <1>9, <1>a, UserType DEF EnsureSecretGet, At, OrderKept, PastClaim, TypeOK
  <2>2. CASE secret[w[t].user].exists
    <3>1. PICK label \in {"serviceGet", "secretUpdate"} : Goto(t, label)
      BY <1>9, <2>2 DEF EnsureSecretGet
    <3>2. secret'[w[t].user].exists
      BY <1>9, <2>2 DEF EnsureSecretGet
    <3> QED BY <1>a, <2>1, <3>1, <3>2, OrderMove DEF PastService
  <2>3. CASE ~secret[w[t].user].exists
    <3>1. Goto(t, "secretCreate")
      BY <1>9, <2>3 DEF EnsureSecretGet
    <3> QED BY <1>a, <2>1, <3>1, OrderMove DEF PastSecret, PastService
  <2> QED BY <2>2, <2>3
<1>10. ASSUME NEW t \in Threads, EnsureSecretCreate(t) PROVE OrderKept'
  <2>1. CASE secret[w[t].user].exists
    <3>1. Goto(t, Failed(t))
      BY <1>10, <2>1 DEF EnsureSecretCreate
    <3> QED BY <1>a, <3>1, OrderMove, ReturnsEarly DEF PastClaim, PastSecret
  <2>2. CASE ~secret[w[t].user].exists
    <3>1. PICK p \in Passwords :
            secret' = [secret EXCEPT ![w[t].user] = CreatedSecret(revision[t], p)]
      BY <1>10, <2>2 DEF EnsureSecretCreate
    <3>2. secret'[w[t].user].exists
      BY <3>1, UserType DEF TypeOK, CreatedSecret
    <3>3. volume'[w[t].user] > 0 /\ Goto(t, "serviceGet")
      BY <1>10, <2>2, UserType DEF EnsureSecretCreate, At, OrderKept, PastClaim
    <3> QED BY <1>a, <3>2, <3>3, OrderMove DEF PastService
  <2> QED BY <2>1, <2>2
<1>11. ASSUME NEW t \in Threads, EnsureSecretUpdate(t) PROVE OrderKept'
  <2>1. CASE ~current[t]
    <3>1. Goto(t, Failed(t))
      BY <1>11, <2>1 DEF EnsureSecretUpdate
    <3> QED BY <1>a, <3>1, OrderMove, ReturnsEarly DEF PastClaim, PastSecret
  <2>2. CASE current[t]
    <3>1. Goto(t, "serviceGet")
      BY <1>11, <2>2 DEF EnsureSecretUpdate
    <3>2. volume'[w[t].user] > 0
      BY <1>11, UserType DEF EnsureSecretUpdate, At, OrderKept, PastClaim, PastSecret
    <3>3. secret'[w[t].user].exists
      BY <1>11, <1>a, UserType DEF EnsureSecretUpdate, At, OrderKept, PastSecret, Kept
    <3> QED BY <1>a, <3>1, <3>2, <3>3, OrderMove DEF PastService
  <2> QED BY <2>1, <2>2
<1>12. ASSUME NEW t \in Threads, EnsureServiceGet(t) PROVE OrderKept'
  BY <1>12, <1>a, OrderMove, ReturnsEarly, UserType
     DEF EnsureServiceGet, At, OrderKept, PastClaim, PastSecret,
         PastService, TypeOK
<1>13. ASSUME NEW t \in Threads, EnsureServiceCreate(t) PROVE OrderKept'
  BY <1>13, <1>a, OrderMove, ReturnsEarly, UserType
     DEF EnsureServiceCreate, At, OrderKept, PastClaim, PastSecret,
         PastService, TypeOK
<1>14. ASSUME NEW t \in Threads, EnsureDeploymentGet(t) PROVE OrderKept'
  BY <1>14, <1>a, OrderMove, ReturnsEarly, UserType
     DEF EnsureDeploymentGet, At, OrderKept, PastClaim, PastSecret,
         PastService, TypeOK
<1>15. ASSUME NEW t \in Threads, EnsureDeploymentCreate(t) PROVE OrderKept'
  BY <1>15, <1>a, OrderMove, ReturnsEarly, UserType
     DEF EnsureDeploymentCreate, At, OrderKept, PastClaim, PastSecret,
         PastService, TypeOK
<1>16. ASSUME NEW t \in Threads, EnsureDeploymentUpdate(t) PROVE OrderKept'
  BY <1>16, <1>a, OrderMove, ReturnsEarly, UserType
     DEF EnsureDeploymentUpdate, At, OrderKept, PastClaim, PastSecret,
         PastService, TypeOK
<1>17. ASSUME NEW t \in Threads, CallFails(t) PROVE OrderKept'
  BY <1>17, <1>a, OrderMove, ReturnsEarly, UserType
     DEF CallFails, At, OrderKept, PastClaim, PastSecret, PastService,
         TypeOK
<1>18. ASSUME IdleWorkspaces PROVE OrderKept'
  BY <1>18, <1>a, OrderMove, Constants
     DEF IdleWorkspaces, PastClaim, PastSecret, PastService
<1>19. ASSUME ListWorkspaces PROVE OrderKept'
  BY <1>19, <1>a, OrderMove, Constants
     DEF ListWorkspaces, PastClaim, PastSecret, PastService
<1>20. ASSUME Tick PROVE OrderKept'
  BY <1>20, <1>a, OrderMove, Constants DEF Tick, PastClaim, PastSecret, PastService
<1>21. ASSUME NextItem PROVE OrderKept'
  BY <1>21, <1>c, Constants DEF NextItem, GotoWith, PastClaim, PastSecret, PastService
<1>22. ASSUME Crash PROVE OrderKept'
  BY <1>22 DEF Crash, OrderKept, PastClaim, PastSecret, PastService
<1>23. ASSUME NEW u \in Users, ClusterStep(u) PROVE OrderKept'
  BY <1>23, <1>b DEF ClusterStep, PodStart, PodReady, PodStop, StatusUpdate, ReleasePVC
<1>24. ASSUME NEW u \in Users, (SetWorkspaceConfiguration(u) \/ Expire(u)) PROVE OrderKept'
  BY <1>24, <1>b DEF SetWorkspaceConfiguration, Expire
<1>25. CASE UNCHANGED vars
  BY <1>25, <1>b DEF vars
<1> QED
  BY <1>1, <1>2, <1>3, <1>4, <1>5, <1>6, <1>7, <1>8, <1>9, <1>10, <1>11,
     <1>12, <1>13, <1>14, <1>15, <1>16, <1>17, <1>18, <1>19, <1>20, <1>21,
     <1>22, <1>23, <1>24, <1>25, Constants
  DEF Next, ControllerStep, RequestStep, Reconcile, LoopStep, Environment

(* A claim is bound by creating its volume. *)
LEMMA ClaimInductive ==
  ASSUME TypeOK, ClaimCounted, [Next]_vars
  PROVE  ClaimCounted'
<1> USE DEF database, cluster, scratch, locals, history
<1>a. TypeOK' /\ \A u \in Users : Kept(u)
  BY NextType, Monotone
<1>1. ASSUME \A u \in Users : pvc'[u] # "absent" => pvc[u] # "absent"
      PROVE  ClaimCounted'
  BY <1>1, <1>a DEF ClaimCounted, Kept, TypeOK
<1>2. ASSUME pvc' = pvc PROVE ClaimCounted'
  BY <1>1, <1>2
<1>3. ASSUME NEW t \in Threads, EnsurePVCCreate(t) PROVE ClaimCounted'
  BY <1>3, UserType DEF EnsurePVCCreate, ClaimCounted, TypeOK
<1>4. ASSUME NEW t \in Threads, DeletePVC(t) PROVE ClaimCounted'
  BY <1>4, <1>1, UserType DEF DeletePVC, TypeOK
<1>5. ASSUME NEW u \in Users, ReleasePVC(u) PROVE ClaimCounted'
  BY <1>5, <1>1 DEF ReleasePVC, TypeOK
<1>6. ASSUME NEW t \in Requests, NEW v \in Users, NEW o \in Operations,
             Begin(t, v, o)
      PROVE  ClaimCounted'
  BY <1>6, <1>2 DEF Begin
<1>7. ASSUME NEW t \in Requests, RequestStep(t) PROVE ClaimCounted'
  BY <1>7, <1>2, <1>4, Constants DEF RequestStep, SetWorkspaceState, Workspace,
                    DeleteWorkspaceDataRecord
<1>8. ASSUME NEW t \in Threads, Reconcile(t) PROVE ClaimCounted'
  BY <1>8, <1>2, <1>3
     DEF Reconcile, EnsurePVCGet, EnsureSecretConfig, EnsureSecretGet,
         EnsureSecretCreate, EnsureSecretUpdate, EnsureServiceGet,
         EnsureServiceCreate, EnsureDeploymentGet, EnsureDeploymentCreate,
         EnsureDeploymentUpdate
<1>9. ASSUME LoopStep PROVE ClaimCounted'
  BY <1>9, <1>2 DEF LoopStep, IdleWorkspaces, ListWorkspaces, NextItem, Tick
<1>10. ASSUME Environment PROVE ClaimCounted'
  BY <1>10, <1>2 DEF Environment, SetWorkspaceConfiguration, Expire, CallFails
<1>11. ASSUME NEW v \in Users, ClusterStep(v) PROVE ClaimCounted'
  BY <1>11, <1>2, <1>5 DEF ClusterStep, PodStart, PodReady, PodStop, StatusUpdate
<1>12. ASSUME Crash PROVE ClaimCounted'
  BY <1>12, <1>2 DEF Crash
<1>13. CASE UNCHANGED vars
  BY <1>13, <1>2 DEF vars
<1> QED BY <1>6, <1>7, <1>8, <1>9, <1>10, <1>11, <1>12, <1>13 DEF Next, ControllerStep

(* Only ensureDeployment writes Deployments, and it is past the service. *)
LEMMA DeploymentFrame ==
  ASSUME TypeOK, [Next]_vars, NEW u \in Users, deployment'[u] # deployment[u]
  PROVE  \E t \in Threads : /\ pc[t] \in {"deploymentCreate", "deploymentUpdate"}
                            /\ w[t].user = u
                            /\ deployment'[u] = DeploymentFor(w[t])
<1> DEFINE Goal == \E t \in Threads :
                     /\ pc[t] \in {"deploymentCreate", "deploymentUpdate"}
                     /\ w[t].user = u
                     /\ deployment'[u] = DeploymentFor(w[t])
<1> USE DEF database, cluster, scratch, locals, history
<1>1. ASSUME NEW t \in Threads, EnsureDeploymentCreate(t) PROVE Goal
  BY <1>1, UserType DEF EnsureDeploymentCreate, At, TypeOK
<1>2. ASSUME NEW t \in Threads, EnsureDeploymentUpdate(t) PROVE Goal
  BY <1>2, UserType DEF EnsureDeploymentUpdate, At, TypeOK
<1>3. deployment' # deployment
  OBVIOUS
<1> HIDE DEF Goal
<1>4. ASSUME NEW t \in Threads, Reconcile(t) PROVE Goal
  BY <1>4, <1>1, <1>2, <1>3
     DEF Reconcile, EnsurePVCGet, EnsurePVCCreate, EnsureSecretConfig,
         EnsureSecretGet, EnsureSecretCreate, EnsureSecretUpdate,
         EnsureServiceGet, EnsureServiceCreate, EnsureDeploymentGet
<1>5. ASSUME NEW t \in Requests, NEW v \in Users, NEW o \in Operations,
             Begin(t, v, o)
      PROVE  FALSE
  BY <1>5, <1>3 DEF Begin
<1>6. ASSUME NEW t \in Requests, RequestStep(t) PROVE FALSE
  BY <1>6, <1>3 DEF RequestStep, SetWorkspaceState, Workspace, DeletePVC,
                    DeleteWorkspaceDataRecord
<1>7. ASSUME LoopStep PROVE FALSE
  BY <1>7, <1>3 DEF LoopStep, IdleWorkspaces, ListWorkspaces, NextItem, Tick
<1>8. ASSUME Environment PROVE FALSE
  BY <1>8, <1>3 DEF Environment, SetWorkspaceConfiguration, Expire, CallFails
<1>9. ASSUME NEW v \in Users, ClusterStep(v) PROVE FALSE
  BY <1>9, <1>3 DEF ClusterStep, PodStart, PodReady, PodStop, StatusUpdate, ReleasePVC
<1>10. ASSUME Crash PROVE FALSE
  BY <1>10, <1>3 DEF Crash
<1>11. ~ UNCHANGED vars
  BY <1>3 DEF vars
<1>12. Goal
  BY <1>4, <1>5, <1>6, <1>7, <1>8, <1>9, <1>10, <1>11 DEF Next, ControllerStep
<1> QED BY <1>12 DEF Goal

LEMMA DependenciesInductive ==
  ASSUME TypeOK, Ordered, [Next]_vars
  PROVE  DependenciesFirst'
<1> SUFFICES ASSUME NEW u \in Users, deployment'[u].exists
             PROVE  service'[u] /\ secret'[u].exists /\ volume'[u] > 0
  BY DEF DependenciesFirst
<1>1. Kept(u) /\ TypeOK'
  BY Monotone, NextType
<1>2. service[u] /\ secret[u].exists /\ volume[u] > 0
  <2>1. CASE deployment'[u] = deployment[u]
    BY <2>1 DEF Ordered, DependenciesFirst
  <2>2. CASE deployment'[u] # deployment[u]
    BY <2>2, DeploymentFrame DEF Ordered, OrderKept, PastClaim, PastSecret, PastService
  <2> QED BY <2>1, <2>2
<1> QED BY <1>1, <1>2 DEF Kept, TypeOK

LEMMA OrderInit == Init => Ordered
<1> SUFFICES ASSUME Init PROVE Ordered
  OBVIOUS
<1>1. OrderKept
  BY DEF Init, OrderKept, PastClaim, PastSecret, PastService
<1>2. ClaimCounted
  BY DEF Init, ClaimCounted
<1>3. ASSUME NEW u \in Users, deployment[u].exists
      PROVE  service[u] /\ secret[u].exists /\ volume[u] > 0
  <2>1. u \in Deployed
    BY <1>3 DEF Init, NoDeployment
  <2>2. service[u]
    BY <2>1 DEF Init
  <2>3. secret[u].exists
    BY <2>1 DEF Init, FirstSecret, NoSecret
  <2>4. volume[u] > 0
    BY <2>1 DEF Init
  <2> QED BY <2>2, <2>3, <2>4
<1> QED BY <1>1, <1>2, <1>3 DEF Ordered, DependenciesFirst

(* A Deployment never exists before its claim was created, its Secret and  *)
(* its Service are there, for any number of racing goroutines, conflicts,  *)
(* failures and crashes.  Inductive with OrderKept: a goroutine's label    *)
(* says which objects it may rely on.                                      *)
THEOREM DependenciesOrdered == Spec => []DependenciesFirst
<1>1. Init => TypeOK /\ Ordered
  BY InitType, OrderInit
<1>2. TypeOK /\ Ordered /\ [Next]_vars => (TypeOK /\ Ordered)'
  BY NextType, OrderInductive, ClaimInductive, DependenciesInductive DEF Ordered
<1>3. Ordered => DependenciesFirst
  BY DEF Ordered
<1> QED BY <1>1, <1>2, <1>3, PTL DEF Spec

(***************************************************************************)
(* Old copies.  Where copies come from.                                    *)
(***************************************************************************)
CurrentRows == {RowOf(u) : u \in Users}

(* A goroutine inside Reconcile works from the copy it had, from one the   *)
(* listing returned, or from one read in this step.                        *)
FromRow(t) ==
  pc'[t] \in ReconcileCalls =>
    \/ pc[t] \in ReconcileCalls /\ w'[t] = w[t]
    \/ w'[t] \in listed \cup CurrentRows

CopiesKept ==
  /\ \A t \in Threads : FromRow(t)
  /\ listed' \subseteq listed \cup CurrentRows

(* A goroutine that goes on brings no new copy. *)
LEMMA GotoKeepsCopies ==
  ASSUME TypeOK, NEW t \in Threads, NEW label, Goto(t, label),
         listed' \subseteq listed \cup CurrentRows,
         pc[t] \in ReconcileCalls \/ label \notin ReconcileCalls
  PROVE  CopiesKept
<1>1. ASSUME NEW s \in Threads PROVE FromRow(s)
  <2>1. CASE s = t
    BY <2>1 DEF FromRow, Goto, TypeOK, ReconcileCalls, KubeCalls
  <2>2. CASE s # t
    BY <2>2 DEF FromRow, Goto, TypeOK
  <2> QED BY <2>1, <2>2
<1> QED BY <1>1 DEF CopiesKept

LEMMA GotoWithKeepsCopies ==
  ASSUME TypeOK, NEW t \in Threads, NEW label, NEW r \in listed \cup CurrentRows,
         GotoWith(t, label, r), listed' \subseteq listed
  PROVE  CopiesKept
BY DEF CopiesKept, FromRow, GotoWith, TypeOK

LEMMA StepKeepsCopies ==
  ASSUME TypeOK, [Next]_vars
  PROVE  CopiesKept
<1> USE DEF database, cluster, scratch, locals, history
<1>a. ASSUME UNCHANGED <<pc, w, listed>> PROVE CopiesKept
  BY <1>a DEF CopiesKept, FromRow
<1>1. ASSUME NEW t \in Requests, NEW u \in Users, NEW o \in Operations,
             Begin(t, u, o)
      PROVE  CopiesKept
  BY <1>1, Constants
     DEF Begin, CopiesKept, FromRow, TypeOK, ReconcileCalls, KubeCalls
<1>2. ASSUME NEW t \in Threads, Workspace(t) PROVE CopiesKept
  BY <1>2, GotoWithKeepsCopies, UserType DEF Workspace, CurrentRows
<1>3. ASSUME NEW t \in Threads,
             \/ SetWorkspaceState(t) \/ DeletePVC(t)
             \/ DeleteWorkspaceDataRecord(t)
      PROVE  CopiesKept
  BY <1>3, GotoKeepsCopies
     DEF SetWorkspaceState, DeletePVC, DeleteWorkspaceDataRecord,
         ReconcileCalls, KubeCalls
<1>4. ASSUME NEW t \in Threads, Reconcile(t) PROVE CopiesKept
  <2>1. pc[t] \in ReconcileCalls /\ UNCHANGED listed
    BY <1>4 DEF Reconcile, At, EnsurePVCGet, EnsurePVCCreate,
         EnsureSecretConfig, EnsureSecretGet, EnsureSecretCreate,
         EnsureSecretUpdate, EnsureServiceGet, EnsureServiceCreate,
         EnsureDeploymentGet, EnsureDeploymentCreate, EnsureDeploymentUpdate,
         ReconcileCalls, KubeCalls
  <2>2. \E label : Goto(t, label)
    BY <1>4 DEF Reconcile, EnsurePVCGet, EnsurePVCCreate,
         EnsureSecretConfig, EnsureSecretGet, EnsureSecretCreate,
         EnsureSecretUpdate, EnsureServiceGet, EnsureServiceCreate,
         EnsureDeploymentGet, EnsureDeploymentCreate, EnsureDeploymentUpdate
  <2> QED BY <2>1, <2>2, GotoKeepsCopies
<1>5. ASSUME IdleWorkspaces \/ Tick PROVE CopiesKept
  BY <1>5, GotoKeepsCopies, Constants
     DEF IdleWorkspaces, Tick, ReconcileCalls, KubeCalls
<1>6. ASSUME ListWorkspaces PROVE CopiesKept
  BY <1>6, GotoKeepsCopies, Constants
     DEF ListWorkspaces, CurrentRows, ReconcileCalls, KubeCalls
<1>7. ASSUME NextItem PROVE CopiesKept
  BY <1>7, GotoWithKeepsCopies, Constants DEF NextItem
<1>8. ASSUME NEW t \in Threads, CallFails(t) PROVE CopiesKept
  <2>1. Failed(t) \notin ReconcileCalls
    BY DEF Failed, ReconcileCalls, KubeCalls
  <2> QED BY <1>8, <2>1, GotoKeepsCopies DEF CallFails
<1>9. ASSUME NEW u \in Users, SetWorkspaceConfiguration(u) \/ Expire(u)
      PROVE  CopiesKept
  BY <1>9, <1>a DEF SetWorkspaceConfiguration, Expire
<1>10. ASSUME NEW u \in Users, ClusterStep(u) PROVE CopiesKept
  BY <1>10, <1>a DEF ClusterStep, PodStart, PodReady, PodStop, StatusUpdate,
                     ReleasePVC
<1>11. ASSUME Crash PROVE CopiesKept
  BY <1>11 DEF Crash, CopiesKept, FromRow, ReconcileCalls, KubeCalls
<1>12. CASE UNCHANGED vars
  BY <1>12, <1>a DEF vars
<1> QED
  BY <1>1, <1>2, <1>3, <1>4, <1>5, <1>6, <1>7, <1>8, <1>9, <1>10, <1>11,
     <1>12, Constants
  DEF Next, ControllerStep, RequestStep, LoopStep, Environment

(***************************************************************************)
(* Settled workspaces.                                                     *)
(***************************************************************************)

(* A Deployment is only written from a copy in flight (DeploymentFrame),   *)
(* and all copies of a settled workspace's row are like the row.           *)
LEMMA SettledStep ==
  ASSUME TypeOK, [Next]_vars, NEW u \in Users,
         Settled(u), RowOf(u)' = RowOf(u)
  PROVE  Settled(u)'
<1>1. CopiesKept /\ TypeOK'
  BY StepKeepsCopies, NextType
<1>2. \A r \in CurrentRows : r.user = u => r = RowOf(u)
  BY DEF CurrentRows, RowOf
<1>3. \A r \in listed' : r.user = u => r = RowOf(u)'
  BY <1>1, <1>2 DEF CopiesKept, Settled
<1>4. ASSUME NEW t \in Threads, pc'[t] \in ReconcileCalls, w'[t].user = u
      PROVE  w'[t] = RowOf(u)'
  BY <1>1, <1>2, <1>4 DEF CopiesKept, FromRow, Settled
<1>5. Agrees(u)'
  <2>1. desired'[u] = desired[u] /\ nonce'[u] = nonce[u]
    BY DEF RowOf
  <2>2. CASE deployment'[u] = deployment[u]
    BY <2>1, <2>2 DEF Settled, Agrees
  <2>3. CASE deployment'[u] # deployment[u]
    <3>1. PICK t \in Threads :
            /\ pc[t] \in {"deploymentCreate", "deploymentUpdate"}
            /\ w[t].user = u
            /\ deployment'[u] = DeploymentFor(w[t])
      BY <2>3, DeploymentFrame
    <3>2. w[t] = RowOf(u)
      BY <3>1 DEF Settled, ReconcileCalls, KubeCalls
    <3>3. deployment'[u] = DeploymentFor(RowOf(u))
      BY <3>1, <3>2
    <3> QED BY <2>1, <3>3 DEF DeploymentFor, RowOf, Agrees
  <2> QED BY <2>2, <2>3
<1> QED BY <1>3, <1>4, <1>5 DEF Settled

(* Once a Deployment agrees with its row and no older copy is in flight,   *)
(* no interleaving of passes, requests, conflicts, failures and crashes    *)
(* undoes it while the row stays as it is.                                 *)
THEOREM SettledForGood == Spec => SettledStays
<1>1. Init => TypeOK
  BY InitType
<1>2. TypeOK /\ [Next]_vars => TypeOK'
  BY NextType
<1>3. TypeOK /\ [Next]_vars =>
        [\A u \in Users : Settled(u) /\ RowOf(u)' = RowOf(u) => Settled(u)']_vars
  BY SettledStep
<1> QED BY <1>1, <1>2, <1>3, PTL DEF Spec, SettledStays

(***************************************************************************)
(* The database leads.                                                     *)
(***************************************************************************)

(* Restart nonces count one at a time, and revisions only grow. *)
Counts(u) == nonce'[u] \in {nonce[u], nonce[u] + 1} /\ config'[u] >= config[u]

Grows(u) == nonce'[u] >= nonce[u] /\ config'[u] >= config[u]

LEMMA CountersCount ==
  ASSUME TypeOK, [Next]_vars, NEW u \in Users
  PROVE  Counts(u)
<1> USE DEF database, cluster, scratch, locals, history
<1>1. ASSUME UNCHANGED <<nonce, config>> PROVE Counts(u)
  BY <1>1 DEF Counts, TypeOK
<1>2. ASSUME NEW t \in Threads, SetWorkspaceState(t) PROVE Counts(u)
  BY <1>2, UserType DEF SetWorkspaceState, Counts, TypeOK
<1>3. ASSUME NEW t \in Threads, DeleteWorkspaceDataRecord(t) PROVE Counts(u)
  BY <1>3, UserType DEF DeleteWorkspaceDataRecord, Counts, TypeOK
<1>4. ASSUME NEW v \in Users, SetWorkspaceConfiguration(v) PROVE Counts(u)
  BY <1>4 DEF SetWorkspaceConfiguration, Counts, TypeOK
<1>5. ASSUME NEW t \in Requests, NEW v \in Users, NEW o \in Operations,
             Begin(t, v, o)
      PROVE  Counts(u)
  BY <1>5, <1>1 DEF Begin
<1>6. ASSUME NEW t \in Requests, RequestStep(t) PROVE Counts(u)
  BY <1>6, <1>1, <1>2, <1>3, Constants DEF RequestStep, Workspace, DeletePVC
<1>7. ASSUME NEW t \in Threads, Reconcile(t) PROVE Counts(u)
  BY <1>7, <1>1
     DEF Reconcile, EnsurePVCGet, EnsurePVCCreate, EnsureSecretConfig,
         EnsureSecretGet, EnsureSecretCreate, EnsureSecretUpdate,
         EnsureServiceGet, EnsureServiceCreate, EnsureDeploymentGet,
         EnsureDeploymentCreate, EnsureDeploymentUpdate
<1>8. ASSUME LoopStep PROVE Counts(u)
  BY <1>8, <1>1 DEF LoopStep, IdleWorkspaces, ListWorkspaces, NextItem, Tick
<1>9. ASSUME Environment PROVE Counts(u)
  BY <1>9, <1>1, <1>4 DEF Environment, Expire, CallFails
<1>10. ASSUME NEW v \in Users, ClusterStep(v) PROVE Counts(u)
  BY <1>10, <1>1 DEF ClusterStep, PodStart, PodReady, PodStop, StatusUpdate,
                     ReleasePVC
<1>11. ASSUME Crash PROVE Counts(u)
  BY <1>11, <1>1 DEF Crash
<1>12. CASE UNCHANGED vars
  BY <1>12, <1>1 DEF vars
<1> QED BY <1>5, <1>6, <1>7, <1>8, <1>9, <1>10, <1>11, <1>12
        DEF Next, ControllerStep

LEMMA CountersGrow ==
  ASSUME TypeOK, [Next]_vars, NEW u \in Users
  PROVE  Grows(u)
BY CountersCount DEF Counts, Grows, TypeOK

(* What is in flight lags behind the database: the copies of rows that     *)
(* Reconcile works from, and the configuration that ensureSecret read.     *)
SecretCalls == {"secretGet", "secretCreate", "secretUpdate"}

CopiesLag ==
  /\ \A t \in Threads : pc[t] \in ReconcileCalls => w[t].nonce <= nonce[w[t].user]
  /\ \A r \in listed : r.nonce <= nonce[r.user]

RevisionsLag ==
  \A t \in Threads : pc[t] \in SecretCalls => revision[t] <= config[w[t].user]

FilesLag == \A u \in Users : secret[u].doc <= config[u]

Lagging == CopiesLag /\ RevisionsLag /\ FilesLag /\ DatabaseLeads

LEMMA CopiesLagInductive ==
  ASSUME TypeOK, CopiesLag, [Next]_vars
  PROVE  CopiesLag'
<1>1. CopiesKept /\ TypeOK' /\ \A u \in Users : Grows(u)
  BY StepKeepsCopies, NextType, CountersGrow
<1>2. \A r \in listed \cup CurrentRows : r \in Rows /\ r.nonce <= nonce[r.user]
  BY RowType DEF CopiesLag, CurrentRows, RowOf, TypeOK
<1>3. \A r \in listed \cup CurrentRows : r.nonce <= nonce'[r.user]
  <2> SUFFICES ASSUME NEW r \in listed \cup CurrentRows
               PROVE  r.nonce <= nonce'[r.user]
    OBVIOUS
  <2>1. r.user \in Users /\ r.nonce \in Nat
    BY <1>2 DEF Rows
  <2> QED BY <1>1, <1>2, <2>1 DEF Grows, TypeOK
<1>4. ASSUME NEW t \in Threads, pc'[t] \in ReconcileCalls
      PROVE  w'[t].nonce <= nonce'[w'[t].user]
  <2>1. CASE w'[t] \in listed \cup CurrentRows
    BY <2>1, <1>3
  <2>2. CASE pc[t] \in ReconcileCalls /\ w'[t] = w[t]
    BY <2>2, <1>1, UserType DEF CopiesLag, Grows, TypeOK, Rows
  <2> QED BY <1>1, <1>4, <2>1, <2>2 DEF CopiesKept, FromRow
<1> QED BY <1>1, <1>3, <1>4 DEF CopiesKept, CopiesLag

(* A goroutine inside ensureSecret has the revision it had, or reads it in *)
(* this step.                                                              *)
HasRevision(t) ==
  pc'[t] \in SecretCalls =>
    /\ w'[t] = w[t]
    /\ \/ pc[t] \in SecretCalls /\ revision'[t] = revision[t]
       \/ revision'[t] = config[w[t].user]

LEMMA GotoHasRevision ==
  ASSUME TypeOK, NEW t \in Threads, NEW label, Goto(t, label),
         \A s \in Threads : s # t => revision'[s] = revision[s],
         HasRevision(t)
  PROVE  \A s \in Threads : HasRevision(s)
BY DEF HasRevision, Goto, TypeOK

LEMMA LeavesSecret ==
  ASSUME NEW t \in Threads
  PROVE  Failed(t) \notin SecretCalls /\ Returned(t) \notin SecretCalls
BY DEF Failed, Returned, SecretCalls

LEMMA StepHasRevision ==
  ASSUME TypeOK, [Next]_vars
  PROVE  \A t \in Threads : HasRevision(t)
<1> DEFINE Goal == \A t \in Threads : HasRevision(t)
<1> USE DEF database, cluster, scratch, locals, history
<1>a. ASSUME UNCHANGED <<pc, w, revision>> PROVE Goal
  BY <1>a DEF HasRevision
<1>b. ASSUME NEW t \in Threads, NEW label, Goto(t, label), label \notin SecretCalls,
             revision' = revision \/ revision' = [revision EXCEPT ![t] = 0]
      PROVE  Goal
  BY <1>b, GotoHasRevision DEF HasRevision, Goto, TypeOK
<1>1. ASSUME NEW t \in Requests, NEW u \in Users, NEW o \in Operations,
             Begin(t, u, o)
      PROVE  Goal
  BY <1>1, Constants DEF Begin, HasRevision, TypeOK, SecretCalls
<1>2. ASSUME NEW t \in Threads, Workspace(t) PROVE Goal
  BY <1>2 DEF Workspace, GotoWith, HasRevision, TypeOK, SecretCalls
<1>3. ASSUME NEW t \in Threads,
             \/ SetWorkspaceState(t) \/ DeletePVC(t)
             \/ DeleteWorkspaceDataRecord(t)
      PROVE  Goal
  BY <1>3, <1>b
     DEF SetWorkspaceState, DeletePVC, DeleteWorkspaceDataRecord, SecretCalls
<1>4. ASSUME NEW t \in Threads, EnsureSecretConfig(t) PROVE Goal
  BY <1>4, GotoHasRevision
     DEF EnsureSecretConfig, HasRevision, Goto, TypeOK
<1>5. ASSUME NEW t \in Threads, EnsureSecretGet(t) PROVE Goal
  <2>1. HasRevision(t)
    BY <1>5 DEF EnsureSecretGet, At, HasRevision, Goto, TypeOK, SecretCalls
  <2>2. \A s \in Threads : s # t => revision'[s] = revision[s]
    BY <1>5 DEF EnsureSecretGet, TypeOK
  <2> QED BY <1>5, <2>1, <2>2, GotoHasRevision DEF EnsureSecretGet
<1>6. ASSUME NEW t \in Threads, EnsureSecretCreate(t) \/ EnsureSecretUpdate(t)
      PROVE  Goal
  BY <1>6, <1>b, LeavesSecret
     DEF EnsureSecretCreate, EnsureSecretUpdate, SecretCalls
<1>7. ASSUME NEW t \in Threads,
             EnsurePVCGet(t) \/ EnsureServiceGet(t) \/ EnsureDeploymentGet(t)
      PROVE  Goal
  BY <1>7, <1>b
     DEF EnsurePVCGet, EnsureServiceGet, EnsureDeploymentGet, SecretCalls
<1>8. ASSUME NEW t \in Threads, EnsurePVCCreate(t) \/ EnsureServiceCreate(t)
      PROVE  Goal
  BY <1>8, <1>b, LeavesSecret
     DEF EnsurePVCCreate, EnsureServiceCreate, SecretCalls
<1>9. ASSUME NEW t \in Threads,
             EnsureDeploymentCreate(t) \/ EnsureDeploymentUpdate(t)
      PROVE  Goal
  BY <1>9, <1>b, LeavesSecret
     DEF EnsureDeploymentCreate, EnsureDeploymentUpdate
<1>10. ASSUME IdleWorkspaces \/ ListWorkspaces \/ Tick PROVE Goal
  BY <1>10, <1>b, Constants
     DEF IdleWorkspaces, ListWorkspaces, Tick, SecretCalls
<1>11. ASSUME NextItem PROVE Goal
  BY <1>11, Constants DEF NextItem, GotoWith, HasRevision, TypeOK, SecretCalls
<1>12. ASSUME NEW t \in Threads, CallFails(t) PROVE Goal
  BY <1>12, <1>b, LeavesSecret DEF CallFails
<1>13. ASSUME NEW u \in Users, SetWorkspaceConfiguration(u) \/ Expire(u)
      PROVE  Goal
  BY <1>13, <1>a DEF SetWorkspaceConfiguration, Expire
<1>14. ASSUME NEW u \in Users, ClusterStep(u) PROVE Goal
  BY <1>14, <1>a DEF ClusterStep, PodStart, PodReady, PodStop, StatusUpdate,
                     ReleasePVC
<1>15. ASSUME Crash PROVE Goal
  BY <1>15 DEF Crash, HasRevision, SecretCalls
<1>16. CASE UNCHANGED vars
  BY <1>16, <1>a DEF vars
<1> QED
  BY <1>1, <1>2, <1>3, <1>4, <1>5, <1>6, <1>7, <1>8, <1>9, <1>10, <1>11,
     <1>12, <1>13, <1>14, <1>15, <1>16, Constants
  DEF Next, ControllerStep, RequestStep, Reconcile, LoopStep, Environment

LEMMA RevisionsLagInductive ==
  ASSUME TypeOK, RevisionsLag, [Next]_vars
  PROVE  RevisionsLag'
<1> SUFFICES ASSUME NEW t \in Threads, pc'[t] \in SecretCalls
             PROVE  revision'[t] <= config'[w'[t].user]
  BY DEF RevisionsLag
<1>1. HasRevision(t) /\ Grows(w[t].user) /\ TypeOK'
  BY StepHasRevision, CountersGrow, NextType, UserType
<1>2. w[t].user \in Users
  BY UserType
<1> QED BY <1>1, <1>2 DEF HasRevision, RevisionsLag, Grows, TypeOK

(* Only ensureSecret writes Secrets, with the revision it read. *)
LEMMA SecretWritten ==
  ASSUME TypeOK, [Next]_vars, NEW u \in Users, secret'[u] # secret[u]
  PROVE  \E t \in Threads : /\ pc[t] \in SecretCalls /\ w[t].user = u
                            /\ secret'[u].rev = revision[t]
                            /\ secret'[u].doc = revision[t]
<1> DEFINE Goal == \E t \in Threads : /\ pc[t] \in SecretCalls /\ w[t].user = u
                                      /\ secret'[u].rev = revision[t]
                                      /\ secret'[u].doc = revision[t]
<1>1. ASSUME NEW t \in Threads, EnsureSecretCreate(t) PROVE Goal
  <2>1. PICK p \in Passwords :
          secret' = [secret EXCEPT ![w[t].user] = CreatedSecret(revision[t], p)]
    BY <1>1 DEF EnsureSecretCreate
  <2>2. u = w[t].user
    BY <2>1 DEF TypeOK
  <2>3. secret'[u] = CreatedSecret(revision[t], p)
    BY <2>1, <2>2 DEF TypeOK
  <2> QED BY <1>1, <2>2, <2>3 DEF EnsureSecretCreate, At, CreatedSecret, SecretCalls
<1>2. ASSUME NEW t \in Threads, EnsureSecretUpdate(t) PROVE Goal
  <2>1. secret' = [secret EXCEPT ![w[t].user] =
                     UpdatedSecret(secret[w[t].user], revision[t])]
    BY <1>2 DEF EnsureSecretUpdate
  <2>2. u = w[t].user
    BY <2>1 DEF TypeOK
  <2>3. secret'[u] = UpdatedSecret(secret[u], revision[t]) /\ secret[u] \in Secrets
    BY <2>1, <2>2 DEF TypeOK
  <2>4. secret'[u].rev = revision[t] /\ secret'[u].doc = revision[t]
    BY <2>3 DEF UpdatedSecret, Secrets
  <2> QED BY <1>2, <2>2, <2>4 DEF EnsureSecretUpdate, At, SecretCalls
<1>3. ASSUME NEW v \in Users, PodStart(v) \/ PodReady(v) \/ PodStop(v)
      PROVE  FALSE
  BY <1>3 DEF PodStart, PodReady, PodStop
<1> HIDE DEF Goal
<1>4. Goal
  BY <1>1, <1>2, <1>3, SecretFrame DEF SecretStep
<1> QED BY <1>4 DEF Goal

(* Only Kubernetes changes pods: it starts one from the Deployment and the *)
(* Secret as they are, on a bound claim, or moves on the one there is.     *)
PodFrom(u) ==
  \/ pod'[u].nonce = pod[u].nonce /\ pod'[u].doc = pod[u].doc
     /\ pod[u].phase # "none"
  \/ pod'[u] = NoPod
  \/ /\ pvc[u] = "bound" /\ pod[u].phase = "none"
     /\ pod'[u].nonce = deployment[u].nonce /\ pod'[u].doc = secret[u].doc

LEMMA PodWritten ==
  ASSUME TypeOK, [Next]_vars, NEW u \in Users, pod'[u] # pod[u]
  PROVE  PodFrom(u) /\ UNCHANGED <<nonce, config, pvc, volume, purged>>
<1> USE DEF database, cluster, scratch, locals, history
<1>1. ASSUME NEW v \in Users, PodStart(v) PROVE PodFrom(u) /\ v = u
  BY <1>1 DEF PodStart, PodFrom, TypeOK
<1>2. ASSUME NEW v \in Users, PodReady(v) PROVE PodFrom(u) /\ v = u
  BY <1>2 DEF PodReady, PodFrom, TypeOK, Pods
<1>3. ASSUME NEW v \in Users, PodStop(v) PROVE PodFrom(u) /\ v = u
  BY <1>3 DEF PodStop, PodFrom, TypeOK
<1>4. ASSUME NEW t \in Threads, EnsureSecretCreate(t) \/ EnsureSecretUpdate(t)
      PROVE  FALSE
  BY <1>4 DEF EnsureSecretCreate, EnsureSecretUpdate
<1>5. PICK v \in Users : PodStart(v) \/ PodReady(v) \/ PodStop(v)
  BY <1>4, SecretFrame DEF SecretStep
<1>6. UNCHANGED <<nonce, config, pvc, volume, purged>>
  BY <1>5 DEF PodStart, PodReady, PodStop
<1> QED BY <1>1, <1>2, <1>3, <1>5, <1>6

LEMMA LeadsInductive ==
  ASSUME TypeOK, Lagging, [Next]_vars
  PROVE  FilesLag' /\ DatabaseLeads'
<1> SUFFICES ASSUME NEW u \in Users
             PROVE  /\ secret'[u].rev <= config'[u] /\ secret'[u].doc <= config'[u]
                    /\ deployment'[u].nonce <= nonce'[u]
                    /\ pod'[u].nonce <= nonce'[u] /\ pod'[u].doc <= config'[u]
  BY DEF FilesLag, DatabaseLeads
<1> USE DEF Lagging
<1>1. TypeOK' /\ Grows(u)
  BY NextType, CountersGrow
<1>2. /\ nonce[u] \in Nat /\ nonce'[u] \in Nat /\ config[u] \in Nat /\ config'[u] \in Nat
      /\ nonce'[u] >= nonce[u] /\ config'[u] >= config[u]
  BY <1>1 DEF Grows, TypeOK
<1>3. secret'[u].rev <= config'[u] /\ secret'[u].doc <= config'[u]
  <2>1. secret[u].rev \in Nat /\ secret[u].doc \in Nat
    BY DEF TypeOK, Secrets
  <2>2. CASE secret'[u] = secret[u]
    BY <1>2, <2>1, <2>2 DEF FilesLag, DatabaseLeads
  <2>3. CASE secret'[u] # secret[u]
    <3>1. PICK t \in Threads : /\ pc[t] \in SecretCalls /\ w[t].user = u
                              /\ secret'[u].rev = revision[t]
                              /\ secret'[u].doc = revision[t]
      BY <2>3, SecretWritten
    <3>2. revision[t] \in Nat /\ revision[t] <= config[u]
      BY <3>1 DEF RevisionsLag, TypeOK
    <3> QED BY <1>2, <3>1, <3>2
  <2> QED BY <2>2, <2>3
<1>4. deployment'[u].nonce <= nonce'[u]
  <2>1. CASE deployment'[u] = deployment[u]
    BY <1>2, <2>1 DEF DatabaseLeads, TypeOK, Deployments
  <2>2. CASE deployment'[u] # deployment[u]
    <3>1. PICK t \in Threads :
            /\ pc[t] \in {"deploymentCreate", "deploymentUpdate"}
            /\ w[t].user = u
            /\ deployment'[u] = DeploymentFor(w[t])
      BY <2>2, DeploymentFrame
    <3>2. w[t].nonce \in Nat /\ w[t].nonce <= nonce[u]
      BY <3>1, UserType DEF CopiesLag, ReconcileCalls, KubeCalls, Rows
    <3> QED BY <1>2, <3>1, <3>2 DEF DeploymentFor
  <2> QED BY <2>1, <2>2
<1>5. pod'[u].nonce <= nonce'[u] /\ pod'[u].doc <= config'[u]
  <2>1. /\ pod[u].nonce \in Nat /\ pod[u].doc \in Nat
        /\ pod[u].nonce <= nonce[u] /\ pod[u].doc <= config[u]
    BY DEF DatabaseLeads, TypeOK, Pods
  <2>2. /\ deployment[u].nonce \in Nat /\ secret[u].doc \in Nat
        /\ deployment[u].nonce <= nonce[u] /\ secret[u].doc <= config[u]
    BY DEF DatabaseLeads, FilesLag, TypeOK, Deployments, Secrets
  <2>3. CASE pod'[u] = pod[u]
    BY <1>2, <2>1, <2>3
  <2>4. CASE pod'[u] # pod[u]
    <3>1. PodFrom(u)
      BY <2>4, PodWritten
    <3> QED BY <1>2, <2>1, <2>2, <3>1 DEF PodFrom, NoPod
  <2> QED BY <2>3, <2>4
<1> QED BY <1>3, <1>4, <1>5

LEMMA LagInit == Init => Lagging
<1> SUFFICES ASSUME Init PROVE Lagging
  OBVIOUS
<1>1. CopiesLag
  BY Constants DEF Init, CopiesLag, ReconcileCalls, KubeCalls
<1>2. RevisionsLag
  BY DEF Init, RevisionsLag, SecretCalls
<1>3. \A u \in Users : /\ secret[u].rev = 0 /\ secret[u].doc = 0 /\ deployment[u].nonce = 0
                       /\ pod[u].nonce = 0 /\ pod[u].doc = 0
                       /\ nonce[u] = 0 /\ config[u] = 0
  BY DEF Init, NoSecret, FirstSecret, NoDeployment, OneReplica, NoPod, RunningPod
<1> QED BY <1>1, <1>2, <1>3 DEF Lagging, FilesLag, DatabaseLeads

LEMMA LagInductive ==
  ASSUME TypeOK, Lagging, [Next]_vars
  PROVE  Lagging'
BY CopiesLagInductive, RevisionsLagInductive, LeadsInductive DEF Lagging

(* No Deployment, Secret or pod is ahead of the database, although each is *)
(* written from copies that goroutines read at different times.  Inductive *)
(* with the same statement about every copy in flight.                     *)
THEOREM DatabaseAhead == Spec => []DatabaseLeads
<1>1. Init => TypeOK /\ Lagging
  BY InitType, LagInit
<1>2. TypeOK /\ Lagging /\ [Next]_vars => (TypeOK /\ Lagging)'
  BY NextType, LagInductive
<1>3. Lagging => DatabaseLeads
  BY DEF Lagging
<1> QED BY <1>1, <1>2, <1>3, PTL DEF Spec

(***************************************************************************)
(* Condemned volumes.                                                      *)
(***************************************************************************)

(* A purge that has returned success condemned no volume that was created  *)
(* since, so that a bound claim is never the condemned one.                *)
PurgedBefore ==
  \A u \in Users : /\ purged[u] <= volume[u]
                   /\ pvc[u] = "bound" => purged[u] < volume[u]

Condemning == PurgedBefore /\ CondemnedPodOutdated

(* What may happen to user u's claim, and to the record of its purges. *)
ClaimStep(u) ==
  \/ UNCHANGED <<pvc[u], volume[u], purged[u]>>
  \/ pvc[u] = "absent" /\ volume'[u] = volume[u] + 1 /\ purged'[u] = purged[u]
  \/ pvc'[u] # "bound" /\ pvc[u] # "absent"
     /\ volume'[u] = volume[u] /\ purged'[u] = purged[u]
  \/ /\ pvc'[u] = pvc[u] /\ volume'[u] = volume[u] /\ nonce'[u] = nonce[u] + 1
     /\ purged'[u] = IF pvc[u] = "terminating" THEN volume[u] ELSE 0

LEMMA ClaimSteps ==
  ASSUME TypeOK, [Next]_vars, NEW u \in Users
  PROVE  ClaimStep(u)
<1> USE DEF database, cluster, scratch, locals, history
<1>1. ASSUME UNCHANGED <<pvc, volume, purged>> PROVE ClaimStep(u)
  BY <1>1 DEF ClaimStep
<1>2. ASSUME NEW t \in Threads, EnsurePVCCreate(t) PROVE ClaimStep(u)
  BY <1>2, UserType DEF EnsurePVCCreate, ClaimStep, TypeOK
<1>3. ASSUME NEW t \in Threads, DeletePVC(t) PROVE ClaimStep(u)
  BY <1>3, UserType DEF DeletePVC, ClaimStep, TypeOK
<1>4. ASSUME NEW v \in Users, ReleasePVC(v) PROVE ClaimStep(u)
  BY <1>4 DEF ReleasePVC, ClaimStep, TypeOK
<1>5. ASSUME NEW t \in Threads, DeleteWorkspaceDataRecord(t) PROVE ClaimStep(u)
  BY <1>5, UserType DEF DeleteWorkspaceDataRecord, ClaimStep, TypeOK
<1>6. ASSUME NEW t \in Requests, NEW v \in Users, NEW o \in Operations,
             Begin(t, v, o)
      PROVE  ClaimStep(u)
  BY <1>6, <1>1 DEF Begin
<1>7. ASSUME NEW t \in Requests, RequestStep(t) PROVE ClaimStep(u)
  BY <1>7, <1>1, <1>3, <1>5, Constants DEF RequestStep, SetWorkspaceState, Workspace
<1>8. ASSUME NEW t \in Threads, Reconcile(t) PROVE ClaimStep(u)
  BY <1>8, <1>1, <1>2
     DEF Reconcile, EnsurePVCGet, EnsureSecretConfig, EnsureSecretGet,
         EnsureSecretCreate, EnsureSecretUpdate, EnsureServiceGet,
         EnsureServiceCreate, EnsureDeploymentGet, EnsureDeploymentCreate,
         EnsureDeploymentUpdate
<1>9. ASSUME LoopStep PROVE ClaimStep(u)
  BY <1>9, <1>1 DEF LoopStep, IdleWorkspaces, ListWorkspaces, NextItem, Tick
<1>10. ASSUME Environment PROVE ClaimStep(u)
  BY <1>10, <1>1 DEF Environment, SetWorkspaceConfiguration, Expire, CallFails
<1>11. ASSUME NEW v \in Users, ClusterStep(v) PROVE ClaimStep(u)
  BY <1>11, <1>1, <1>4 DEF ClusterStep, PodStart, PodReady, PodStop, StatusUpdate
<1>12. ASSUME Crash PROVE ClaimStep(u)
  BY <1>12, <1>1 DEF Crash
<1>13. CASE UNCHANGED vars
  BY <1>13, <1>1 DEF vars
<1> QED BY <1>6, <1>7, <1>8, <1>9, <1>10, <1>11, <1>12, <1>13
        DEF Next, ControllerStep

LEMMA PurgedBeforeInductive ==
  ASSUME TypeOK, ClaimCounted, PurgedBefore, [Next]_vars
  PROVE  PurgedBefore'
<1> SUFFICES ASSUME NEW u \in Users
             PROVE  /\ purged'[u] <= volume'[u]
                    /\ pvc'[u] = "bound" => purged'[u] < volume'[u]
  BY DEF PurgedBefore
<1>1. ClaimStep(u) /\ volume[u] \in Nat /\ purged[u] \in Nat
  BY ClaimSteps DEF TypeOK
<1> QED BY <1>1 DEF PurgedBefore, ClaimStep, ClaimCounted

(* The pod of a condemned volume was outdated already, or is by the record *)
(* of this purge: the nonce moves in the transaction that records it.      *)
LEMMA CondemnedInductive ==
  ASSUME TypeOK, Lagging, Condemning, [Next]_vars
  PROVE  CondemnedPodOutdated'
<1> SUFFICES ASSUME NEW u \in Users,
                    pvc'[u] = "terminating", volume'[u] = purged'[u],
                    pod'[u].phase # "none"
             PROVE  pod'[u].nonce < nonce'[u]
  BY DEF CondemnedPodOutdated
<1>1. ClaimStep(u) /\ Grows(u)
  BY ClaimSteps, CountersGrow
<1>2. /\ nonce[u] \in Nat /\ volume[u] \in Nat /\ purged[u] \in Nat
      /\ nonce'[u] \in Nat /\ volume'[u] \in Nat /\ purged'[u] \in Nat
  BY NextType DEF TypeOK
<1>3. pod[u].nonce \in Nat /\ pod[u].nonce <= nonce[u]
  BY DEF Lagging, DatabaseLeads, TypeOK, Pods
<1>4. purged[u] <= volume[u] /\ (pvc[u] = "bound" => purged[u] < volume[u])
  BY DEF Condemning, PurgedBefore
<1>5. CASE pod'[u] # pod[u]
  <2>1. PodFrom(u) /\ UNCHANGED <<nonce, config, pvc, volume, purged>>
    BY <1>5, PodWritten
  <2>2. pod[u].phase # "none" /\ pod'[u].nonce = pod[u].nonce
    BY <2>1 DEF PodFrom, NoPod
  <2> QED BY <2>1, <2>2 DEF Condemning, CondemnedPodOutdated
<1>6. CASE pod'[u] = pod[u]
  <2>1. CASE UNCHANGED <<pvc[u], volume[u], purged[u]>>
    <3>1. pod[u].nonce < nonce[u]
      BY <1>6, <2>1 DEF Condemning, CondemnedPodOutdated
    <3> QED BY <1>1, <1>2, <1>3, <1>6, <3>1 DEF Grows
  <2>2. CASE volume'[u] = volume[u] + 1 /\ purged'[u] = purged[u]
    <3>1. purged[u] = volume[u] + 1
      BY <2>2
    <3> QED BY <1>2, <1>4, <3>1
  <2>3. CASE pvc[u] # "absent" /\ volume'[u] = volume[u] /\ purged'[u] = purged[u]
    <3>1. purged[u] = volume[u]
      BY <2>3
    <3>2. pvc[u] = "terminating"
      BY <1>2, <1>4, <2>3, <3>1 DEF TypeOK, Claims
    <3>3. pod[u].nonce < nonce[u]
      BY <1>6, <2>3, <3>2 DEF Condemning, CondemnedPodOutdated
    <3> QED BY <1>1, <1>2, <1>3, <1>6, <3>3 DEF Grows
  <2>4. CASE nonce'[u] = nonce[u] + 1
    BY <1>2, <1>3, <1>6, <2>4
  <2> QED BY <1>1, <2>1, <2>2, <2>3, <2>4 DEF ClaimStep
<1> QED BY <1>5, <1>6

LEMMA CondemningInit == Init => Condemning
BY DEF Init, Condemning, PurgedBefore, CondemnedPodOutdated

(* A pod that still runs on a volume a successful purge condemned carries  *)
(* an outdated nonce, whatever passes and starts raced with the purge.     *)
(* Inductive with DatabaseLeads (the pod is not ahead of the row when the  *)
(* purge moves the nonce) and PurgedBefore (a claim bound later is none of *)
(* the purge's).                                                           *)
THEOREM CondemnedPodsOutdated == Spec => []CondemnedPodOutdated
<1> DEFINE Inv == TypeOK /\ Ordered /\ Lagging /\ Condemning
<1>1. Init => Inv
  BY InitType, OrderInit, LagInit, CondemningInit
<1>2. Inv /\ [Next]_vars => Inv'
  BY NextType, OrderInductive, ClaimInductive, DependenciesInductive, LagInductive,
     PurgedBeforeInductive, CondemnedInductive
  DEF Ordered, Condemning
<1>3. Inv => CondemnedPodOutdated
  BY DEF Condemning
<1> QED BY <1>1, <1>2, <1>3, PTL DEF Spec

(***************************************************************************)
(* The refinement: initial states of Controller map to initial states of   *)
(* PersonalWorkspace, and every step to a step or a stutter.               *)
(***************************************************************************)

(* Only a purge reaches the deletion of a claim, and it says so. *)
OnlyPurgesDelete == \A t \in Threads : pc[t] = "pvcDelete" => op[t] = "purge"

(* No pod is like any other no pod. *)
NoPodIsNoPod == \A u \in Users : pod[u].phase = "none" => pod[u].nonce = 0

(***************************************************************************)
(* The invariant behind the mapping.                                       *)
(***************************************************************************)
LEMMA GotoDeletes ==
  ASSUME TypeOK, OnlyPurgesDelete, NEW t \in Threads, NEW label, Goto(t, label),
         label = "pvcDelete" => op[t] = "purge"
  PROVE  OnlyPurgesDelete'
BY DEF OnlyPurgesDelete, Goto, TypeOK

LEMMA OnlyPurgesDeleteInductive ==
  ASSUME TypeOK, OnlyPurgesDelete, [Next]_vars
  PROVE  OnlyPurgesDelete'
<1> USE DEF database, cluster, scratch, locals, history
<1>a. ASSUME UNCHANGED <<pc, op>> PROVE OnlyPurgesDelete'
  BY <1>a DEF OnlyPurgesDelete
<1>b. \A t \in Threads : /\ Returned(t) = "pvcDelete" => op[t] = "purge"
                         /\ Failed(t) # "pvcDelete"
  BY DEF Returned, Failed
<1>1. ASSUME NEW t \in Requests, NEW u \in Users, NEW o \in Operations,
             Begin(t, u, o)
      PROVE  OnlyPurgesDelete'
  BY <1>1, Constants DEF Begin, OnlyPurgesDelete, TypeOK
<1>2. ASSUME NEW t \in Threads, Workspace(t) PROVE OnlyPurgesDelete'
  BY <1>2 DEF Workspace, GotoWith, OnlyPurgesDelete, TypeOK
<1>3. ASSUME NEW t \in Threads,
             \/ SetWorkspaceState(t) \/ DeletePVC(t)
             \/ DeleteWorkspaceDataRecord(t)
      PROVE  OnlyPurgesDelete'
  BY <1>3, GotoDeletes
     DEF SetWorkspaceState, DeletePVC, DeleteWorkspaceDataRecord
<1>4. ASSUME NEW t \in Threads, Reconcile(t) PROVE OnlyPurgesDelete'
  <2>1. \E label : Goto(t, label) /\ (label = "pvcDelete" => op[t] = "purge")
    BY <1>4, <1>b DEF Reconcile, EnsurePVCGet, EnsurePVCCreate,
         EnsureSecretConfig, EnsureSecretGet, EnsureSecretCreate,
         EnsureSecretUpdate, EnsureServiceGet, EnsureServiceCreate,
         EnsureDeploymentGet, EnsureDeploymentCreate, EnsureDeploymentUpdate
  <2> QED BY <2>1, GotoDeletes
<1>5. ASSUME IdleWorkspaces \/ ListWorkspaces \/ Tick PROVE OnlyPurgesDelete'
  BY <1>5, GotoDeletes, Constants DEF IdleWorkspaces, ListWorkspaces, Tick
<1>6. ASSUME NextItem PROVE OnlyPurgesDelete'
  BY <1>6, Constants DEF NextItem, GotoWith, OnlyPurgesDelete, TypeOK
<1>7. ASSUME NEW t \in Threads, CallFails(t) PROVE OnlyPurgesDelete'
  BY <1>7, <1>b, GotoDeletes DEF CallFails
<1>8. ASSUME NEW u \in Users, SetWorkspaceConfiguration(u) \/ Expire(u)
      PROVE  OnlyPurgesDelete'
  BY <1>8, <1>a DEF SetWorkspaceConfiguration, Expire
<1>9. ASSUME NEW u \in Users, ClusterStep(u) PROVE OnlyPurgesDelete'
  BY <1>9, <1>a DEF ClusterStep, PodStart, PodReady, PodStop, StatusUpdate,
                    ReleasePVC
<1>10. ASSUME Crash PROVE OnlyPurgesDelete'
  BY <1>10 DEF Crash, OnlyPurgesDelete
<1>11. CASE UNCHANGED vars
  BY <1>11, <1>a DEF vars
<1> QED
  BY <1>1, <1>2, <1>3, <1>4, <1>5, <1>6, <1>7, <1>8, <1>9, <1>10, <1>11, Constants
  DEF Next, ControllerStep, RequestStep, LoopStep, Environment

(* Only Kubernetes touches pods. *)
LEMMA PodFrame ==
  ASSUME [Next]_vars, pod' # pod
  PROVE  \E u \in Users : PodStart(u) \/ PodReady(u) \/ PodStop(u)
<1>1. ASSUME NEW t \in Threads, EnsureSecretCreate(t) \/ EnsureSecretUpdate(t)
      PROVE  FALSE
  BY <1>1 DEF EnsureSecretCreate, EnsureSecretUpdate
<1> QED BY <1>1, SecretFrame DEF SecretStep

LEMMA NoPodInductive ==
  ASSUME TypeOK, NoPodIsNoPod, [Next]_vars
  PROVE  NoPodIsNoPod'
<1>1. CASE pod' = pod
  BY <1>1 DEF NoPodIsNoPod
<1>2. ASSUME NEW u \in Users, PodStart(u) \/ PodReady(u) \/ PodStop(u)
      PROVE  NoPodIsNoPod'
  <2>1. CASE PodStart(u)
    BY <2>1 DEF PodStart, NoPodIsNoPod, TypeOK
  <2>2. CASE PodReady(u)
    BY <2>2 DEF PodReady, NoPodIsNoPod, TypeOK, Pods
  <2>3. CASE PodStop(u)
    BY <2>3 DEF PodStop, NoPodIsNoPod, NoPod, TypeOK
  <2> QED BY <1>2, <2>1, <2>2, <2>3
<1> QED BY <1>1, <1>2, PodFrame

Mapped == TypeOK /\ Lagging /\ OnlyPurgesDelete /\ NoPodIsNoPod

LEMMA MappedInit == Init => Mapped
<1>1. Init => OnlyPurgesDelete /\ NoPodIsNoPod
  BY DEF Init, OnlyPurgesDelete, NoPodIsNoPod, NoPod, RunningPod
<1> QED BY <1>1, InitType, LagInit DEF Mapped

LEMMA MappedInductive == Mapped /\ [Next]_vars => Mapped'
BY NextType, LagInductive, OnlyPurgesDeleteInductive, NoPodInductive DEF Mapped

(***************************************************************************)
(* Steps.                                                                  *)
(***************************************************************************)
ClaimTouched ==
  \/ \E t \in Threads : EnsurePVCCreate(t)
  \/ \E t \in Requests : DeletePVC(t)
  \/ \E u \in Users : ReleasePVC(u)

LEMMA ClaimFrame ==
  ASSUME [Next]_vars, ~ClaimTouched
  PROVE  pvc' = pvc
<1> USE DEF database, cluster, scratch, locals, history
<1>1. ASSUME NEW t \in Requests, NEW u \in Users, NEW o \in Operations,
             Begin(t, u, o)
      PROVE  pvc' = pvc
  BY <1>1 DEF Begin
<1>2. ASSUME NEW t \in Requests, RequestStep(t) PROVE pvc' = pvc
  BY <1>2 DEF ClaimTouched, RequestStep, SetWorkspaceState, Workspace,
              DeleteWorkspaceDataRecord
<1>3. ASSUME NEW t \in Threads, Reconcile(t) PROVE pvc' = pvc
  BY <1>3 DEF ClaimTouched, Reconcile, EnsurePVCGet, EnsureSecretConfig,
              EnsureSecretGet, EnsureSecretCreate, EnsureSecretUpdate,
              EnsureServiceGet, EnsureServiceCreate, EnsureDeploymentGet,
              EnsureDeploymentCreate, EnsureDeploymentUpdate
<1>4. ASSUME LoopStep PROVE pvc' = pvc
  BY <1>4 DEF LoopStep, IdleWorkspaces, ListWorkspaces, NextItem, Tick
<1>5. ASSUME Environment PROVE pvc' = pvc
  BY <1>5 DEF Environment, SetWorkspaceConfiguration, Expire, CallFails
<1>6. ASSUME NEW u \in Users, ClusterStep(u) PROVE pvc' = pvc
  BY <1>6 DEF ClaimTouched, ClusterStep, PodStart, PodReady, PodStop, StatusUpdate
<1>7. ASSUME Crash PROVE pvc' = pvc
  BY <1>7 DEF Crash
<1>8. CASE UNCHANGED vars
  BY <1>8 DEF vars
<1> QED BY <1>1, <1>2, <1>3, <1>4, <1>5, <1>6, <1>7, <1>8 DEF Next, ControllerStep

(* Whatever happens away from claims and pods is somebody's asking. *)
LEMMA AskStep ==
  ASSUME Mapped, [Next]_vars, UNCHANGED <<pvc, pod>>
  PROVE  Promise!Ask
<1>1. TypeOK' /\ \A u \in Users : Counts(u)
  BY NextType, CountersCount DEF Mapped
<1>2. PurgeUnderWay' \subseteq Users
  BY <1>1 DEF PurgeUnderWay, TypeOK, Rows, Threads
<1>3. UNCHANGED <<[u \in Users |-> DataOf(u)], [u \in Users |-> PodOf(u)]>>
  BY DEF DataOf, PodOf
<1> QED BY <1>1, <1>2, <1>3 DEF Promise!Ask, TypeOK, States, Counts

(* A written claim is written data. *)
LEMMA ClaimMapped ==
  ASSUME Mapped, NEW u \in Users, NEW c \in Claims, pvc' = [pvc EXCEPT ![u] = c]
  PROVE  [v \in Users |-> DataOf(v)]' =
           [[v \in Users |-> DataOf(v)] EXCEPT
              ![u] = CASE c = "absent"      -> "none"
                       [] c = "bound"       -> "kept"
                       [] c = "terminating" -> "condemned"]
<1>1. ASSUME NEW v \in Users, v # u PROVE DataOf(v)' = DataOf(v)
  <2>1. pvc'[v] = pvc[v]
    BY <1>1 DEF Mapped, TypeOK
  <2> QED BY <2>1 DEF DataOf
<1>2. pvc'[u] = c
  BY DEF Mapped, TypeOK
<1>3. DataOf(u)' = CASE c = "absent"      -> "none"
                     [] c = "bound"       -> "kept"
                     [] c = "terminating" -> "condemned"
  BY <1>2 DEF DataOf
<1> QED BY <1>1, <1>3

LEMMA CreateStep ==
  ASSUME Mapped, [Next]_vars, NEW t \in Threads, EnsurePVCCreate(t)
  PROVE  [Promise!Next]_(Promise!vars)
<1> DEFINE u == w[t].user
<1>1. u \in Users /\ pvc[u] \in Claims
  BY UserType DEF Mapped, TypeOK
<1>2. CASE pvc[u] = "absent"
  <2>1. /\ pvc' = [pvc EXCEPT ![u] = "bound"] /\ Goto(t, "configRead")
        /\ UNCHANGED <<desired, nonce, pod>>
    BY <1>2 DEF EnsurePVCCreate, database
  <2>2. PurgeUnderWay' = PurgeUnderWay
    BY <2>1 DEF PurgeUnderWay, Goto, Mapped, TypeOK
  <2>3. [v \in Users |-> DataOf(v)]' = [[v \in Users |-> DataOf(v)] EXCEPT ![u] = "kept"]
    BY <1>1, <2>1, ClaimMapped DEF Claims
  <2>4. DataOf(u) = "none"
    BY <1>2 DEF DataOf
  <2> QED BY <1>1, <2>1, <2>2, <2>3, <2>4 DEF Promise!Next, Promise!Provide, PodOf
<1>3. CASE pvc[u] # "absent"
  BY <1>3, AskStep DEF EnsurePVCCreate, Promise!Next
<1> QED BY <1>2, <1>3

LEMMA DeleteStep ==
  ASSUME Mapped, [Next]_vars, NEW t \in Requests, DeletePVC(t)
  PROVE  [Promise!Next]_(Promise!vars)
<1> DEFINE u == w[t].user
<1>1. t \in Threads /\ u \in Users /\ pvc[u] \in Claims /\ pc[t] = "pvcDelete"
  BY UserType, Constants DEF Mapped, TypeOK, DeletePVC, At
<1>2. /\ pvc' = [pvc EXCEPT ![u] = IF @ = "absent" THEN @ ELSE "terminating"]
      /\ Goto(t, "record") /\ UNCHANGED <<desired, nonce, pod>>
  BY DEF DeletePVC, database
<1>3. PurgeUnderWay' = PurgeUnderWay
  BY <1>1, <1>2 DEF PurgeUnderWay, Goto, Mapped, TypeOK
<1>4. u \in PurgeUnderWay
  BY <1>1 DEF PurgeUnderWay, Mapped, OnlyPurgesDelete
<1>5. CASE pvc[u] = "bound"
  <2>1. [v \in Users |-> DataOf(v)]' =
          [[v \in Users |-> DataOf(v)] EXCEPT ![u] = "condemned"]
    <3>1. pvc' = [pvc EXCEPT ![u] = "terminating"]
      BY <1>2, <1>5
    <3> QED BY <1>1, <3>1, ClaimMapped DEF Claims
  <2>2. DataOf(u) = "kept"
    BY <1>5 DEF DataOf
  <2> QED BY <1>1, <1>2, <1>3, <1>4, <2>1, <2>2
          DEF Promise!Next, Promise!Condemn, PodOf
<1>6. CASE pvc[u] # "bound"
  <2>1. pvc' = pvc
    BY <1>1, <1>2, <1>6 DEF Mapped, TypeOK, Claims
  <2> QED BY <1>2, <2>1, AskStep DEF Promise!Next
<1> QED BY <1>5, <1>6

LEMMA ReleaseStep ==
  ASSUME Mapped, NEW u \in Users, ReleasePVC(u)
  PROVE  Promise!Next
<1>1. /\ pvc' = [pvc EXCEPT ![u] = "absent"]
      /\ UNCHANGED <<desired, nonce, pod, op, w>>
  BY DEF ReleasePVC, database, locals
<1>2. [v \in Users |-> DataOf(v)]' = [[v \in Users |-> DataOf(v)] EXCEPT ![u] = "none"]
  BY <1>1, ClaimMapped DEF Claims
<1>3. DataOf(u) = "condemned" /\ PodOf(u) = Promise!NoPod
  BY DEF ReleasePVC, DataOf, PodOf, Promise!NoPod, Mapped, NoPodIsNoPod
<1>4. PurgeUnderWay' = PurgeUnderWay
  BY <1>1 DEF PurgeUnderWay
<1> QED BY <1>1, <1>2, <1>3, <1>4 DEF Promise!Next, Promise!Erase, PodOf

(* A pod boots for the Deployment's nonce, which the database handed out:  *)
(* DatabaseLeads.                                                          *)
LEMMA PodSteps ==
  ASSUME Mapped, NEW u \in Users, PodStart(u) \/ PodReady(u) \/ PodStop(u)
  PROVE  Promise!Next
<1>1. UNCHANGED <<desired, nonce, pvc, op, w>>
  BY DEF PodStart, PodReady, PodStop, database, locals
<1>2. PurgeUnderWay' = PurgeUnderWay /\ [v \in Users |-> DataOf(v)]' = [v \in Users |-> DataOf(v)]
  BY <1>1 DEF PurgeUnderWay, DataOf
<1>3. CASE PodStart(u)
  <2>1. deployment[u].nonce \in 0..nonce[u]
    BY DEF Mapped, Lagging, DatabaseLeads, TypeOK, Deployments
  <2>2. [v \in Users |-> PodOf(v)]' =
          [[v \in Users |-> PodOf(v)] EXCEPT
             ![u] = [phase |-> "starting", nonce |-> deployment[u].nonce]]
    BY <1>3 DEF PodStart, PodOf, Mapped, TypeOK
  <2>3. DataOf(u) = "kept" /\ PodOf(u) = Promise!NoPod
    BY <1>3 DEF PodStart, DataOf, PodOf, Promise!NoPod, Mapped, NoPodIsNoPod
  <2> QED BY <1>1, <1>2, <2>1, <2>2, <2>3 DEF Promise!Next, Promise!Boot
<1>4. CASE PodReady(u)
  <2>1. [v \in Users |-> PodOf(v)]' =
          [[v \in Users |-> PodOf(v)] EXCEPT ![u].phase = "ready"]
    BY <1>4 DEF PodReady, PodOf, Mapped, TypeOK, Pods
  <2>2. PodOf(u).phase = "starting"
    BY <1>4 DEF PodReady, PodOf
  <2> QED BY <1>1, <1>2, <2>1, <2>2 DEF Promise!Next, Promise!Ready
<1>5. CASE PodStop(u)
  <2>1. [v \in Users |-> PodOf(v)]' =
          [[v \in Users |-> PodOf(v)] EXCEPT ![u] = Promise!NoPod]
    BY <1>5 DEF PodStop, PodOf, Promise!NoPod, NoPod, Mapped, TypeOK
  <2>2. PodOf(u) # Promise!NoPod
    BY <1>5 DEF PodStop, PodOf, Promise!NoPod
  <2> QED BY <1>1, <1>2, <2>1, <2>2 DEF Promise!Next, Promise!Halt
<1> QED BY <1>3, <1>4, <1>5

LEMMA PromiseStep == Mapped /\ [Next]_vars => [Promise!Next]_(Promise!vars)
<1> SUFFICES ASSUME Mapped, [Next]_vars PROVE [Promise!Next]_(Promise!vars)
  OBVIOUS
<1>1. CASE ClaimTouched
  BY <1>1, CreateStep, DeleteStep, ReleaseStep DEF ClaimTouched
<1>2. CASE pod' # pod
  BY <1>2, PodFrame, PodSteps
<1>3. CASE ~ClaimTouched /\ pod' = pod
  BY <1>3, ClaimFrame, AskStep DEF Promise!Next
<1> QED BY <1>1, <1>2, <1>3

LEMMA PromiseInit == Init => Promise!Init
<1> SUFFICES ASSUME Init PROVE Promise!Init
  OBVIOUS
<1>1. PurgeUnderWay = {}
  BY Constants DEF Init, PurgeUnderWay
<1>2. ASSUME NEW u \in Users
      PROVE  /\ DataOf(u) \in {"none", "kept"}
             /\ PodOf(u) \in {Promise!NoPod, [phase |-> "ready", nonce |-> 0]}
             /\ PodOf(u) # Promise!NoPod => DataOf(u) = "kept"
  BY DEF Init, DataOf, PodOf, Promise!NoPod, NoPod, RunningPod
<1>3. desired \in [Users -> {"running", "stopped"}] /\ nonce = [u \in Users |-> 0]
  BY DEF Init
<1> QED BY <1>1, <1>2, <1>3 DEF Promise!Init

(* The controller implements what users are promised: whatever goroutines, *)
(* copies, conflicts, failures and crashes there are, data comes into      *)
(* being empty, is condemned by a purge of that user only and never goes   *)
(* away under a pod; there is one pod at most, on kept data when it        *)
(* starts, and its nonce is one that was asked for.  (That what is due     *)
(* happens in the end, Promise!Fairness, is checked by TLC.)               *)
THEOREM ImplementsPromise == Spec => NeverBreaksPromise
<1> QED BY PromiseInit, MappedInit, MappedInductive, PromiseStep, PTL
        DEF Spec, NeverBreaksPromise, Promise!Spec
==============================================================================
