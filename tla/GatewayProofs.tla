----------------------------- MODULE GatewayProofs -----------------------------
(***************************************************************************)
(* Machine-checked proofs about Gateway, for every value of its constants: *)
(* what is known of Controller carries over to the composition, the        *)
(* backends that requests hold and cache are good ones, and the control    *)
(* plane with its proxy implements PersonalWorkspace.                      *)
(***************************************************************************)
EXTENDS Gateway, ControllerProofs

LEMMA ClientTypes == \A t \in Clients : t \in Threads
BY ClientsAssumption DEF Threads

(* What the controller promises the gateway about its own state. *)
Beneath == TypeOK /\ Ordered /\ SecretSafe

LEMMA BeneathInit == Init => Beneath
BY InitType, OrderInit, SecretInit DEF Beneath

LEMMA BeneathInductive ==
  ASSUME Beneath, [Next]_vars
  PROVE  Beneath'
BY NextType, OrderInductive, ClaimInductive, DependenciesInductive, SecretInductive
DEF Beneath, Ordered

(***************************************************************************)
(* The gateway's steps keep it.                                            *)
(***************************************************************************)
LEMMA ProxyType ==
  ASSUME TypeOK, NEW t \in Clients, ProxyStep(t)
  PROVE  TypeOK'
<1> USE DEF database, cluster, scratch, locals, history
<1> t \in Threads
  BY ClientTypes
<1>1. ASSUME NEW u \in Users, ServeHTTP(t, u) PROVE TypeOK'
  BY <1>1 DEF ServeHTTP, TypeOK, NoRow, Rows, States, Labels, ProxyCalls
<1>2. ASSUME ForgetBackend(t) PROVE TypeOK'
  BY <1>2, GotoType DEF ForgetBackend, TypeOK, Labels, StoreCalls
<1>3. ASSUME LookupBackend(t) PROVE TypeOK'
  BY <1>3, GotoType DEF LookupBackend, TypeOK, Labels, ProxyCalls
<1>4. ASSUME Status(t) PROVE TypeOK'
  BY <1>4, GotoType DEF Status, Answer, TypeOK, Labels, ProxyCalls
<1>5. ASSUME Backend(t) \/ CacheBackend(t) PROVE TypeOK'
  BY <1>5, GotoType DEF Backend, CacheBackend, TypeOK, Labels, ProxyCalls
<1>6. ASSUME BackendFails(t) PROVE TypeOK'
  BY <1>6, GotoType DEF BackendFails, Answer, TypeOK, Labels
<1>7. ASSUME Touch(t) PROVE TypeOK'
  BY <1>7, GotoType DEF Touch, TypeOK, Labels, ProxyCalls
<1>8. ASSUME TouchWorkspace(t) PROVE TypeOK'
  BY <1>8, GotoType, UserType DEF TouchWorkspace, TypeOK, States, Labels, ProxyCalls
<1>9. ASSUME TouchLost(t) PROVE TypeOK'
  BY <1>9, GotoType DEF TouchLost, TypeOK, Labels, ProxyCalls
<1>10. ASSUME Forward(t) PROVE TypeOK'
  BY <1>10, GotoType DEF Forward, Answer, TypeOK, Labels, ProxyCalls
<1>11. ASSUME ErrorHandler(t) PROVE TypeOK'
  BY <1>11, GotoType DEF ErrorHandler, Answer, TypeOK, Labels
<1> QED BY <1>1, <1>2, <1>3, <1>4, <1>5, <1>6, <1>7, <1>8, <1>9, <1>10, <1>11
        DEF ProxyStep

(* ServeHTTP writes no Kubernetes object, moves no other goroutine and     *)
(* enters no part of Reconcile that relies on one.                         *)
ProxyMoves(t) ==
  /\ UNCHANGED cluster
  /\ \A s \in Threads : s # t => pc'[s] = pc[s] /\ w'[s] = w[s]
  /\ pc'[t] \notin PastClaim

LEMMA ProxyFrame ==
  ASSUME TypeOK, NEW t \in Clients, ProxyStep(t)
  PROVE  ProxyMoves(t)
<1> t \in Threads
  BY ClientTypes
<1>1. ASSUME NEW u \in Users, ServeHTTP(t, u) PROVE ProxyMoves(t)
  BY <1>1 DEF ServeHTTP, ProxyMoves, TypeOK, PastClaim, PastSecret, PastService
<1>2. UNCHANGED cluster
  BY DEF ProxyStep, ServeHTTP, ForgetBackend, LookupBackend, Status, Backend,
         BackendFails, CacheBackend, Touch, TouchWorkspace, TouchLost, Forward,
         ErrorHandler
<1>3. ASSUME NEW label \in Labels \ PastClaim, Goto(t, label) PROVE ProxyMoves(t)
  BY <1>2, <1>3 DEF Goto, ProxyMoves, TypeOK
<1>4. {"set", "touch", "status", "password", "cache", "touchWrite", "forward",
       "proxyError", "done"} \subseteq Labels \ PastClaim
  BY DEF Labels, StoreCalls, ProxyCalls, PastClaim, PastSecret, PastService
<1>5. ASSUME ~ \E u \in Users : ServeHTTP(t, u)
      PROVE  \E label \in Labels \ PastClaim : Goto(t, label)
  BY <1>4, <1>5 DEF ProxyStep, ForgetBackend, LookupBackend, Status, Backend,
         BackendFails, CacheBackend, Touch, TouchWorkspace, TouchLost, Forward,
         ErrorHandler, Answer
<1> QED BY <1>1, <1>3, <1>5

LEMMA ProxyBeneath ==
  ASSUME Beneath, NEW t \in Clients, ProxyStep(t)
  PROVE  Beneath'
<1>1. TypeOK' /\ ProxyMoves(t)
  BY ProxyType, ProxyFrame DEF Beneath
<1>2. UNCHANGED cluster
  BY <1>1 DEF ProxyMoves
<1>3. OrderKept'
  <2> SUFFICES ASSUME NEW s \in Threads
               PROVE  /\ pc'[s] \in PastClaim   => volume'[w'[s].user] > 0
                      /\ pc'[s] \in PastSecret  => secret'[w'[s].user].exists
                      /\ pc'[s] \in PastService => service'[w'[s].user]
    BY DEF OrderKept
  <2>1. CASE s = t
    BY <1>1, <2>1 DEF ProxyMoves, PastClaim, PastSecret
  <2>2. CASE s # t
    BY <1>1, <1>2, <2>2 DEF ProxyMoves, cluster, Beneath, Ordered, OrderKept
  <2> QED BY <2>1, <2>2
<1> QED BY <1>1, <1>2, <1>3
        DEF Beneath, Ordered, ClaimCounted, DependenciesFirst, SecretSafe,
            SecretHonest, PodPasswordCurrent, cluster

(***************************************************************************)
(* What the controller's steps leave to the gateway.                       *)
(***************************************************************************)

(* A password outlives everything. *)
LEMMA PasswordKept ==
  ASSUME TypeOK, [Next]_vars, NEW u \in Users, secret[u].exists
  PROVE  secret'[u].exists /\ secret'[u].pw = secret[u].pw
<1>1. CASE secret'[u] = secret[u]
  BY <1>1
<1>2. ASSUME NEW t \in Threads, EnsureSecretCreate(t), secret'[u] # secret[u]
      PROVE  FALSE
  <2>1. CASE secret[w[t].user].exists
    BY <1>2, <2>1 DEF EnsureSecretCreate
  <2>2. CASE ~secret[w[t].user].exists
    BY <1>2, <2>2 DEF EnsureSecretCreate, TypeOK
  <2> QED BY <2>1, <2>2
<1>3. ASSUME NEW t \in Threads, EnsureSecretUpdate(t), secret'[u] # secret[u]
      PROVE  secret'[u].exists /\ secret'[u].pw = secret[u].pw
  <2>1. secret' = [secret EXCEPT ![w[t].user] =
                     UpdatedSecret(secret[w[t].user], revision[t])]
    BY <1>3 DEF EnsureSecretUpdate
  <2>2. secret'[u] = UpdatedSecret(secret[u], revision[t]) /\ secret[u] \in Secrets
    BY <1>3, <2>1 DEF TypeOK
  <2> QED BY <2>2 DEF UpdatedSecret, Secrets
<1>4. ASSUME NEW v \in Users, PodStart(v) \/ PodReady(v) \/ PodStop(v)
      PROVE  secret' = secret
  BY <1>4 DEF PodStart, PodReady, PodStop
<1>5. CASE secret'[u] # secret[u]
  BY <1>2, <1>3, <1>4, <1>5, SecretFrame DEF SecretStep
<1> QED BY <1>1, <1>5

(* A step of the controller that is not its death. *)
Undying ==
  \/ \E t \in Requests, u \in Users, o \in Operations : Begin(t, u, o)
  \/ ControllerStep
  \/ UNCHANGED vars

LEMMA UndyingNext == Undying => [Next]_vars
BY DEF Undying, Next

(* Goroutines inside the proxy module stay where they are, and none gets   *)
(* to Backend's second half by itself.                                     *)
StaysInProxy(t) ==
  pc[t] \in ProxyCalls \/ pc'[t] = "password" => pc'[t] = pc[t] /\ w'[t] = w[t]

LEMMA GotoStaysInProxy ==
  ASSUME TypeOK, NEW t \in Threads, NEW label, Goto(t, label),
         pc[t] \notin ProxyCalls, label # "password"
  PROVE  \A s \in Threads : StaysInProxy(s)
BY DEF StaysInProxy, Goto, TypeOK

LEMMA ControllerStays ==
  ASSUME TypeOK, Undying
  PROVE  \A t \in Threads : StaysInProxy(t)
<1> DEFINE Goal == \A t \in Threads : StaysInProxy(t)
<1> USE DEF database, cluster, scratch, locals, history
<1>a. ASSUME UNCHANGED <<pc, w>> PROVE Goal
  BY <1>a DEF StaysInProxy
<1>1. ASSUME NEW t \in Requests, NEW u \in Users, NEW o \in Operations,
             Begin(t, u, o)
      PROVE  Goal
  BY <1>1, Constants DEF Begin, StaysInProxy, TypeOK, ProxyCalls
<1>2. ASSUME NEW t \in Threads, Workspace(t) PROVE Goal
  BY <1>2 DEF Workspace, At, GotoWith, StaysInProxy, TypeOK, ProxyCalls
<1>3. ASSUME NEW t \in Threads,
             \/ SetWorkspaceState(t) \/ DeletePVC(t)
             \/ DeleteWorkspaceDataRecord(t)
      PROVE  Goal
  BY <1>3, GotoStaysInProxy
     DEF SetWorkspaceState, DeletePVC, DeleteWorkspaceDataRecord, At, ProxyCalls
<1>4. ASSUME NEW t \in Threads, Reconcile(t) PROVE Goal
  <2>1. pc[t] \notin ProxyCalls
    BY <1>4 DEF Reconcile, At, EnsurePVCGet, EnsurePVCCreate,
         EnsureSecretConfig, EnsureSecretGet, EnsureSecretCreate,
         EnsureSecretUpdate, EnsureServiceGet, EnsureServiceCreate,
         EnsureDeploymentGet, EnsureDeploymentCreate, EnsureDeploymentUpdate,
         ProxyCalls
  <2>2. \E label : Goto(t, label) /\ label # "password"
    BY <1>4 DEF Reconcile, EnsurePVCGet, EnsurePVCCreate, EnsureSecretConfig,
         EnsureSecretGet, EnsureSecretCreate, EnsureSecretUpdate,
         EnsureServiceGet, EnsureServiceCreate, EnsureDeploymentGet,
         EnsureDeploymentCreate, EnsureDeploymentUpdate, Returned, Failed
  <2> QED BY <2>1, <2>2, GotoStaysInProxy
<1>5. ASSUME IdleWorkspaces \/ ListWorkspaces \/ Tick PROVE Goal
  BY <1>5, GotoStaysInProxy, Constants
     DEF IdleWorkspaces, ListWorkspaces, Tick, ProxyCalls
<1>6. ASSUME NextItem PROVE Goal
  BY <1>6, Constants DEF NextItem, GotoWith, StaysInProxy, TypeOK, ProxyCalls
<1>7. ASSUME NEW t \in Threads, CallFails(t) PROVE Goal
  <2>1. pc[t] \notin ProxyCalls /\ Failed(t) # "password"
    BY <1>7 DEF CallFails, KubeCalls, StoreCalls, ProxyCalls, Failed
  <2> QED BY <1>7, <2>1, GotoStaysInProxy DEF CallFails
<1>8. ASSUME NEW u \in Users, SetWorkspaceConfiguration(u) \/ Expire(u) PROVE Goal
  BY <1>8, <1>a DEF SetWorkspaceConfiguration, Expire
<1>9. ASSUME NEW u \in Users, ClusterStep(u) PROVE Goal
  BY <1>9, <1>a DEF ClusterStep, PodStart, PodReady, PodStop, StatusUpdate,
                    ReleasePVC
<1>10. CASE UNCHANGED vars
  BY <1>10, <1>a DEF vars
<1> QED
  BY <1>1, <1>2, <1>3, <1>4, <1>5, <1>6, <1>7, <1>8, <1>9, <1>10, Constants
  DEF Undying, ControllerStep, RequestStep, LoopStep, Environment

(***************************************************************************)
(* Backends.                                                               *)
(***************************************************************************)

(* A backend in hand or in the cache is the password of a Secret that      *)
(* exists; a request holds one only on the way from backend to the round   *)
(* trip's error handler.                                                   *)
HoldingCalls == {"cache", "touch", "touchWrite", "forward", "proxyError"}

Good(u, b) == b # Nothing => secret[u].exists /\ b = secret[u].pw

Cached == \A u \in Users : Good(u, backends[u])

Held ==
  \A t \in Clients :
    /\ resolved[t] # Nothing => pc[t] \in HoldingCalls
    /\ Good(w[t].user, resolved[t])
    /\ pc[t] = "password" => secret[w[t].user].exists

Memory ==
  /\ backends \in [Users -> Passwords \cup {Nothing}]
  /\ touched  \in [Users -> BOOLEAN]
  /\ resolved \in [Clients -> Passwords \cup {Nothing}]

Backed == Memory /\ Cached /\ Held

(* What was good stays good while Secrets keep their passwords. *)
LEMMA StaysGood ==
  ASSUME TypeOK, [Next]_vars, NEW u \in Users, NEW b, Good(u, b)
  PROVE  b # Nothing => secret'[u].exists /\ b = secret'[u].pw
BY PasswordKept DEF Good

LEMMA ControllerBacked ==
  ASSUME Beneath, Backed, Undying, UNCHANGED gateway
  PROVE  Backed'
<1>1. /\ TypeOK /\ [Next]_vars
      /\ backends' = backends /\ touched' = touched /\ resolved' = resolved
  BY UndyingNext DEF Beneath, gateway, memory
<1>2. Memory' /\ Cached'
  BY <1>1, StaysGood DEF Backed, Memory, Cached, Good
<1>3. ASSUME NEW t \in Clients
      PROVE  /\ resolved[t] # Nothing => pc'[t] \in HoldingCalls
             /\ resolved[t] # Nothing =>
                  secret'[w'[t].user].exists /\ resolved[t] = secret'[w'[t].user].pw
             /\ pc'[t] = "password" => secret'[w'[t].user].exists
  <2>1. t \in Threads /\ w[t].user \in Users /\ StaysInProxy(t)
    BY <1>1, ClientTypes, UserType, ControllerStays
  <2>2. ASSUME resolved[t] # Nothing
        PROVE  /\ pc'[t] \in HoldingCalls
               /\ secret'[w'[t].user].exists /\ resolved[t] = secret'[w'[t].user].pw
    <3>1. pc[t] \in HoldingCalls /\ pc'[t] = pc[t] /\ w'[t] = w[t]
      BY <2>1, <2>2 DEF Backed, Held, HoldingCalls, StaysInProxy, ProxyCalls
    <3>2. Good(w[t].user, resolved[t])
      BY DEF Backed, Held
    <3> QED BY <1>1, <2>1, <2>2, <3>1, <3>2, StaysGood
  <2>3. ASSUME pc'[t] = "password" PROVE secret'[w'[t].user].exists
    <3>1. pc[t] = "password" /\ w'[t] = w[t]
      BY <2>1, <2>3 DEF StaysInProxy
    <3> QED BY <1>1, <2>1, <3>1, PasswordKept DEF Backed, Held
  <2> QED BY <2>2, <2>3
<1> QED BY <1>1, <1>2, <1>3 DEF Backed, Held, Good

(* A request that goes on with the backend it has, or gives it up. *)
LEMMA Carries ==
  ASSUME TypeOK, Backed, NEW t \in Clients, NEW label, Goto(t, label),
         UNCHANGED <<backends, secret>>,
         \/ resolved' = resolved /\ (resolved[t] # Nothing => label \in HoldingCalls)
         \/ resolved' = [resolved EXCEPT ![t] = Nothing],
         label = "password" => secret[w[t].user].exists
  PROVE  Cached' /\ Held'
<1>1. t \in Threads /\ \A s \in Clients : s \in Threads
  BY ClientTypes
<1>2. \A s \in Clients : s # t => pc'[s] = pc[s] /\ w'[s] = w[s]
  BY <1>1 DEF Goto, TypeOK
<1>3. pc'[t] = label /\ (label \in HoldingCalls \cup {"password"} => w'[t] = w[t])
  BY <1>1 DEF Goto, TypeOK, HoldingCalls
<1> QED BY <1>2, <1>3 DEF Backed, Memory, Cached, Held, Good

LEMMA ProxyBacked ==
  ASSUME Beneath, Backed, NEW t \in Clients, ProxyStep(t)
  PROVE  Backed'
<1> USE DEF gateway, memory
<1> DEFINE u == w[t].user
<1>t. t \in Threads /\ TypeOK /\ u \in Users
  BY ClientTypes, UserType DEF Beneath
<1>0. secret' = secret
  BY <1>t, ProxyFrame DEF ProxyMoves, cluster
<1>1. ASSUME NEW v \in Users, ServeHTTP(t, v) PROVE Backed'
  <2>1. resolved[t] = Nothing
    BY <1>1 DEF ServeHTTP, Backed, Held, HoldingCalls
  <2>2. /\ pc'[t] \in {"backend", "forget"}
        /\ \A s \in Clients : s # t => pc'[s] = pc[s] /\ w'[s] = w[s]
    BY <1>1, <1>t, ClientTypes DEF ServeHTTP, TypeOK
  <2> QED BY <1>0, <1>1, <2>1, <2>2 DEF ServeHTTP, Backed, Memory, Cached, Held, Good
<1>2. ASSUME ForgetBackend(t) PROVE Backed'
  <2>1. resolved[t] = Nothing
    BY <1>2 DEF ForgetBackend, At, Backed, Held, HoldingCalls
  <2>2. Goto(t, "set") /\ resolved' = resolved /\ touched' = touched
        /\ backends' = [backends EXCEPT ![u] = Nothing]
    BY <1>2 DEF ForgetBackend
  <2>3. Held'
    BY <1>0, <1>t, <2>1, <2>2, ClientTypes DEF Goto, TypeOK, Backed, Held, Good
  <2>4. Memory' /\ Cached'
    BY <1>0, <2>2 DEF Backed, Memory, Cached, Good
  <2> QED BY <2>3, <2>4 DEF Backed
<1>3. ASSUME LookupBackend(t) PROVE Backed'
  <2> DEFINE label == IF backends[u] # Nothing THEN "touch" ELSE "status"
  <2>1. /\ Goto(t, label) /\ resolved' = [resolved EXCEPT ![t] = backends[u]]
        /\ backends' = backends /\ touched' = touched
    BY <1>3 DEF LookupBackend
  <2>2. /\ pc'[t] = label /\ w'[t] = w[t] /\ resolved'[t] = backends[u]
        /\ \A s \in Clients : s # t => /\ pc'[s] = pc[s] /\ w'[s] = w[s]
                                       /\ resolved'[s] = resolved[s]
    BY <1>t, <2>1, ClientTypes DEF Goto, TypeOK, Backed, Memory
  <2>3. Memory'
    BY <1>t, <2>1 DEF Backed, Memory
  <2> QED BY <1>0, <1>t, <2>1, <2>2, <2>3 DEF Backed, Cached, Held, Good, HoldingCalls
<1>4. ASSUME Status(t) PROVE Backed'
  <2>1. resolved[t] = Nothing
    BY <1>4 DEF Status, At, Backed, Held, HoldingCalls
  <2>2. Memory' /\ UNCHANGED <<backends, secret>>
    BY <1>0, <1>4 DEF Status, Answer, Backed, Memory
  <2>3. deployment[u].exists => secret[u].exists
    BY <1>t DEF Beneath, Ordered, DependenciesFirst
  <2> QED BY <1>4, <1>t, <2>1, <2>2, <2>3, Carries DEF Status, Answer, Backed
<1>5. ASSUME Backend(t) PROVE Backed'
  <2>1. /\ Goto(t, "cache") /\ resolved' = [resolved EXCEPT ![t] = secret[u].pw]
        /\ backends' = backends /\ touched' = touched
    BY <1>5 DEF Backend
  <2>2. secret[u].exists /\ secret[u].pw \in Passwords
    BY <1>5, <1>t DEF Backend, At, Backed, Held, TypeOK, Secrets
  <2>3. /\ pc'[t] = "cache" /\ w'[t] = w[t] /\ resolved'[t] = secret[u].pw
        /\ \A s \in Clients : s # t => /\ pc'[s] = pc[s] /\ w'[s] = w[s]
                                       /\ resolved'[s] = resolved[s]
    BY <1>t, <2>1, ClientTypes DEF Goto, TypeOK, Backed, Memory
  <2>4. Memory'
    BY <2>1, <2>2 DEF Backed, Memory
  <2> QED BY <1>0, <2>1, <2>2, <2>3, <2>4 DEF Backed, Cached, Held, Good, HoldingCalls
<1>6. ASSUME BackendFails(t) PROVE Backed'
  BY <1>0, <1>6, <1>t, Carries DEF BackendFails, Answer, Backed, Memory
<1>7. ASSUME CacheBackend(t) PROVE Backed'
  <2>1. /\ Goto(t, "touch") /\ resolved' = resolved /\ touched' = touched
        /\ backends' = [backends EXCEPT ![u] = resolved[t]]
    BY <1>7 DEF CacheBackend
  <2>2. Held'
    BY <1>0, <1>t, <2>1, ClientTypes DEF Goto, TypeOK, Backed, Held, Good, HoldingCalls
  <2>3. Memory' /\ Cached'
    BY <1>0, <1>t, <2>1 DEF Backed, Memory, Cached, Held, Good
  <2> QED BY <2>2, <2>3 DEF Backed
<1>8. ASSUME Touch(t) PROVE Backed'
  <2>1. Memory' /\ UNCHANGED <<backends, resolved>>
    BY <1>8, <1>t DEF Touch, Backed, Memory
  <2> QED BY <1>0, <1>8, <1>t, <2>1, Carries DEF Touch, HoldingCalls, Backed
<1>9. ASSUME TouchWorkspace(t) \/ TouchLost(t) PROVE Backed'
  BY <1>0, <1>9, <1>t, Carries
     DEF TouchWorkspace, TouchLost, HoldingCalls, Backed, Memory
<1>10. ASSUME Forward(t) PROVE Backed'
  BY <1>0, <1>10, <1>t, Carries DEF Forward, Answer, HoldingCalls, Backed, Memory
<1>11. ASSUME ErrorHandler(t) PROVE Backed'
  <2>1. /\ Goto(t, "done") /\ resolved' = [resolved EXCEPT ![t] = Nothing]
        /\ touched' = touched /\ backends' = [backends EXCEPT ![u] = Nothing]
    BY <1>11 DEF ErrorHandler, Answer
  <2>2. Held'
    BY <1>0, <1>t, <2>1, ClientTypes DEF Goto, TypeOK, Backed, Memory, Held, Good
  <2>3. Memory' /\ Cached'
    BY <1>0, <2>1 DEF Backed, Memory, Cached, Good
  <2> QED BY <2>2, <2>3 DEF Backed
<1> QED BY <1>1, <1>2, <1>3, <1>4, <1>5, <1>6, <1>7, <1>8, <1>9, <1>10, <1>11
        DEF ProxyStep

(***************************************************************************)
(* The composition.                                                        *)
(***************************************************************************)
GatewayInv == Beneath /\ Backed

LEMMA GatewayInvInit == GatewayInit => GatewayInv
<1> SUFFICES ASSUME GatewayInit PROVE GatewayInv
  OBVIOUS
<1>1. Beneath
  BY BeneathInit DEF GatewayInit
<1>2. \A t \in Clients : pc[t] # "password"
  BY ClientTypes DEF GatewayInit, Init
<1> QED BY <1>1, <1>2
        DEF GatewayInit, GatewayInv, Backed, Memory, Cached, Held, Good

LEMMA GatewayInvInductive ==
  GatewayInv /\ [GatewayNext]_proxyVars => GatewayInv'
<1> SUFFICES ASSUME GatewayInv, [GatewayNext]_proxyVars PROVE GatewayInv'
  OBVIOUS
<1> USE DEF GatewayInv
<1>1. ASSUME Undying, UNCHANGED gateway PROVE GatewayInv'
  BY <1>1, UndyingNext, BeneathInductive, ControllerBacked
<1>2. ASSUME NEW t \in Clients, ProxyStep(t) PROVE GatewayInv'
  BY <1>2, ProxyBeneath, ProxyBacked
<1>3. ASSUME NEW t \in Requests \ Clients, NEW u \in Users, NEW o \in Operations,
             Alongside(Begin(t, u, o))
      PROVE  GatewayInv'
  BY <1>1, <1>3 DEF Alongside, Undying
<1>4. ASSUME Alongside(ControllerStep) PROVE GatewayInv'
  BY <1>1, <1>4 DEF Alongside, Undying
<1>5. ASSUME NEW u \in Users, MinutePasses(u) PROVE GatewayInv'
  <2>1. Undying /\ [Next]_vars
    BY <1>5 DEF MinutePasses, Undying
  <2>2. UNCHANGED <<pc, w, secret, backends, resolved>>
    BY <1>5 DEF MinutePasses, vars, locals, cluster
  <2>3. Backed'
    BY <1>5, <2>2 DEF MinutePasses, Backed, Memory, Cached, Held, Good
  <2> QED BY <2>1, <2>3, BeneathInductive
<1>6. ASSUME CrashGateway PROVE GatewayInv'
  <2>1. Beneath'
    BY <1>6, BeneathInductive DEF CrashGateway, Next
  <2>2. \A t \in Clients : pc'[t] # "password"
    BY <1>6, ClientTypes DEF CrashGateway, Crash
  <2> QED BY <1>6, <2>1, <2>2 DEF CrashGateway, Backed, Memory, Cached, Held, Good
<1>7. CASE UNCHANGED proxyVars
  BY <1>1, <1>7 DEF proxyVars, Undying
<1> QED BY <1>2, <1>3, <1>4, <1>5, <1>6, <1>7 DEF GatewayNext

(* The composition keeps the controller's types and its own, and a request *)
(* that is not being served holds no backend.                              *)
THEOREM GatewayTypeCorrect == GatewaySpec => []GatewayTypeOK
<1>1. GatewayInv => GatewayTypeOK
  BY DEF GatewayInv, Beneath, Backed, Memory, Held, HoldingCalls, GatewayTypeOK
<1> QED BY <1>1, GatewayInvInit, GatewayInvInductive, PTL DEF GatewaySpec

(* Whatever stopped, restarted, purged or reconfigured a workspace since a *)
(* backend was resolved, its password is the one of the pod that runs now. *)
(* Inductive with Backed (a backend is the Secret's password and Secrets   *)
(* keep theirs) on top of what is proved about the controller, which the   *)
(* gateway's steps keep.                                                   *)
THEOREM CachedPasswordsWork == GatewaySpec => []CachedPasswordWorks
<1>1. GatewayInv => CachedPasswordWorks
  BY DEF GatewayInv, Beneath, SecretSafe, PodPasswordCurrent, Backed, Cached,
         Held, Good, CachedPasswordWorks
<1> QED BY <1>1, GatewayInvInit, GatewayInvInductive, PTL DEF GatewaySpec

(***************************************************************************)
(* What the controller promises, with the proxy beside it.                 *)
(***************************************************************************)
Carried == Beneath /\ Lagging /\ Condemning /\ OnlyPurgesDelete /\ NoPodIsNoPod

(* ServeHTTP counts nothing, copies no row into Reconcile and leaves the   *)
(* other goroutines and Kubernetes alone.                                  *)
ProxyQuiet(t) ==
  /\ UNCHANGED <<nonce, config, cluster, scratch, listed, purged>>
  /\ \A s \in Threads : s # t => pc'[s] = pc[s] /\ w'[s] = w[s] /\ op'[s] = op[s]
  /\ pc'[t] \notin ReconcileCalls \cup {"pvcDelete"}

LEMMA ProxyIsQuiet ==
  ASSUME TypeOK, NEW t \in Clients, ProxyStep(t)
  PROVE  ProxyQuiet(t)
<1> t \in Threads
  BY ClientTypes
<1>1. UNCHANGED <<nonce, config, cluster, scratch, listed, purged>>
  BY DEF ProxyStep, ServeHTTP, ForgetBackend, LookupBackend, Status, Backend,
         BackendFails, CacheBackend, Touch, TouchWorkspace, TouchLost, Forward,
         ErrorHandler, database, history
<1>2. ASSUME NEW u \in Users, ServeHTTP(t, u) PROVE ProxyQuiet(t)
  BY <1>1, <1>2 DEF ServeHTTP, ProxyQuiet, TypeOK, ReconcileCalls, KubeCalls
<1>3. ASSUME NEW label, Goto(t, label), label \notin ReconcileCalls \cup {"pvcDelete"}
      PROVE  ProxyQuiet(t)
  BY <1>1, <1>3 DEF Goto, ProxyQuiet, TypeOK
<1>4. ASSUME ~ \E u \in Users : ServeHTTP(t, u)
      PROVE  \E label : Goto(t, label) /\ label \notin ReconcileCalls \cup {"pvcDelete"}
  BY <1>4 DEF ProxyStep, ForgetBackend, LookupBackend, Status, Backend,
         BackendFails, CacheBackend, Touch, TouchWorkspace, TouchLost, Forward,
         ErrorHandler, Answer, ReconcileCalls, KubeCalls
<1> QED BY <1>2, <1>3, <1>4

LEMMA ProxyCarried ==
  ASSUME Carried, NEW t \in Clients, ProxyStep(t)
  PROVE  Carried'
<1>1. TypeOK /\ ProxyQuiet(t) /\ Beneath'
  BY ProxyIsQuiet, ProxyBeneath DEF Carried, Beneath
<1>2. /\ UNCHANGED <<nonce, config, pvc, volume, secret, deployment, pod, revision,
                     listed, purged>>
      /\ \A s \in Threads : s # t => pc'[s] = pc[s] /\ w'[s] = w[s] /\ op'[s] = op[s]
      /\ pc'[t] \notin ReconcileCalls \cup {"pvcDelete"}
  BY <1>1 DEF ProxyQuiet, cluster, scratch
<1>3. CopiesLag'
  BY <1>2 DEF Carried, Lagging, CopiesLag
<1>4. RevisionsLag'
  <2>1. SecretCalls \subseteq ReconcileCalls
    BY DEF SecretCalls, ReconcileCalls, KubeCalls
  <2> QED BY <1>2, <2>1 DEF Carried, Lagging, RevisionsLag
<1>5. FilesLag' /\ DatabaseLeads'
  BY <1>2 DEF Carried, Lagging, FilesLag, DatabaseLeads
<1>6. Condemning' /\ NoPodIsNoPod'
  BY <1>2 DEF Carried, Condemning, PurgedBefore, CondemnedPodOutdated, NoPodIsNoPod
<1>7. OnlyPurgesDelete'
  BY <1>2 DEF Carried, OnlyPurgesDelete
<1> QED BY <1>1, <1>3, <1>4, <1>5, <1>6, <1>7 DEF Carried, Lagging

LEMMA NextCarried ==
  ASSUME Carried, [Next]_vars
  PROVE  Carried'
<1>1. TypeOK /\ Ordered /\ ClaimCounted /\ Lagging /\ Condemning
  BY DEF Carried, Beneath, Ordered
<1>2. Beneath' /\ Lagging'
  BY <1>1, BeneathInductive, LagInductive DEF Carried
<1>3. Condemning'
  BY <1>1, PurgedBeforeInductive, CondemnedInductive DEF Condemning
<1>4. OnlyPurgesDelete' /\ NoPodIsNoPod'
  BY <1>1, OnlyPurgesDeleteInductive, NoPodInductive DEF Carried
<1> QED BY <1>2, <1>3, <1>4 DEF Carried

(* A step of the composition is one of the controller or one of the proxy. *)
LEMMA Steps ==
  ASSUME [GatewayNext]_proxyVars
  PROVE  [Next]_vars \/ \E t \in Clients : ProxyStep(t)
<1>1. ASSUME NEW u \in Users, MinutePasses(u) PROVE UNCHANGED vars
  BY <1>1 DEF MinutePasses
<1>2. CASE UNCHANGED proxyVars
  BY <1>2 DEF proxyVars
<1> QED BY <1>1, <1>2 DEF GatewayNext, Alongside, CrashGateway, Next

LEMMA CarriedInit == GatewayInit => Carried
BY BeneathInit, LagInit, CondemningInit, MappedInit DEF GatewayInit, Carried, Mapped

LEMMA CarriedInductive == Carried /\ [GatewayNext]_proxyVars => Carried'
BY Steps, NextCarried, ProxyCarried

(* A proxied request only asks.                                            *)
LEMMA ProxyPromiseStep ==
  ASSUME Carried, NEW t \in Clients, ProxyStep(t)
  PROVE  [Promise!Next]_(Promise!vars)
<1>1. TypeOK /\ TypeOK' /\ UNCHANGED <<nonce, pvc, pod>>
  BY ProxyIsQuiet, ProxyType DEF Carried, Beneath, ProxyQuiet, cluster
<1>2. PurgeUnderWay' \subseteq Users
  BY <1>1 DEF PurgeUnderWay, TypeOK, Rows, Threads
<1>3. UNCHANGED <<[u \in Users |-> DataOf(u)], [u \in Users |-> PodOf(u)]>>
  BY <1>1 DEF DataOf, PodOf
<1>4. Promise!Ask
  BY <1>1, <1>2, <1>3 DEF Promise!Ask, TypeOK, States
<1> QED BY <1>4 DEF Promise!Next

LEMMA ProxySettled ==
  ASSUME TypeOK, NEW t \in Clients, ProxyStep(t), NEW u \in Users,
         Settled(u), RowOf(u)' = RowOf(u)
  PROVE  Settled(u)'
<1>1. /\ UNCHANGED <<nonce, deployment, listed>> /\ desired'[u] = desired[u]
      /\ \A s \in Threads : s # t => pc'[s] = pc[s] /\ w'[s] = w[s]
      /\ pc'[t] \notin ReconcileCalls
  BY ProxyIsQuiet DEF ProxyQuiet, cluster, RowOf
<1>2. Agrees(u)'
  BY <1>1 DEF Settled, Agrees
<1>3. \A s \in Threads : pc'[s] \in ReconcileCalls /\ w'[s].user = u => w'[s] = RowOf(u)'
  BY <1>1 DEF Settled
<1>4. \A r \in listed' : r.user = u => r = RowOf(u)'
  BY <1>1 DEF Settled
<1> QED BY <1>2, <1>3, <1>4 DEF Settled

(* The control plane as a whole implements what users are promised: with   *)
(* any number of clients whose requests start workspaces unasked and write *)
(* running over whatever the row says (TouchWorkspace), data is still      *)
(* condemned by a purge of its own user only, never erased under a pod,    *)
(* and no pod starts without data or for a nonce nobody asked for.         *)
THEOREM ProxyKeepsPromise == GatewaySpec => NeverBreaksPromise
<1>1. GatewayInit => Promise!Init
  BY PromiseInit DEF GatewayInit
<1>2. Carried /\ [GatewayNext]_proxyVars => [Promise!Next]_(Promise!vars)
  <2>1. Carried => Mapped
    BY DEF Carried, Beneath, Mapped
  <2> QED BY <2>1, Steps, PromiseStep, ProxyPromiseStep
<1> QED BY <1>1, <1>2, CarriedInit, CarriedInductive, PTL
    DEF GatewaySpec, NeverBreaksPromise, Promise!Spec

(* A client that keeps asking starts the workspace again between Purge's   *)
(* Stop and its Delete; still the pod that runs on the condemned volume    *)
(* when the purge returns carries an outdated nonce.                       *)
THEOREM ProxiedPodsOutdated == GatewaySpec => []CondemnedPodOutdated
<1>1. Carried => CondemnedPodOutdated
  BY DEF Carried, Condemning
<1> QED BY <1>1, CarriedInit, CarriedInductive, PTL DEF GatewaySpec

(* The proxy's starts bring no old copy of a row either: a settled         *)
(* workspace stays settled until its row changes.                          *)
THEOREM ProxiedSettledForGood == GatewaySpec => SettledStays
<1>1. ASSUME Carried, [GatewayNext]_proxyVars
      PROVE  [\A u \in Users : Settled(u) /\ RowOf(u)' = RowOf(u) => Settled(u)']_vars
  <2>1. TypeOK
    BY <1>1 DEF Carried, Beneath
  <2> QED BY <1>1, <2>1, Steps, SettledStep, ProxySettled
<1> QED BY <1>1, CarriedInit, CarriedInductive, PTL DEF GatewaySpec, SettledStays
==============================================================================
