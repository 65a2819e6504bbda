------------------------------- MODULE Gateway -------------------------------
(***************************************************************************)
(* The workspace gateway (internal/proxy/gateway.go) on top of the         *)
(* controller: each authenticated request reads its user's row, starts the *)
(* workspace if it is stopped, resolves a backend through a cache shared   *)
(* by all requests, records activity at most once a minute, and forwards.  *)
(*                                                                         *)
(* A proxied request is a goroutine of Controller's Requests that runs     *)
(* Controller's Start (op "proxy") in the middle of ServeHTTP.             *)
(***************************************************************************)
EXTENDS Controller

CONSTANT Clients   \* request goroutines that are proxied browser requests

ASSUME ClientsAssumption == Clients \subseteq Requests

VARIABLES
  backends,   \* g.backends: user -> cached password, Nothing when absent
  touched,    \* g.lastTouch[user] is less than a minute ago
  resolved    \* each request's own backend

memory    == <<backends, touched>>
gateway   == <<memory, resolved>>
proxyVars == <<vars, gateway>>

Nothing == "nothing"

GatewayInit ==
  /\ Init
  /\ backends = [u \in Users |-> Nothing]
  /\ touched  = [u \in Users |-> FALSE]
  /\ resolved = [t \in Clients |-> Nothing]

(* Return from ServeHTTP. *)
Answer(t) ==
  /\ Goto(t, "done")
  /\ resolved' = [resolved EXCEPT ![t] = Nothing]

(***************************************************************************)
(* ServeHTTP.                                                              *)
(***************************************************************************)

(* Seeded fault: a stopped workspace is not started. *)
ServeHTTPNeverStarts(t, u) ==
  /\ pc[t] \in {"new", "done"}
  /\ pc' = [pc EXCEPT ![t] = "backend"]
  /\ op' = [op EXCEPT ![t] = "proxy"]
  /\ w'  = [w EXCEPT ![t] = NoRow(u)]
  /\ UNCHANGED <<database, cluster, scratch, listed, history, gateway>>

(* A client sends a request (again); the row decides whether to start.     *)
(* When this read fails the request is answered at once and nothing moves. *)
ServeHTTP(t, u) ==
  /\ pc[t] \in {"new", "done"}
  /\ pc' = [pc EXCEPT ![t] = IF desired[u] = "running" THEN "backend" ELSE "forget"]
  /\ op' = [op EXCEPT ![t] = "proxy"]
  /\ w'  = [w EXCEPT ![t] = NoRow(u)]
  /\ UNCHANGED <<database, cluster, scratch, listed, history, gateway>>

(* forgetBackend, then Controller.Start from its SetWorkspaceState on. *)
ForgetBackend(t) ==
  LET u == w[t].user IN
  /\ At(t, "forget")
  /\ backends' = [backends EXCEPT ![u] = Nothing]
  /\ Goto(t, "set")
  /\ UNCHANGED <<database, cluster, scratch, listed, history, touched, resolved>>

(* backend, first critical section: a cached backend is taken as it is. *)
LookupBackend(t) ==
  LET cached == backends[w[t].user] IN
  /\ At(t, "backend")
  /\ resolved' = [resolved EXCEPT ![t] = cached]
  /\ Goto(t, IF cached # Nothing THEN "touch" ELSE "status")
  /\ UNCHANGED <<database, cluster, scratch, listed, history, memory>>

(* Controller.Backend: Status reads the Deployment's own status ... *)
Status(t) ==
  LET u == w[t].user IN
  /\ At(t, "status")
  /\ IF deployment[u].exists /\ ready[u]
     THEN Goto(t, "password") /\ UNCHANGED resolved
     ELSE Answer(t)
  /\ UNCHANGED <<database, cluster, scratch, listed, history, memory>>

(* ... and the password comes from the Secret. *)
Backend(t) ==
  LET u == w[t].user IN
  /\ At(t, "password")
  /\ resolved' = [resolved EXCEPT ![t] = secret[u].pw]
  /\ Goto(t, "cache")
  /\ UNCHANGED <<database, cluster, scratch, listed, history, memory>>

(* Controller.Backend fails: the starting page is served. *)
BackendFails(t) ==
  /\ pc[t] \in {"status", "password"}
  /\ faults < MaxFaults /\ faults' = faults + 1
  /\ Answer(t)
  /\ UNCHANGED <<database, cluster, scratch, listed, purged, memory>>

(* backend, second critical section. *)
CacheBackend(t) ==
  /\ At(t, "cache")
  /\ backends' = [backends EXCEPT ![w[t].user] = resolved[t]]
  /\ Goto(t, "touch")
  /\ UNCHANGED <<database, cluster, scratch, listed, history, touched, resolved>>

(* touch: the minute is noted in memory before the row is written ... *)
Touch(t) ==
  LET u == w[t].user IN
  /\ At(t, "touch")
  /\ touched' = [touched EXCEPT ![u] = TRUE]
  /\ Goto(t, IF touched[u] THEN "forward" ELSE "touchWrite")
  /\ UNCHANGED <<database, cluster, scratch, listed, history, backends, resolved>>

(* Seeded fault: the row is written whole, with the nonce's default. *)
TouchWorkspaceWhole(t) ==
  LET u == w[t].user IN
  /\ At(t, "touchWrite")
  /\ desired'  = [desired EXCEPT ![u] = "running"]
  /\ nonce'    = [nonce EXCEPT ![u] = 0]
  /\ inactive' = [inactive EXCEPT ![u] = FALSE]
  /\ Goto(t, "forward")
  /\ UNCHANGED <<config, cluster, scratch, listed, history, gateway>>

(* ... and an error of that write is ignored.  A stop that came in between *)
(* is overwritten: the row says running again.                             *)
TouchWorkspace(t) ==
  LET u == w[t].user IN
  /\ At(t, "touchWrite")
  /\ desired'  = [desired EXCEPT ![u] = "running"]
  /\ inactive' = [inactive EXCEPT ![u] = FALSE]
  /\ Goto(t, "forward")
  /\ UNCHANGED <<nonce, config, cluster, scratch, listed, history, gateway>>

TouchLost(t) ==
  /\ pc[t] = "touchWrite"
  /\ faults < MaxFaults /\ faults' = faults + 1
  /\ Goto(t, "forward")
  /\ UNCHANGED <<database, cluster, scratch, listed, purged, gateway>>

Reachable(u) == pod[u].phase = "ready"

(* Seeded fault: the request ends without giving up its backend. *)
ForwardKeepsBackend(t) ==
  /\ At(t, "forward")
  /\ Goto(t, IF Reachable(w[t].user) THEN "done" ELSE "proxyError")
  /\ UNCHANGED <<database, cluster, scratch, listed, history, memory, resolved>>

(* The reverse proxy's round trip.  A pod that answers ends the request,   *)
(* even with 401; only a transport error reaches ErrorHandler.             *)
Forward(t) ==
  /\ At(t, "forward")
  /\ IF Reachable(w[t].user)
     THEN Answer(t)
     ELSE Goto(t, "proxyError") /\ UNCHANGED resolved
  /\ UNCHANGED <<database, cluster, scratch, listed, history, memory>>

ErrorHandler(t) ==
  /\ At(t, "proxyError")
  /\ backends' = [backends EXCEPT ![w[t].user] = Nothing]
  /\ Answer(t)
  /\ UNCHANGED <<database, cluster, scratch, listed, history, touched>>

ProxyStep(t) ==
  \/ \E u \in Users : ServeHTTP(t, u)
  \/ ForgetBackend(t) \/ LookupBackend(t) \/ Status(t) \/ Backend(t)
  \/ BackendFails(t) \/ CacheBackend(t) \/ Touch(t) \/ TouchWorkspace(t)
  \/ TouchLost(t) \/ Forward(t) \/ ErrorHandler(t)

(***************************************************************************)
(* Composition with the controller.                                        *)
(***************************************************************************)

(* A step of the controller leaves the gateway's memory alone.             *)
Alongside(step) == step /\ UNCHANGED gateway

MinutePasses(u) ==
  /\ touched[u]
  /\ touched' = [touched EXCEPT ![u] = FALSE]
  /\ UNCHANGED <<vars, backends, resolved>>

(* Both maps live in the process that dies. *)
CrashGateway ==
  /\ Crash
  /\ backends' = [u \in Users |-> Nothing]
  /\ touched'  = [u \in Users |-> FALSE]
  /\ resolved' = [t \in Clients |-> Nothing]

GatewayNext ==
  \/ \E t \in Clients : ProxyStep(t)
  \/ \E t \in Requests \ Clients, u \in Users, o \in Operations :
       Alongside(Begin(t, u, o))
  \/ Alongside(ControllerStep)
  \/ \E u \in Users : MinutePasses(u)
  \/ CrashGateway

(* On top of the controller's fairness: clients keep asking (the starting  *)
(* page refreshes itself every three seconds) and their calls return.      *)
GatewayFairness ==
  /\ WF_proxyVars(Alongside(LoopStep \/ Reconcile(Loop) \/ CallFails(Loop)))
  /\ \A u \in Users : WF_proxyVars(Alongside(ClusterStep(u)))
  /\ \A t \in Clients :
       WF_proxyVars(ProxyStep(t) \/ Alongside(RequestStep(t) \/ Reconcile(t)))

GatewaySpec == GatewayInit /\ [][GatewayNext]_proxyVars
FairGateway == GatewaySpec /\ GatewayFairness

(***************************************************************************)
(* Properties.                                                             *)
(***************************************************************************)

(* The gateway's maps and locals have their types, and only requests that  *)
(* are being served hold a backend.                                        *)
GatewayTypeOK ==
  /\ TypeOK
  /\ backends \in [Users -> Passwords \cup {Nothing}]
  /\ touched  \in [Users -> BOOLEAN]
  /\ resolved \in [Clients -> Passwords \cup {Nothing}]
  /\ \A t \in Clients : pc[t] \in {"new", "done"} => resolved[t] = Nothing

(* A backend that is cached or in the hands of a request authenticates     *)
(* against the pod that runs: the cache outlives stops, restarts, purges   *)
(* and configuration updates, and a wrong password would be answered by    *)
(* the pod with 401, which never evicts the entry.                         *)
CachedPasswordWorks ==
  \A u \in Users : pod[u].phase # "none" =>
    /\ backends[u] \in {Nothing, pod[u].pw}
    /\ \A t \in Clients : w[t].user = u => resolved[t] \in {Nothing, pod[u].pw}

Serving(t) ==
  /\ pc[t] = "forward"
  /\ Reachable(w[t].user) /\ resolved[t] = pod[w[t].user].pw

(* A client that keeps asking is served again and again, whatever stopped, *)
(* restarted or purged its workspace and whatever the cache held then.     *)
ClientServed == \A t \in Clients : []<>Serving(t)
=============================================================================
