------------------------------- MODULE Readiness -------------------------------
(***************************************************************************)
(* Gateway with a history of the requests that wait for their workspace to *)
(* become ready.  The history is kept apart from Gateway, whose other      *)
(* properties do not need it.                                              *)
(***************************************************************************)
EXTENDS Gateway

VARIABLE awaits   \* history: requests that found their workspace stopped and
                  \* have seen no ready pod since

(* A request starts to wait where ServeHTTP starts its workspace; it waits *)
(* until its pod is ready or it is answered.                               *)
Waits(t) ==
  /\ \/ t \in awaits
     \/ pc[t] = "forget" /\ pc'[t] = "set"
  /\ pc'[t] # "done" /\ pod'[w[t].user].phase # "ready"

ReadinessInit == GatewayInit /\ awaits = {}
ReadinessNext == GatewayNext /\ awaits' = {t \in Clients : Waits(t)}

ReadinessSpec == ReadinessInit /\ [][ReadinessNext]_<<proxyVars, awaits>>

(* docs/workspaces.mdx: for a request that reaches a stopped workspace the *)
(* platform "starts it and waits for readiness before proxying traffic":   *)
(* it is forwarded only when a pod was ready at some point since.          *)
WaitsForReadiness == \A t \in Clients : pc[t] = "forward" => t \notin awaits
=============================================================================
