------------------------------ MODULE Refinement ------------------------------
(***************************************************************************)
(* Controller implements PersonalWorkspace.                                *)
(***************************************************************************)
EXTENDS Controller


DataOf(u) == CASE pvc[u] = "absent"      -> "none"
               [] pvc[u] = "bound"       -> "kept"
               [] pvc[u] = "terminating" -> "condemned"

PodOf(u) == [phase |-> pod[u].phase, nonce |-> pod[u].nonce]

PurgeUnderWay == {w[t].user : t \in {r \in Requests : op[r] = "purge"}}

Promise == INSTANCE PersonalWorkspace WITH
             Users   <- Users,
             Steady  <- Users \ Unreachable,
             desired <- desired,
             nonce   <- nonce,
             purging <- PurgeUnderWay,
             data    <- [u \in Users |-> DataOf(u)],
             pod     <- [u \in Users |-> PodOf(u)]

(* The goroutines with their copies, conflicts, failures and crashes keep  *)
(* the promise made to each user: data is lost only to a purge and never   *)
(* under a pod, there is one pod at most, it never runs ahead of the row,  *)
(* and whatever the row and the data make due happens in the end.          *)
KeepsPromise == Promise!FairSpec

(* Its safety half, which failures and unfair scheduling leave in force:   *)
(* every step of the goroutines is a step the promise allows, or none.     *)
NeverBreaksPromise == Promise!Spec
=============================================================================
