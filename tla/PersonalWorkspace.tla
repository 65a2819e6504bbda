--------------------------- MODULE PersonalWorkspace ---------------------------
(***************************************************************************)
(* What the control plane promises each user, without its goroutines,      *)
(* copies, Secrets, Services and Deployments: a row that says what is      *)
(* asked for, data that outlives everything but a purge, and at most one   *)
(* pod on that data which follows the row.  Controller implements this     *)
(* specification (module Refinement).                                      *)
(***************************************************************************)
EXTENDS Integers

CONSTANTS
  Users,
  Steady      \* users for whom Kubernetes does what it is asked

VARIABLES
  desired,    \* what is asked for: running or stopped
  nonce,      \* how often a new pod was asked for
  purging,    \* users for whom a purge is under way
  data,       \* the user's volume: none, kept or condemned
  pod         \* the user's pod: its phase and the nonce it was started for

vars == <<desired, nonce, purging, data, pod>>

NoPod == [phase |-> "none", nonce |-> 0]

Init ==
  /\ desired \in [Users -> {"running", "stopped"}]
  /\ nonce   = [u \in Users |-> 0]
  /\ purging = {}
  /\ data    \in [Users -> {"none", "kept"}]
  /\ pod     \in [Users -> {NoPod, [phase |-> "ready", nonce |-> 0]}]
  /\ \A u \in Users : pod[u] # NoPod => data[u] = "kept"

(* Somebody, or the idle sweep, changes what is asked for; purges begin,   *)
(* end or are given up.                                                    *)
Ask ==
  /\ desired' \in [Users -> {"running", "stopped"}]
  /\ nonce'   \in [Users -> Nat]
  /\ \A u \in Users : nonce'[u] \in {nonce[u], nonce[u] + 1}
  /\ purging' \subseteq Users
  /\ UNCHANGED <<data, pod>>

(* Data comes into being empty, is condemned by a purge only, and goes     *)
(* away only after that and never under a pod.                             *)
Provide(u) ==
  /\ data[u] = "none"
  /\ data' = [data EXCEPT ![u] = "kept"]
  /\ UNCHANGED <<desired, nonce, purging, pod>>

Condemn(u) ==
  /\ u \in purging /\ data[u] = "kept"
  /\ data' = [data EXCEPT ![u] = "condemned"]
  /\ UNCHANGED <<desired, nonce, purging, pod>>

Erase(u) ==
  /\ data[u] = "condemned" /\ pod[u] = NoPod
  /\ data' = [data EXCEPT ![u] = "none"]
  /\ UNCHANGED <<desired, nonce, purging, pod>>

(* A pod starts on kept data, for a nonce that was asked for. *)
Boot(u) ==
  /\ data[u] = "kept" /\ pod[u] = NoPod
  /\ \E n \in 0..nonce[u] :
       pod' = [pod EXCEPT ![u] = [phase |-> "starting", nonce |-> n]]
  /\ UNCHANGED <<desired, nonce, purging, data>>

Ready(u) ==
  /\ pod[u].phase = "starting"
  /\ pod' = [pod EXCEPT ![u].phase = "ready"]
  /\ UNCHANGED <<desired, nonce, purging, data>>

Halt(u) ==
  /\ pod[u] # NoPod
  /\ pod' = [pod EXCEPT ![u] = NoPod]
  /\ UNCHANGED <<desired, nonce, purging, data>>

Next ==
  \/ Ask
  \/ \E u \in Users : \/ Provide(u) \/ Condemn(u) \/ Erase(u)
                      \/ Boot(u) \/ Ready(u) \/ Halt(u)

(* What is due for user u.  Each action that is due ends its own being     *)
(* due, so infinitely often not due is weak fairness of that action.       *)
Due(u) ==
  \/ data[u] = "none"
  \/ data[u] = "condemned" /\ pod[u] = NoPod
  \/ desired[u] = "running" /\ data[u] = "kept" /\ pod[u] = NoPod
  \/ pod[u].phase = "starting"
  \/ pod[u] # NoPod /\ (desired[u] = "stopped" \/ pod[u].nonce # nonce[u])

Fairness == \A u \in Steady : []<>~Due(u)

Spec     == Init /\ [][Next]_vars
FairSpec == Spec /\ Fairness
=============================================================================
