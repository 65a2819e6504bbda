------------------------------- MODULE Activity -------------------------------
(***************************************************************************)
(* Idle timeout and activity tracking for one workspace: the gateway notes *)
(* a request at most once a minute in memory and then in the row           *)
(* (internal/proxy/gateway.go), the controller's sweep stops rows whose    *)
(* last activity is older than the idle timeout (internal/kube/            *)
(* controller.go), each by its own clock.                                  *)
(*                                                                         *)
(* Instants are kept as ages, which Tick increases; an age stops growing   *)
(* at the largest value any comparison looks at.                           *)
(***************************************************************************)
EXTENDS Integers, FiniteSets

CONSTANTS
  Requests,      \* gateway goroutines
  Minute,        \* the coalescing interval, in ticks
  IdleTimeout,   \* WORKSPACE_IDLE_TIMEOUT, in ticks; 0 disables the sweep
  MaxSkew,       \* bound: how far the two clocks are apart
  MaxDelay,      \* bound: how long a sweep's UPDATE takes to reach the row
  MaxLost        \* bound: activity writes lost in a row

ASSUME ActivityAssumption ==
  /\ IsFiniteSet(Requests)
  /\ Minute \in Nat \ {0} /\ IdleTimeout \in Nat
  /\ MaxSkew \in Nat /\ MaxDelay \in Nat /\ MaxLost \in Nat

Cap == IdleTimeout + MaxSkew + MaxDelay + 1
NoSweep == -(Cap + 1)

VARIABLES
  desired,    \* workspaces.desired_state
  rowAge,     \* age of workspaces.last_activity_at, by the database's clock
  touchAge,   \* age of g.lastTouch[user]; Minute when older, or absent
  pc,         \* each request: idle, start, backend, touch, write or stream
  cutoff,     \* age of the sweep's cutoff by the database's clock, or NoSweep
  skew,       \* the control plane's clock minus the database's
  usedAge,    \* history: age of the latest use of the workspace
  lull,       \* history: longest pause between uses since the row was written
  lost        \* history: activity writes lost since the row was written

row     == <<desired, rowAge>>
history == <<usedAge, lull, lost>>
vars    == <<row, touchAge, pc, cutoff, skew, history>>

Bounded(a, max) == IF a > max THEN max ELSE a
Longer(a, b)    == IF a > b THEN a ELSE b

Goto(r, l) == pc' = [pc EXCEPT ![r] = l]
InFlight   == Cardinality({r \in Requests : pc[r] = "write"})

Init ==
  /\ desired \in {"running", "stopped"}
  /\ rowAge = 0 /\ touchAge = Minute
  /\ pc = [r \in Requests |-> "idle"]
  /\ cutoff = NoSweep
  /\ skew \in -MaxSkew..MaxSkew
  /\ usedAge = 0 /\ lull = 0 /\ lost = 0

(* The row's activity is set to now(): what came before no longer counts.  *)
Recorded ==
  /\ desired' = "running" /\ rowAge' = 0
  /\ lull' = 0 /\ lost' = 0

(* A minute passes in Minute ticks; a statement that is on its way to the  *)
(* database is there within MaxDelay.                                      *)
Tick ==
  /\ cutoff < IdleTimeout - skew + MaxDelay
  /\ rowAge'   = Bounded(rowAge + 1, Cap)
  /\ touchAge' = Bounded(touchAge + 1, Minute)
  /\ usedAge'  = Bounded(usedAge + 1, Cap)
  /\ cutoff'   = IF cutoff = NoSweep THEN NoSweep ELSE cutoff + 1
  /\ UNCHANGED <<desired, pc, skew, lull, lost>>

(***************************************************************************)
(* Gateway.                                                                *)
(***************************************************************************)

(* ServeHTTP reads the row. *)
ServeHTTP(r) ==
  /\ pc[r] = "idle"
  /\ Goto(r, IF desired = "running" THEN "backend" ELSE "start")
  /\ UNCHANGED <<row, touchAge, cutoff, skew, history>>

(* Controller.Start on behalf of a request, or of the console.  The        *)
(* gateway's lastTouch is left alone.                                      *)
SetRunning(r) ==
  /\ pc[r] = "start"
  /\ Recorded /\ usedAge' = 0
  /\ Goto(r, "backend")
  /\ UNCHANGED <<touchAge, cutoff, skew>>

(* No backend yet, or any error on the way to one: nothing is forwarded. *)
Refused(r) ==
  /\ pc[r] \in {"start", "backend"}
  /\ Goto(r, "idle")
  /\ UNCHANGED <<row, touchAge, cutoff, skew, history>>

Backend(r) ==
  /\ pc[r] = "backend"
  /\ Goto(r, "touch")
  /\ UNCHANGED <<row, touchAge, cutoff, skew, history>>

(* Seeded fault: a coalesced request counts as the minute's note. *)
TouchRenewsMinute(r) ==
  /\ pc[r] = "touch"
  /\ Goto(r, IF touchAge < Minute THEN "stream" ELSE "write")
  /\ touchAge' = 0
  /\ usedAge' = 0 /\ lull' = Longer(lull, usedAge)
  /\ UNCHANGED <<row, cutoff, skew, lost>>

(* Under g.mu: within the minute of the last note there is nothing to do,  *)
(* otherwise the minute is noted and the row is to be written.             *)
Touch(r) ==
  /\ pc[r] = "touch"
  /\ IF touchAge < Minute
       THEN Goto(r, "stream") /\ UNCHANGED touchAge
       ELSE Goto(r, "write")  /\ touchAge' = 0
  /\ usedAge' = 0 /\ lull' = Longer(lull, usedAge)
  /\ UNCHANGED <<row, cutoff, skew, lost>>

(* TouchWorkspace. *)
TouchWorkspace(r) ==
  /\ pc[r] = "write"
  /\ Recorded
  /\ Goto(r, "stream")
  /\ UNCHANGED <<touchAge, cutoff, skew, usedAge>>

(* Its error is dropped; lastTouch keeps the minute. *)
TouchLost(r) ==
  /\ pc[r] = "write" /\ lost < MaxLost
  /\ lost' = lost + 1
  /\ Goto(r, "stream")
  /\ UNCHANGED <<row, touchAge, cutoff, skew, usedAge, lull>>

(* The proxied exchange, a stream perhaps, ends. *)
Finish(r) ==
  /\ pc[r] = "stream"
  /\ Goto(r, "idle")
  /\ UNCHANGED <<row, touchAge, cutoff, skew, history>>

(***************************************************************************)
(* Console.                                                                *)
(***************************************************************************)

(* Start and Restart. *)
SetWorkspaceState ==
  /\ Recorded /\ usedAge' = 0
  /\ UNCHANGED <<touchAge, pc, cutoff, skew>>

(* Stop and the record of a purge: the activity is left as it was. *)
Stop ==
  /\ desired = "running"
  /\ desired' = "stopped"
  /\ UNCHANGED <<rowAge, touchAge, pc, cutoff, skew, history>>

(***************************************************************************)
(* Sweep.                                                                  *)
(***************************************************************************)

(* time.Now().Add(-IdleTimeout): the control plane's clock, so to the      *)
(* database this instant is IdleTimeout - skew ago.                        *)
ReconcileAll ==
  /\ IdleTimeout > 0 /\ cutoff = NoSweep
  /\ cutoff' = IdleTimeout - skew
  /\ UNCHANGED <<row, touchAge, pc, skew, history>>

(* Seeded fault: the gateway's memory decides, and no entry means activity. *)
IdleWorkspacesByMemory ==
  /\ cutoff # NoSweep
  /\ cutoff' = NoSweep
  /\ desired' = IF touchAge < Minute /\ rowAge > cutoff THEN "stopped" ELSE desired
  /\ UNCHANGED <<rowAge, touchAge, pc, skew, history>>

(* Seeded fault: the sweep writes a state the row does not know. *)
IdleWorkspacesWritesIdle ==
  /\ cutoff # NoSweep
  /\ cutoff' = NoSweep
  /\ desired' = IF rowAge > cutoff THEN "idle" ELSE desired
  /\ UNCHANGED <<rowAge, touchAge, pc, skew, history>>

(* WHERE desired_state='running' AND last_activity_at < before *)
IdleWorkspaces ==
  /\ cutoff # NoSweep
  /\ cutoff' = NoSweep
  /\ desired' = IF rowAge > cutoff THEN "stopped" ELSE desired
  /\ UNCHANGED <<rowAge, touchAge, pc, skew, history>>

(* The statement fails; this round idles nobody. *)
SweepFails ==
  /\ cutoff # NoSweep
  /\ cutoff' = NoSweep
  /\ UNCHANGED <<row, touchAge, pc, skew, history>>

(* The control plane dies and starts again: requests end, lastTouch is     *)
(* empty, writes that had not reached the row are lost.                    *)
Crash ==
  /\ lost + InFlight <= MaxLost
  /\ pc' = [r \in Requests |-> "idle"]
  /\ touchAge' = Minute /\ cutoff' = NoSweep
  /\ lost' = lost + InFlight
  /\ UNCHANGED <<row, skew, usedAge, lull>>

Serve(r) ==
  \/ SetRunning(r) \/ Refused(r) \/ Backend(r)
  \/ Touch(r) \/ TouchWorkspace(r) \/ TouchLost(r)

Next ==
  \/ Tick
  \/ \E r \in Requests : ServeHTTP(r) \/ Serve(r) \/ Finish(r)
  \/ SetWorkspaceState \/ Stop
  \/ ReconcileAll \/ IdleWorkspaces \/ SweepFails
  \/ Crash

Spec == Init /\ [][Next]_vars

(* Time passes (MaxDelay holds Tick back while a sweep is under way, so    *)
(* strongly), requests under way go on though a stream may last, the       *)
(* ticker fires, and the database does not fail every sweep.               *)
FairSpec ==
  /\ Spec
  /\ SF_vars(Tick)
  /\ \A r \in Requests : WF_vars(Serve(r))
  /\ WF_vars(ReconcileAll) /\ SF_vars(IdleWorkspaces)

-------------------------------------------------------------------------------

TypeOK ==
  /\ desired \in {"running", "stopped"}
  /\ rowAge \in 0..Cap /\ usedAge \in 0..Cap /\ lull \in 0..Cap
  /\ touchAge \in 0..Minute
  /\ pc \in [Requests -> {"idle", "start", "backend", "touch", "write", "stream"}]
  /\ cutoff \in {NoSweep} \cup -MaxSkew..Cap
  /\ skew \in -MaxSkew..MaxSkew
  /\ lost \in 0..MaxLost

(* A step in which the sweep, and nobody else, stops the workspace. *)
SweptAway == cutoff # NoSweep /\ desired = "running" /\ desired' = "stopped"
                              /\ cutoff' = NoSweep /\ pc' = pc

Pause == Longer(lull, usedAge)

(* What coalescing, lost writes and the two clocks may cost together: the  *)
(* sweep stops a workspace only after a pause in its use which, with the   *)
(* minute that may go unrecorded, makes up the idle timeout; each write    *)
(* lost or still on its way lets one more such pause add up, and the skew  *)
(* is lost once.  In particular a workspace in steady use stays up as long *)
(* as its writes arrive, if the timeout is well above the minute           *)
(* (gateway.go:120-130 against controller.go:72 and database.go:450).      *)
BusyStaysUp ==
  [][SweptAway => (lost + InFlight + 1) * (Minute + Pause) > IdleTimeout - skew]_vars

(* A workspace nobody uses any more is stopped in the end and stays so,    *)
(* whatever requests, crashes and failed sweeps came before.               *)
IdleScalesDown == []<>(usedAge = 0) \/ <>[](desired = "stopped")
=============================================================================
