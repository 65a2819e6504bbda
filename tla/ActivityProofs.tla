---------------------------- MODULE ActivityProofs ----------------------------
(***************************************************************************)
(* Machine-checked proofs about Activity, for every number of requests,    *)
(* every idle timeout and every bound on skew, delay and lost writes.      *)
(***************************************************************************)
EXTENDS Activity, FiniteSetTheorems, TLAPS

Labels == {"idle", "start", "backend", "touch", "write", "stream"}

(* The notes that have not reached the row, and may never do. *)
Unwritten == lost + InFlight

(* How old the row can be.  From one note to the next there is at most a   *)
(* minute and a pause, and each note since the row was written is on its   *)
(* way or lost; after the latest note the minute passes, and once it has,  *)
(* the next use would be a note.                                           *)
Allowance  == Unwritten * (Minute + Pause)
Since(t, u) == IF t < Minute THEN t ELSE Minute + u
SinceNote  == Since(touchAge, usedAge)
RowKeepsUp == rowAge <= Allowance + SinceNote

(* A cutoff only gets older on its way to the database. *)
CutoffOldEnough == cutoff # NoSweep => cutoff >= IdleTimeout - skew

Inv == TypeOK /\ RowKeepsUp /\ CutoffOldEnough

LEMMA Numbers ==
  /\ Minute \in Nat /\ Minute > 0 /\ IdleTimeout \in Nat
  /\ MaxSkew \in Nat /\ MaxDelay \in Nat /\ MaxLost \in Nat
  /\ Cap \in Nat /\ Cap = IdleTimeout + MaxSkew + MaxDelay + 1
  /\ NoSweep \in Int /\ NoSweep < -MaxSkew
BY ActivityAssumption DEF Cap, NoSweep

(* Requests whose write is under way, as requests come and go. *)
LEMMA InFlightCounts ==
  ASSUME TypeOK
  PROVE  /\ InFlight \in Nat
         /\ \A r \in Requests, l \in Labels : Goto(r, l) =>
              InFlight' = InFlight + (IF l = "write" /\ pc[r] # "write" THEN 1 ELSE 0)
                                   - (IF l # "write" /\ pc[r] = "write" THEN 1 ELSE 0)
         /\ pc' = [r \in Requests |-> "idle"] => InFlight' = 0
<1> DEFINE W == {r \in Requests : pc[r] = "write"}
<1>1. IsFiniteSet(W)
  <2>1. W \subseteq Requests
    OBVIOUS
  <2> QED BY <2>1, ActivityAssumption, FS_Subset
<1>2. Cardinality(W) \in Nat
  BY <1>1, FS_CardinalityType
<1>3. ASSUME NEW r \in Requests, NEW l \in Labels, Goto(r, l)
      PROVE  InFlight' = InFlight + (IF l = "write" /\ pc[r] # "write" THEN 1 ELSE 0)
                                  - (IF l # "write" /\ pc[r] = "write" THEN 1 ELSE 0)
  <2>1. pc'[r] = l /\ \A s \in Requests : s # r => pc'[s] = pc[s]
    BY <1>3 DEF Goto, TypeOK
  <2>2. CASE l = "write" /\ pc[r] # "write"
    <3>1. W' = W \cup {r} /\ r \notin W
      BY <2>1, <2>2
    <3>2. Cardinality(W') = Cardinality(W) + 1
      BY <1>1, <3>1, FS_AddElement
    <3> QED BY <1>2, <2>2, <3>2 DEF InFlight
  <2>3. CASE l # "write" /\ pc[r] = "write"
    <3>1. W' = W \ {r} /\ r \in W
      BY <2>1, <2>3
    <3>2. Cardinality(W') = Cardinality(W) - 1
      BY <1>1, <3>1, FS_RemoveElement
    <3> QED BY <1>2, <2>3, <3>2 DEF InFlight
  <2>4. CASE (l = "write") <=> (pc[r] = "write")
    <3>1. W' = W
      BY <2>1, <2>4
    <3>2. InFlight' = InFlight /\ InFlight \in Nat
      BY <1>2, <3>1 DEF InFlight
    <3> QED BY <2>4, <3>2
  <2> QED BY <2>2, <2>3, <2>4
<1>4. ASSUME pc' = [r \in Requests |-> "idle"] PROVE InFlight' = 0
  <2>1. W' = {}
    BY <1>4
  <2> QED BY <2>1, FS_EmptySet DEF InFlight
<1> QED BY <1>2, <1>3, <1>4 DEF InFlight

(* A product grows with either factor. *)
LEMMA Products ==
  ASSUME NEW k \in Nat, NEW m \in Nat, NEW n \in Nat, m <= n
  PROVE  /\ k * m \in Nat /\ k * m <= k * n /\ (k + 1) * m = k * m + m
OBVIOUS

LEMMA InitInv == Init => Inv
<1> SUFFICES ASSUME Init PROVE Inv
  OBVIOUS
<1>1. TypeOK
  BY Numbers DEF Init, TypeOK
<1>2. InFlight \in Nat /\ Pause = 0
  BY <1>1, InFlightCounts DEF Init, Pause, Longer
<1>3. RowKeepsUp
  <2>1. Unwritten \in Nat /\ Minute + Pause \in Nat
    BY <1>2, Numbers DEF Init, Unwritten
  <2>2. Allowance \in Nat
    BY <2>1, Products DEF Allowance
  <2> QED BY <2>2, Numbers DEF Init, RowKeepsUp, SinceNote, Since
<1> QED BY <1>1, <1>3 DEF Init, Inv, CutoffOldEnough

LEMMA TypesInductive == Inv /\ [Next]_vars => TypeOK'
<1> SUFFICES ASSUME Inv, [Next]_vars PROVE TypeOK'
  OBVIOUS
<1> USE Numbers DEF row, history, Goto
<1>1. ASSUME Tick PROVE TypeOK'
  <2>1. cutoff' \in {NoSweep} \cup -MaxSkew..Cap
    BY <1>1 DEF Tick, Inv, TypeOK
  <2> QED BY <1>1, <2>1 DEF Tick, Inv, TypeOK, Bounded
<1>2. ASSUME NEW r \in Requests, ServeHTTP(r) PROVE TypeOK'
  BY <1>2 DEF ServeHTTP, Inv, TypeOK
<1>3. ASSUME NEW r \in Requests, SetRunning(r) PROVE TypeOK'
  BY <1>3 DEF SetRunning, Recorded, Inv, TypeOK
<1>4. ASSUME NEW r \in Requests, Refused(r) \/ Backend(r) \/ Finish(r) PROVE TypeOK'
  BY <1>4 DEF Refused, Backend, Finish, Inv, TypeOK
<1>5. ASSUME NEW r \in Requests, Touch(r) PROVE TypeOK'
  BY <1>5 DEF Touch, Longer, Inv, TypeOK
<1>6. ASSUME NEW r \in Requests, TouchWorkspace(r) PROVE TypeOK'
  BY <1>6 DEF TouchWorkspace, Recorded, Inv, TypeOK
<1>7. ASSUME NEW r \in Requests, TouchLost(r) PROVE TypeOK'
  BY <1>7 DEF TouchLost, Inv, TypeOK
<1>8. ASSUME SetWorkspaceState \/ Stop PROVE TypeOK'
  BY <1>8 DEF SetWorkspaceState, Stop, Recorded, Inv, TypeOK
<1>9. ASSUME ReconcileAll PROVE TypeOK'
  <2>1. cutoff' \in -MaxSkew..Cap
    BY <1>9 DEF ReconcileAll, Inv, TypeOK
  <2> QED BY <1>9, <2>1 DEF ReconcileAll, Inv, TypeOK
<1>10. ASSUME IdleWorkspaces \/ SweepFails PROVE TypeOK'
  BY <1>10 DEF IdleWorkspaces, SweepFails, Inv, TypeOK
<1>11. ASSUME Crash PROVE TypeOK'
  <2>1. InFlight \in Nat
    BY InFlightCounts DEF Inv
  <2> QED BY <1>11, <2>1 DEF Crash, Inv, TypeOK
<1>12. CASE UNCHANGED vars
  BY <1>12 DEF vars, Inv, TypeOK
<1> QED
  BY <1>1, <1>2, <1>3, <1>4, <1>5, <1>6, <1>7, <1>8, <1>9, <1>10, <1>11, <1>12
  DEF Next, Serve

LEMMA CutoffInductive == Inv /\ [Next]_vars => CutoffOldEnough'
<1> SUFFICES ASSUME Inv, [Next]_vars PROVE CutoffOldEnough'
  OBVIOUS
<1> USE Numbers DEF row, history
<1>1. ASSUME UNCHANGED <<cutoff, skew>> PROVE CutoffOldEnough'
  BY <1>1 DEF Inv, CutoffOldEnough
<1>2. ASSUME cutoff' = NoSweep PROVE CutoffOldEnough'
  BY <1>2 DEF CutoffOldEnough
<1>3. ASSUME Tick PROVE CutoffOldEnough'
  BY <1>3 DEF Tick, Inv, TypeOK, CutoffOldEnough
<1>4. ASSUME ReconcileAll PROVE CutoffOldEnough'
  BY <1>4 DEF ReconcileAll, Inv, TypeOK, CutoffOldEnough
<1> QED
  BY <1>1, <1>2, <1>3, <1>4
  DEF Next, ServeHTTP, Serve, SetRunning, Refused, Backend, Touch, TouchWorkspace,
      TouchLost, Finish, SetWorkspaceState, Stop, IdleWorkspaces, SweepFails, Crash, vars

(* The terms of RowKeepsUp are natural numbers. *)
Sizes ==
  /\ rowAge \in Nat /\ touchAge \in Nat /\ touchAge <= Minute
  /\ usedAge \in Nat /\ Pause \in Nat /\ usedAge <= Pause
  /\ Unwritten \in Nat /\ Allowance \in Nat /\ SinceNote \in Nat

LEMMA Terms == TypeOK => Sizes
<1> SUFFICES ASSUME TypeOK PROVE Sizes
  OBVIOUS
<1>1. /\ rowAge \in Nat /\ touchAge \in Nat /\ touchAge <= Minute
      /\ usedAge \in Nat /\ lull \in Nat /\ lost \in Nat
  BY Numbers DEF TypeOK
<1>2. Pause \in Nat /\ usedAge <= Pause
  BY <1>1 DEF Pause, Longer
<1>3. Unwritten \in Nat
  BY <1>1, InFlightCounts DEF Unwritten
<1>4. Minute + Pause \in Nat
  BY <1>2, Numbers
<1>5. Allowance \in Nat
  BY <1>3, <1>4, Products DEF Allowance
<1>6. SinceNote \in Nat
  BY <1>1, Numbers DEF SinceNote, Since
<1> QED BY <1>1, <1>2, <1>3, <1>5, <1>6 DEF Sizes

LEMMA TermsNext == TypeOK' => Sizes'
BY Terms, PTL

(* One tick later. *)
LEMMA SinceGrows ==
  \A t, t1 \in Nat, u, u1 \in Nat :
    /\ t <= Minute /\ t1 = (IF t < Minute THEN t + 1 ELSE Minute)
    /\ u1 >= u /\ (u1 = u + 1 \/ u1 = Cap)
    => Since(t1, u1) >= Since(t, u) + 1 \/ Since(t1, u1) >= Cap
BY Numbers DEF Since

LEMMA RowInductive == Inv /\ [Next]_vars => RowKeepsUp'
<1> SUFFICES ASSUME Inv, [Next]_vars PROVE RowKeepsUp'
  OBVIOUS
<1> USE DEF row, history
<1>t. TypeOK /\ TypeOK'
  BY TypesInductive DEF Inv
<1>n. /\ rowAge \in Nat /\ touchAge \in Nat /\ touchAge <= Minute
      /\ usedAge \in Nat /\ Pause \in Nat /\ usedAge <= Pause
      /\ Unwritten \in Nat /\ Allowance \in Nat /\ SinceNote \in Nat
  BY <1>t, Terms DEF Sizes
<1>p. /\ rowAge' \in Nat /\ touchAge' \in Nat /\ touchAge' <= Minute
      /\ usedAge' \in Nat /\ Pause' \in Nat /\ usedAge' <= Pause'
      /\ Unwritten' \in Nat /\ Allowance' \in Nat /\ SinceNote' \in Nat
  BY <1>t, TermsNext DEF Sizes
<1>r. rowAge <= Allowance + SinceNote
  BY DEF Inv, RowKeepsUp
<1>w. /\ InFlight \in Nat
      /\ \A r \in Requests, l \in Labels : Goto(r, l) =>
           InFlight' = InFlight + (IF l = "write" /\ pc[r] # "write" THEN 1 ELSE 0)
                                - (IF l # "write" /\ pc[r] = "write" THEN 1 ELSE 0)
      /\ pc' = [r \in Requests |-> "idle"] => InFlight' = 0
  BY InFlightCounts, <1>t
(* The row has just been written. *)
<1>z. ASSUME rowAge' = 0 PROVE RowKeepsUp'
  <2>1. \A a, s \in Nat : 0 <= a + s
    OBVIOUS
  <2> QED BY <1>z, <1>p, <2>1 DEF RowKeepsUp
(* A step that neither uses the workspace nor writes its row. *)
<1>k. ASSUME UNCHANGED <<rowAge, touchAge, usedAge, lull>>, Unwritten' = Unwritten
      PROVE  RowKeepsUp'
  <2>1. Allowance' = Allowance /\ SinceNote' = SinceNote
    BY <1>k DEF Allowance, SinceNote, Pause, Longer
  <2> QED BY <1>k, <1>r, <2>1 DEF RowKeepsUp
<1>1. ASSUME Tick PROVE RowKeepsUp'
  <2>1. Unwritten' = Unwritten
    BY <1>1 DEF Tick, Unwritten, InFlight
  <2>2. usedAge' >= usedAge /\ (usedAge' = usedAge + 1 \/ usedAge' = Cap) /\ rowAge' <= Cap
    BY <1>1, <1>t, Numbers DEF Tick, Bounded, TypeOK
  <2>3. Pause <= Pause'
    BY <1>1, <1>t, <2>2, Numbers DEF Tick, Pause, Longer, TypeOK
  <2>4. Allowance <= Allowance'
    <3>1. Minute + Pause \in Nat /\ Minute + Pause' \in Nat /\ Minute + Pause <= Minute + Pause'
      <4>1. \A p, q \in Nat : p <= q =>
              Minute + p \in Nat /\ Minute + q \in Nat /\ Minute + p <= Minute + q
        BY Numbers
      <4> QED BY <1>n, <1>p, <2>3, <4>1
    <3>2. Unwritten * (Minute + Pause) <= Unwritten * (Minute + Pause')
      BY <1>n, <3>1, Products
    <3> QED BY <2>1, <3>2 DEF Allowance
  <2>5. rowAge' <= rowAge + 1
    BY <1>1, <1>n, Numbers DEF Tick, Bounded
  <2>6. touchAge' = IF touchAge < Minute THEN touchAge + 1 ELSE Minute
    BY <1>1, <1>n, Numbers DEF Tick, Bounded
  <2>7. SinceNote' >= SinceNote + 1 \/ SinceNote' >= Cap
    BY <1>n, <1>p, <2>2, <2>6, SinceGrows DEF SinceNote
  <2>8. \A k, l, a, b, s, u \in Nat :
          k <= a + s /\ l <= k + 1 /\ l <= Cap /\ a <= b /\ (u >= s + 1 \/ u >= Cap)
            => l <= b + u
    BY Numbers
  <2> QED BY <1>n, <1>p, <1>r, <2>2, <2>4, <2>5, <2>7, <2>8 DEF RowKeepsUp
<1>2. ASSUME NEW r \in Requests, ServeHTTP(r) PROVE RowKeepsUp'
  <2>1. PICK l \in {"backend", "start"} : Goto(r, l)
    BY <1>2 DEF ServeHTTP
  <2>2. InFlight' = InFlight
    BY <1>2, <1>w, <2>1 DEF ServeHTTP, Labels
  <2> QED BY <1>2, <1>k, <2>2 DEF ServeHTTP, Unwritten
<1>3. ASSUME NEW r \in Requests, SetRunning(r) PROVE RowKeepsUp'
  BY <1>3, <1>z DEF SetRunning, Recorded
<1>4. ASSUME NEW r \in Requests, Refused(r) \/ Backend(r) \/ Finish(r)
      PROVE  RowKeepsUp'
  <2>1. PICK l \in {"idle", "touch"} : Goto(r, l) /\ pc[r] # "write"
    BY <1>4 DEF Refused, Backend, Finish
  <2>2. InFlight' = InFlight
    BY <1>w, <2>1 DEF Labels
  <2> QED BY <1>4, <1>k, <2>2 DEF Refused, Backend, Finish, Unwritten
<1>5. ASSUME NEW r \in Requests, Touch(r) PROVE RowKeepsUp'
  <2>1. usedAge' = 0 /\ Pause' = Pause /\ lost' = lost /\ rowAge' = rowAge
    BY <1>5, <1>t, Numbers DEF Touch, Pause, Longer, TypeOK
  <2>2. CASE touchAge < Minute
    <3>1. Goto(r, "stream") /\ touchAge' = touchAge /\ pc[r] = "touch"
      BY <1>5, <2>2 DEF Touch
    <3>2. Unwritten' = Unwritten
      BY <1>w, <2>1, <3>1 DEF Labels, Unwritten
    <3>3. Allowance' = Allowance /\ SinceNote' = SinceNote
      BY <2>1, <2>2, <3>1, <3>2 DEF Allowance, SinceNote, Since
    <3> QED BY <1>r, <2>1, <3>3 DEF RowKeepsUp
  (* A note: its write is one more that has not arrived. *)
  <2>3. CASE ~(touchAge < Minute)
    <3>1. Goto(r, "write") /\ touchAge' = 0 /\ pc[r] = "touch"
      BY <1>5, <2>3 DEF Touch
    <3>2. Unwritten' = Unwritten + 1
      <4>1. InFlight' = InFlight + 1
        BY <1>w, <3>1 DEF Labels
      <4> QED BY <1>t, <1>w, <2>1, <4>1 DEF Unwritten, TypeOK
    <3>3. Allowance' = Allowance + (Minute + Pause)
      <4>1. Minute + Pause \in Nat
        BY <1>n, Numbers
      <4>2. (Unwritten + 1) * (Minute + Pause)
              = Unwritten * (Minute + Pause) + (Minute + Pause)
        BY <1>n, <4>1, Products
      <4> QED BY <2>1, <3>2, <4>2 DEF Allowance
    <3>4. SinceNote = Minute + usedAge
      BY <2>3 DEF SinceNote, Since
    <3>5. SinceNote' = 0
      BY <3>1, Numbers DEF SinceNote, Since
    <3>6. rowAge <= Allowance + (Minute + Pause)
      BY <1>n, <1>r, <3>4, Numbers
    <3>7. \A a, m \in Nat : a + m = a + m + 0
      OBVIOUS
    <3> QED BY <1>n, <2>1, <3>3, <3>5, <3>6, <3>7, Numbers DEF RowKeepsUp
  <2> QED BY <2>2, <2>3
<1>6. ASSUME NEW r \in Requests, TouchWorkspace(r) PROVE RowKeepsUp'
  BY <1>6, <1>z DEF TouchWorkspace, Recorded
(* A write is lost instead of under way. *)
<1>7. ASSUME NEW r \in Requests, TouchLost(r) PROVE RowKeepsUp'
  <2>1. Goto(r, "stream") /\ pc[r] = "write" /\ lost' = lost + 1
    BY <1>7 DEF TouchLost
  <2>2. InFlight' = InFlight - 1
    BY <1>w, <2>1 DEF Labels
  <2>3. Unwritten' = Unwritten
    BY <1>t, <1>w, <2>1, <2>2 DEF Unwritten, TypeOK
  <2> QED BY <1>7, <1>k, <2>3 DEF TouchLost
<1>8. ASSUME SetWorkspaceState PROVE RowKeepsUp'
  BY <1>8, <1>z DEF SetWorkspaceState, Recorded
<1>9. ASSUME Stop \/ ReconcileAll \/ IdleWorkspaces \/ SweepFails PROVE RowKeepsUp'
  BY <1>9, <1>k DEF Stop, ReconcileAll, IdleWorkspaces, SweepFails, Unwritten, InFlight
(* All that was under way is lost, and the minute is forgotten. *)
<1>10. ASSUME Crash PROVE RowKeepsUp'
  <2>1. Unwritten' = Unwritten
    BY <1>10, <1>w, <1>t DEF Crash, Unwritten, TypeOK
  <2>2. touchAge' = Minute /\ usedAge' = usedAge /\ rowAge' = rowAge /\ Pause' = Pause
    BY <1>10 DEF Crash, Pause, Longer
  <2>3. Allowance' = Allowance
    BY <2>1, <2>2 DEF Allowance
  <2>4. SinceNote <= SinceNote'
    BY <1>n, <2>2, Numbers DEF SinceNote, Since
  <2>5. \A k, a, s, u \in Nat : k <= a + s /\ s <= u => k <= a + u
    OBVIOUS
  <2> QED BY <1>n, <1>p, <1>r, <2>2, <2>3, <2>4, <2>5 DEF RowKeepsUp
<1>11. CASE UNCHANGED vars
  BY <1>11, <1>k DEF vars, Unwritten, InFlight
<1> QED
  BY <1>1, <1>2, <1>3, <1>4, <1>5, <1>6, <1>7, <1>8, <1>9, <1>10, <1>11
  DEF Next, Serve

LEMMA InvAlways == Spec => []Inv
<1>1. Inv /\ [Next]_vars => Inv'
  BY TypesInductive, RowInductive, CutoffInductive DEF Inv
<1> QED BY <1>1, InitInv, PTL DEF Spec

(* Every age and counter stays within its bounds. *)
THEOREM ActivityTypeCorrect == Spec => []TypeOK
<1>1. Inv => TypeOK
  BY DEF Inv
<1> QED BY <1>1, InvAlways, PTL

(* The step that sweeps a workspace away found its row older than the      *)
(* timeout, and the row can only have fallen behind by the pauses in its   *)
(* use, the minute each note covers, and the notes that did not arrive.    *)
LEMMA SweptOnlyWhenIdle ==
  ASSUME Inv, [Next]_vars, SweptAway
  PROVE  (lost + InFlight + 1) * (Minute + Pause) > IdleTimeout - skew
<1> USE DEF row, history
<1>1. IdleWorkspaces
  BY DEF SweptAway, Next, Tick, ServeHTTP, Serve, SetRunning, Refused, Backend, Touch,
         TouchWorkspace, TouchLost, Finish, SetWorkspaceState, Stop, ReconcileAll,
         SweepFails, Crash, Recorded, vars
<1>2. rowAge > cutoff /\ cutoff >= IdleTimeout - skew
  BY <1>1 DEF SweptAway, IdleWorkspaces, Inv, CutoffOldEnough
<1>3. /\ rowAge \in Nat /\ touchAge \in Nat /\ touchAge <= Minute
      /\ usedAge \in Nat /\ Pause \in Nat /\ usedAge <= Pause
      /\ Unwritten \in Nat /\ Allowance \in Nat /\ SinceNote \in Nat
  BY Terms DEF Inv, Sizes
<1>4. (Unwritten + 1) * (Minute + Pause) = Allowance + (Minute + Pause)
  <2>1. Minute + Pause \in Nat
    BY <1>3, Numbers
  <2> QED BY <1>3, <2>1, Products DEF Allowance
<1>5. SinceNote <= Minute + Pause
  BY <1>3, Numbers DEF SinceNote, Since
<1>6. cutoff \in Int /\ skew \in Int
  BY Numbers DEF Inv, TypeOK
<1>7. Allowance + (Minute + Pause) > IdleTimeout - skew
  BY <1>2, <1>3, <1>5, <1>6, Numbers DEF Inv, RowKeepsUp
<1> QED BY <1>4, <1>7 DEF Unwritten

(* However many requests, lost writes, crashes and sweeps, and whatever    *)
(* the two clocks say: a workspace in steady use is not swept away.        *)
THEOREM BusyWorkspacesStayUp == Spec => BusyStaysUp
<1>1. Inv /\ [Next]_vars =>
        [SweptAway => (lost + InFlight + 1) * (Minute + Pause) > IdleTimeout - skew]_vars
  BY SweptOnlyWhenIdle
<1> QED BY <1>1, InvAlways, PTL DEF Spec, BusyStaysUp
===============================================================================
